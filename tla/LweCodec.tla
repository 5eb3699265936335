------------------------------- MODULE LweCodec -------------------------------
(***************************************************************************)
(* The ciphertext formats of NEST and the arithmetic on them, as four      *)
(* programs have it: the FPGA operators lwe_encrypt and lwe_decrypt (a     *)
(* step per 512-bit beat), and the host programs that check, dump, parse   *)
(* and repack their output.  The widths are parameters; the code has 11    *)
(* index bits, 4 lane bits, 8 words in a beat, 1536 words in a slot, 64-bit*)
(* words, 4 radix blocks and 17 bits of noise.  The random stream is an    *)
(* argument (rng): the masks and the noise it yields, per ciphertext.      *)
(***************************************************************************)
EXTENDS Integers, Sequences, FiniteSets, FiniteSetsExt, SequencesExt

CONSTANTS IndexBits,    \* log2 of the mask dimension
          LaneBits,     \* log2 of the coefficients of one group
          BeatWords,    \* words in a beat
          SlotWords,    \* words in the slot of one processing cluster (PC)
          Width,        \* bits of a ciphertext word
          RadixBlocks,  \* 2-bit blocks of a clear value
          NoiseLog2     \* the noise lies strictly below 2^NoiseLog2

MaskDim == 2 ^ IndexBits
PcWords == MaskDim \div 2
MessageWidth == 2
DeltaLog2 == Width - (MessageWidth + 2 + 1)
Delta == 2 ^ DeltaLog2
Word == 0 .. 2 ^ Width - 1
Clear == 0 .. 2 ^ (MessageWidth * RadixBlocks) - 1

Wrap(x) == x % 2 ^ Width

\* The sequence s, each element evaluated once.
Tuple(s) == s \o << >>

\* Bit b of i, and what a block of a clear value holds.
Bit(i, b) == (i \div 2 ^ b) % 2
Block(u8, b) == (u8 \div 2 ^ (MessageWidth * b)) % 2 ^ MessageWidth

\* The value whose blocks are given, least significant block first.
Reconstruct(blocks) ==
    FoldLeft(LAMBDA acc, b : acc + blocks[b] * 2 ^ (MessageWidth * (b - 1)), 0,
             [b \in 1 .. Len(blocks) |-> b])

-----------------------------------------------------------------------------
\* Where a mask word lives.

\* The bit reversal of the operators: reversed[10 - bit] = index[bit].
reverse_psi64_mask_index(i) ==
    MapThenSumSet(LAMBDA b : Bit(i, b) * 2 ^ (IndexBits - 1 - b), 0 .. IndexBits - 1)

\* The bit reversal of the host programs, a shift register.
HostReverse(i) ==
    FoldLeft(LAMBDA acc, b : 2 * acc + Bit(i, b - 1), 0, [b \in 1 .. IndexBits |-> b])

\* Mutant: the words are placed in natural order.
PcPlaceNatural(i) ==
    LET group == i \div 2 ^ LaneBits IN
    [pc |-> group % 2, offset |-> (group \div 2) * 2 ^ LaneBits + (i % 2 ^ LaneBits)]

\* lwe_encrypt: the PC and the offset in it of the mask word with natural index i.
PcPlace(i) ==
    LET hpu == reverse_psi64_mask_index(i)
        group == hpu \div 2 ^ LaneBits
        lane == hpu % 2 ^ LaneBits
    IN  [pc |-> group % 2, offset |-> (group \div 2) * 2 ^ LaneBits + lane]

\* lwe_decrypt: the way back.
natural_index_from_pc_offset(pc, offset) ==
    LET group == 2 * (offset \div 2 ^ LaneBits) + pc
        lane == offset % 2 ^ LaneBits
    IN  reverse_psi64_mask_index(group * 2 ^ LaneBits + lane)

\* The host programs: the word's position in the native image of a ciphertext.
hpu_native_word_index(lwe, pc, offset) ==
    lwe * 2 * SlotWords + pc * SlotWords + offset
HostWord(lwe, i) ==
    LET hpu == HostReverse(i)
        group == hpu \div 2 ^ LaneBits
        lane == hpu % 2 ^ LaneBits
    IN  hpu_native_word_index(lwe, group % 2, (group \div 2) * 2 ^ LaneBits + lane)

-----------------------------------------------------------------------------
\* lwe_encrypt.

\* The mask words that the key selects, summed.
Dot(key, mask) == Wrap(MapThenSumSet(LAMBDA i : mask[i], {i \in 0 .. MaskDim - 1 : key[i] = 1}))

\* A ciphertext: the mask and the body, which hides the encoded block and the noise.
LweOf(key, mask, noise, encoded) ==
    [mask |-> mask, body |-> Wrap(Dot(key, mask) + encoded + noise)]

\* The natural index of the mask word that a place of a ciphertext's slots holds,
\* -1 where there is none.
PcWriters ==
    [k \in 1 .. 2 * SlotWords |->
        Max({-1} \cup {i \in 0 .. MaskDim - 1 :
                          PcPlace(i) = [pc |-> (k - 1) \div SlotWords,
                                        offset |-> (k - 1) % SlotWords]})]

\* encrypt_encoded_lwe_hpu_native with write_hpu_native_pc_slot: PC0 with the body
\* behind its mask words, then PC1, both padded with zeros to a slot.
NativeWords(lwe) ==
    Tuple([k \in 1 .. 2 * SlotWords |->
        IF PcWriters[k] >= 0 THEN lwe.mask[PcWriters[k]]
        ELSE IF k = PcWords + 1 THEN lwe.body ELSE 0])

\* encrypt_encoded_lwe: the mask in natural order and the body; flushing the last
\* beat pads it with zeros.
CpuWords(lwe) ==
    Tuple([k \in 1 .. BeatWords * (MaskDim \div BeatWords + 1) |->
        IF k <= MaskDim THEN lwe.mask[k - 1] ELSE IF k = MaskDim + 1 THEN lwe.body ELSE 0])

\* encrypt_u8_radix: one ciphertext per 2-bit block, least significant first.
EncryptU8(key, rng, layout, u8, index) ==
    FlattenSeq([b \in 1 .. RadixBlocks |->
        LET r == rng[index * RadixBlocks + b - 1]
            lwe == LweOf(key, r.mask, r.noise, Block(u8, b - 1) * Delta)
        IN  IF layout = "native" THEN NativeWords(lwe) ELSE CpuWords(lwe)])

\* A beat on the stream: its valid words, TLAST, and the error code of a finish
\* beat (TUSER 0xff), 0 for a plain one.
Data(words, last) == [words |-> words, last |-> last, finish |-> FALSE, code |-> 0]
Finish(code) == [words |-> << >>, last |-> TRUE, finish |-> TRUE, code |-> code]

\* Cut words into beats; the operators leave TLAST low.
Beats(words) ==
    Tuple([k \in 1 .. (Len(words) + BeatWords - 1) \div BeatWords |->
        Data(SubSeq(words, (k - 1) * BeatWords + 1, Min({k * BeatWords, Len(words)})), FALSE)])

\* What a step of an operator does: its next state, the beats it writes, and
\* whether the invocation returned.
Step(s, out, over) == [s |-> s, out |-> out, over |-> over]

EncryptStart == [processed |-> 0]

\* lwe_encrypt, one turn of stream_loop in the packed u8 mode: every valid lane of
\* the beat is a clear value until count of them are encrypted; the rest of the
\* input is skipped; count 0 means until TLAST.
EncryptStep(cfg, s, p) ==
    IF p.finish
    THEN Step(s, <<IF cfg.count # 0 /\ s.processed < cfg.count THEN Finish(4) ELSE p>>, TRUE)
    ELSE IF cfg.count # 0 /\ s.processed >= cfg.count THEN Step(s, << >>, FALSE)
    ELSE LET n == IF cfg.count = 0 THEN Len(p.words)
                  ELSE Min({Len(p.words), cfg.count - s.processed})
             beats == Beats(FlattenSeq([j \in 1 .. n |->
                  EncryptU8(cfg.key, cfg.rng, cfg.layout, p.words[j], s.processed + j - 1)]))
             ends == cfg.count = 0 /\ p.last
         IN  Step([processed |-> s.processed + n],
                  IF ends THEN Append(beats, Finish(0)) ELSE beats, ends)

-----------------------------------------------------------------------------
\* lwe_decrypt.

DecryptStart ==
    [processed |-> 0, block |-> 0, pc |-> 0, pkt |-> 0, dot |-> 0, body |-> 0,
     u8 |-> 0, clear |-> << >>]

\* One bit more than the words have, so that rounding up cannot wrap.
decode_radix_block(body, dot) ==
    ((Wrap(body - dot) + Delta \div 2) \div Delta) % 2 ^ MessageWidth

\* The sums after one more beat of a slot: mask words, then (in PC0) the body.
TakeBeat(cfg, s, p) ==
    LET taken == {w \in 1 .. Len(p.words) :
                     cfg.key[natural_index_from_pc_offset(s.pc, s.pkt * BeatWords + w - 1)] = 1}
    IN  IF s.pkt < PcWords \div BeatWords
        THEN [s EXCEPT !.dot = Wrap(s.dot + MapThenSumSet(LAMBDA w : p.words[w], taken))]
        ELSE IF s.pc = 0 /\ s.pkt = PcWords \div BeatWords
        THEN [s EXCEPT !.body = p.words[1]]
        ELSE s

\* Both slots of a block are in: decode it and, after the last block of a value,
\* write the value.
NextBlock(s) ==
    LET u8 == s.u8 + decode_radix_block(s.body, s.dot) * 2 ^ (MessageWidth * s.block) IN
    IF s.block + 1 < RadixBlocks
    THEN [s EXCEPT !.pc = 0, !.pkt = 0, !.dot = 0, !.body = 0, !.u8 = u8, !.block = @ + 1]
    ELSE [s EXCEPT !.pc = 0, !.pkt = 0, !.dot = 0, !.body = 0, !.u8 = 0, !.block = 0,
                   !.clear = Append(@, u8), !.processed = @ + 1]

\* The position moves on by one beat.
Advance(s) ==
    IF s.pkt + 1 < SlotWords \div BeatWords THEN [s EXCEPT !.pkt = @ + 1]
    ELSE IF s.pc = 0 THEN [s EXCEPT !.pkt = 0, !.pc = 1]
    ELSE NextBlock(s)

\* write_clear_byte: a beat of clear values goes out when it is full.
write_clear_byte(s) ==
    IF Len(s.clear) = BeatWords THEN Step([s EXCEPT !.clear = << >>], Beats(s.clear), FALSE)
    ELSE Step(s, << >>, FALSE)

\* lwe_decrypt, one turn of decrypt_stream_loop.  The last, partial beat of clear
\* values goes out with the finish beat.
DecryptStep(cfg, s, p) ==
    IF p.finish
    THEN IF \/ cfg.count # 0 /\ s.processed # cfg.count
            \/ s.block # 0 \/ s.pc # 0 \/ s.pkt # 0
         THEN Step(s, <<Finish(5)>>, TRUE)
         ELSE Step(s, Append(Beats(s.clear), p), TRUE)
    ELSE IF cfg.count # 0 /\ s.processed >= cfg.count THEN Step(s, <<Finish(6)>>, TRUE)
    ELSE write_clear_byte(Advance(TakeBeat(cfg, s, p)))

-----------------------------------------------------------------------------
\* The host programs.  raw is the output buffer; word k of it is raw[k + 1].

\* The rounding of the host programs wraps at the width of a word.
HostDecode(phase) == (Wrap(phase + Delta \div 2) \div Delta) % 2 ^ MessageWidth

\* The error of a phase lies within the bound (it is read as a signed word).
NoiseOk(phase, bound) ==
    LET e == Wrap(phase - HostDecode(phase) * Delta)
        signed == IF e >= 2 ^ (Width - 1) THEN e - 2 ^ Width ELSE e
    IN  signed \in -bound .. bound

\* extract_hpu_native_and_verify: one ciphertext, in natural order, body last.
NativeLogical(raw, lwe) ==
    Tuple([k \in 1 .. MaskDim + 1 |->
        raw[1 + (IF k <= MaskDim THEN HostWord(lwe, k - 1)
                 ELSE hpu_native_word_index(lwe, 0, PcWords))]])
PaddingOk(raw, lwe) ==
    /\ \A o \in PcWords + 1 .. SlotWords - 1 : raw[1 + hpu_native_word_index(lwe, 0, o)] = 0
    /\ \A o \in PcWords .. SlotWords - 1 : raw[1 + hpu_native_word_index(lwe, 1, o)] = 0

\* extract_and_verify: the same from a stream with the given stride.
CpuLogical(raw, stride, lwe) == SubSeq(raw, lwe * stride + 1, lwe * stride + MaskDim + 1)

Phase(key, logical) ==
    Wrap(logical[MaskDim + 1] - Dot(key, [i \in 0 .. MaskDim - 1 |-> logical[i + 1]]))

\* The clear values of a list of logical ciphertexts (decrypt_logical_ciphertexts).
Clears(key, lwes) ==
    [c \in 1 .. Len(lwes) \div RadixBlocks |->
        Reconstruct([b \in 1 .. RadixBlocks |->
            HostDecode(Phase(key, lwes[(c - 1) * RadixBlocks + b]))])]

\* What the two extraction functions return: whether they accept the buffer, and
\* the ciphertexts in logical order.
Extract(key, layout, stride, bound, raw, count) ==
    LET n == count * RadixBlocks
        need == IF layout = "native" THEN n * 2 * SlotWords
                ELSE (n - 1) * stride + MaskDim + 1
        lwes == Tuple([j \in 1 .. n |-> IF layout = "native" THEN NativeLogical(raw, j - 1)
                                        ELSE CpuLogical(raw, stride, j - 1)])
    IN  IF Len(raw) < need THEN [ok |-> FALSE, lwes |-> << >>]
        ELSE [ok |-> /\ layout = "native" => \A j \in 0 .. n - 1 : PaddingOk(raw, j)
                     /\ \A j \in 1 .. n : NoiseOk(Phase(key, lwes[j]), bound),
              lwes |-> lwes]

\* The natural index of the mask word that the host puts at a place of the native
\* image of a ciphertext, -1 where there is none.
HostWriters ==
    [k \in 0 .. 2 * SlotWords - 1 |->
        Max({-1} \cup {i \in 0 .. MaskDim - 1 : HostWord(0, i) = k})]

\* parse_lwehls01: the logical ciphertexts of a dump in the native layout again.
Repack(lwes) ==
    Tuple([k \in 1 .. Len(lwes) * 2 * SlotWords |->
        LET lwe == lwes[(k - 1) \div (2 * SlotWords) + 1]
            place == (k - 1) % (2 * SlotWords)
        IN  IF HostWriters[place] >= 0 THEN lwe[HostWriters[place] + 1]
            ELSE IF place = hpu_native_word_index(0, 0, PcWords) THEN lwe[MaskDim + 1] ELSE 0])

=============================================================================
