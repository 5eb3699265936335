------------------------------- MODULE LweTask -------------------------------
(***************************************************************************)
(* A plaintext on its way through NEST: the device encrypts it, the host   *)
(* program reads the ciphertexts back, checks them and dumps them, the     *)
(* decryption program parses the dump, has the device decrypt it and       *)
(* compares.  This composes the data path of a request (ComputeStream),    *)
(* the operators and the host's formats (LweCodec) and the SLM transfers   *)
(* (PrpTransfer).  The control of the applications around it, and their    *)
(* failures, are in Offload.                                               *)
(***************************************************************************)
EXTENDS ComputeStream, PrpTransfer

CONSTANTS Cases,       \* what may be run: see Init
          Keys, Rngs,  \* the keys and random streams the cases name
          Places,      \* where the pages of a host buffer lie, for a case to name
          ChunkPages   \* pages of one SLM read of the encryption program

VARIABLES task,        \* the case that is run; never changes
          stage,       \* encrypt, decrypt, passed, refused
          op,          \* the running operator's state
          lwes,        \* the ciphertexts the host extracted, in logical order
          clears       \* the plaintext the decryption program saved

vars == <<streamVars, task, stage, op, lwes, clears>>

Count == Len(task.plain)
Key == Keys[task.key]
Rng == Rngs[task.rng]

\* build_context of the two programs, with the key.
EncryptConfig == [count |-> Count, key |-> Key, rng |-> Rng, layout |-> task.layout]
DecryptConfig == [count |-> Count, key |-> Key]

RoundUp(n) == PageWords * Pages(n)

\* Mutants: no room for the finish beat; a page to spare.
BufferExact(payload) == RoundUp(payload)
BufferRoomy(payload) == RoundUp(payload + BeatWords) + PageWords

\* output_buffer_bytes of the encryption programs, and run_fpga's of the decryption
\* program: the payload and the finish beat, in whole pages.
output_buffer_bytes(payload) == RoundUp(payload + BeatWords)

\* physical_output_bytes.
physical_output_bytes ==
    Count * RadixBlocks * (IF task.layout = "native" THEN 2 * SlotWords
                           ELSE BeatWords * (MaskDim \div BeatWords + 1))

\* A page of the storage medium holds the plaintext and whatever follows it.
PaddedPlain == [k \in 1 .. RoundUp(Count) |-> IF k <= Count THEN task.plain[k] ELSE task.junk]

\* A case: the plaintext, the key, the random stream, the layout, whether the
\* controller forces TKEEP to all ones (it does today), where the pages of the host
\* buffer lie, whether the decryption program is given the raw native image instead
\* of the dump, and which request has an input range that ends early.
Init ==
    /\ task \in Cases
    /\ stage = "encrypt"
    /\ op = EncryptStart
    /\ lwes = << >> /\ clears = << >>
    /\ input = PaddedPlain
    /\ output = [k \in 1 .. output_buffer_bytes(physical_output_bytes) |-> 0]
    /\ txVos = <<[len |-> Len(PaddedPlain) - (IF task.short = "encrypt" THEN PageWords ELSE 0),
                  used |-> 0]>>
    /\ rxVos = <<[len |-> output_buffer_bytes(physical_output_bytes), used |-> 0]>>
    /\ txFly = tx_channel_send(txVos) /\ rxFly = rx_channel_recv(rxVos)
    /\ toOp = << >> /\ fromOp = << >> /\ result = 0 /\ calls = 0

\* What the controller puts on the receive stream for a beat.
OnWire(beat) ==
    IF beat.finish THEN [k \in 1 .. RxFinish |-> FinishWord]
    ELSE IF task.whole
    THEN [k \in 1 .. BeatWords |-> IF k <= Len(beat.words) THEN beat.words[k] ELSE 0]
    ELSE beat.words

\* The operator reads one beat.  When an invocation returns the next one starts.
OperatorStep ==
    /\ stage \in {"encrypt", "decrypt"}
    /\ toOp # << >>
    /\ toOp' = Tail(toOp)
    /\ \E r \in {IF stage = "encrypt" THEN EncryptStep(EncryptConfig, op, Head(toOp))
                 ELSE DecryptStep(DecryptConfig, op, Head(toOp))} :
          /\ fromOp' = fromOp \o FlattenSeq([k \in 1 .. Len(r.out) |-> OnWire(r.out[k])])
          /\ op' = IF r.over THEN (IF stage = "encrypt" THEN EncryptStart ELSE DecryptStart)
                   ELSE r.s
    /\ UNCHANGED <<input, output, txVos, rxVos, txFly, rxFly, result, calls,
                   task, stage, lwes, clears>>

\* The pages of the output memory, and the host buffer after it was read in chunks.
SlmPages == [p \in 1 .. Pages(Len(output)) |->
                SubSeq(output, (p - 1) * PageWords + 1, p * PageWords)]
HostBuffer(chunk) == FlattenSeq(ReadInChunks(SlmPages, chunk, Places[task.place]))

\* The extraction of the encryption programs: the native layout, or the CPU layout
\* with padded ciphertexts, or else with compact ones.
Extracted(raw) ==
    LET e(layout, stride) ==
            Extract(Key, layout, stride, 2 ^ NoiseLog2 - 1, raw, Count)
        padded == e("cpu", BeatWords * (MaskDim \div BeatWords + 1))
    IN  IF task.layout = "native" THEN e("native", 0)
        ELSE IF padded.ok THEN padded ELSE e("cpu", MaskDim + 1)

\* The execute command of the encryption returned: check the result, read the
\* output, verify it, and hand the ciphertexts to the decryption program, which
\* repacks a dump (parse_lwehls01) or takes the image as it is (parse_hpu_native).
EncryptReturns ==
    LET raw == HostBuffer(ChunkPages)
        e == Extracted(raw)
        native == IF task.raw THEN SubSeq(raw, 1, Count * RadixBlocks * 2 * SlotWords)
                  ELSE Repack(e.lwes)
        cut == IF task.short = "decrypt" THEN 2 * SlotWords * RadixBlocks ELSE 0
    IN  /\ stage = "encrypt" /\ calls > 0
        /\ UNCHANGED <<task, clears, toOp, fromOp>>
        /\ IF result >= physical_output_bytes /\ e.ok
           THEN /\ stage' = "decrypt"
                /\ op' = DecryptStart
                /\ lwes' = e.lwes
                /\ StartStream(native, Len(native) - cut, output_buffer_bytes(Count))
           ELSE /\ stage' = "refused"
                /\ UNCHANGED <<input, output, txVos, rxVos, txFly, rxFly, result, calls,
                               op, lwes>>

\* The execute command of the decryption returned: check the result, read the
\* output (in pages of their own), compare with the clear values of the dump; a
\* raw image has none.
DecryptReturns ==
    LET got == SubSeq(HostBuffer(1), 1, Count) IN
    /\ stage = "decrypt" /\ calls > 0
    /\ IF /\ result >= Count /\ result <= Len(output)
          /\ task.raw \/ got = Clears(Key, lwes)
       THEN stage' = "passed" /\ clears' = got
       ELSE stage' = "refused" /\ UNCHANGED clears
    /\ UNCHANGED <<streamVars, task, op, lwes>>

Moving == (EngineSends \/ EngineReceives \/ TxPoll \/ RxPoll)
          /\ UNCHANGED <<task, stage, op, lwes, clears>>

Next == Moving \/ OperatorStep \/ EncryptReturns \/ DecryptReturns

Spec == Init /\ [][Next]_vars

\* Somebody has a step to take: an engine, the operator, the poller or the host.
Busy ==
    /\ stage \in {"encrypt", "decrypt"}
    /\ CanSend \/ CanReceive \/ toOp # << >> \/ txFly.done \/ rxFly.done \/ calls > 0

\* The engines, the operator and the poller run on their own and the host waits for
\* its command: as long as somebody has a step to take, steps are taken.  (This is
\* WF_vars(Next), with what enables Next spelled out.)
FairSpec == Spec /\ ([]<>~Busy \/ []<><<TRUE>>_vars)

-----------------------------------------------------------------------------
\* What the encryption of the plaintext is, by definition: one native or CPU image
\* per value, in order.
CipherWords ==
    FlattenSeq([c \in 1 .. Count |->
        EncryptU8(Key, Rng, task.layout, task.plain[c], c - 1)])

\* mcdma.c:786: whatever batches the data was cut into, a request that is over has
\* counted the payload and nothing else, and the payload lies in the output memory
\* from its beginning, with the finish beat behind it.
ResultExact ==
    calls > 0 /\ task.short = "no" =>
        /\ result = (IF stage = "encrypt" THEN physical_output_bytes
                     ELSE IF task.whole THEN BeatWords * Len(Beats(task.plain)) ELSE Count)
        /\ IF stage = "encrypt" THEN SubSeq(output, 1, result) = CipherWords
           ELSE SubSeq(output, 1, Count) = task.plain
        /\ \A k \in result + 1 .. result + RxFinish : output[k] = FinishWord

\* lwe_encrypt.cpp:430, lwe_decrypt.cpp:172: a request that is over has left no beat
\* on either stream and its operator at the beginning of an invocation, so that the
\* next request's beats are not taken for its own.
NothingLeftOver ==
    calls > 0 => /\ toOp = << >> /\ fromOp = << >>
                 /\ op \in {EncryptStart, DecryptStart}
                 /\ txFly = NoBatch /\ txVos = << >>

\* vscode-lwe-encrypt-offload.cpp:769, vscode-lwe-decrypt-offload.cpp:306: what the
\* host extracts from either layout are the ciphertexts the operator made, in natural
\* order; they decrypt to the plaintext on the host; and repacking them gives the
\* image that the operator would have written in the native layout.
HostAgrees ==
    stage \in {"passed", "refused"} /\ lwes # << >> =>
        /\ Clears(Key, lwes) = task.plain
        /\ \A j \in 1 .. Len(lwes) : \A i \in 1 .. MaskDim :
              lwes[j][i] = Rng[j - 1].mask[i - 1]
        /\ Repack(lwes) = FlattenSeq([c \in 1 .. Count |->
              EncryptU8(Key, Rng, "native", task.plain[c], c - 1)])

\* The whole way round: a plaintext that was encrypted, read back, dumped, repacked
\* and decrypted by the device is the plaintext, and nothing is refused on the way
\* but an input that ends before the count in its context (lwe_encrypt.cpp:435,
\* lwe_decrypt.cpp:176), which always is, even by a program that has no clear values
\* to compare with.
RoundTrip ==
    /\ stage = "passed" => clears = task.plain /\ task.short = "no"
    /\ stage = "refused" => task.short # "no"

\* mcdma.c:921, vscode-lwe-encrypt-offload.cpp:469: the finish beat always lands in
\* the last descriptor of the last batch, so the request is completed and every task
\* with its whole input comes to its end.
TaskCompletes == <>(stage \in {"passed", "refused"} \/ task.short # "no")

=============================================================================
