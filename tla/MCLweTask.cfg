CONSTANTS
  IndexBits = 3
  LaneBits = 1
  BeatWords = 2
  SlotWords = 8
  Width = 7
  RadixBlocks = 2
  NoiseLog2 = 1
  PageWords = 4
  TxBatch = 3
  RxBatch = 3
  TxFinish = 1
  RxFinish = 2
  MaxIovecs = 8
  ChunkPages = 5
  Cases <- MCCases
  Keys <- MCKeys
  Rngs <- MCRngs
  Places <- MCPlaces
SPECIFICATION FairSpec
INVARIANTS ResultExact NothingLeftOver HostAgrees RoundTrip
PROPERTIES TaskCompletes
CHECK_DEADLOCK FALSE
