SPECIFICATION MemSpec
CONSTANTS
  MinOrder = 6
  MaxOrder = 9
  Header = 32
  Sizes = {1, 40, 130}
  Aligns = {8, 64}
  BlockBytes = 24
  BlockTokens = 4
  Width = 1024
  Tokens = {1, 2, 4, 1023}
  Hashes = {0, 1, 2}
INVARIANTS
  Tiling RefusedOnlyWithoutRoom DoubleFreeRecognised StorageSound HitOnlyIfRecorded
