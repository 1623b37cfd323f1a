SPECIFICATION KvSpec
CONSTANTS
  MinOrder = 6
  MaxOrder = 10
  Header = 32
  Sizes = {}
  Aligns = {}
  BlockBytes = 96
  BlockTokens = 128
  Width = 1024
  Tokens = {1}
  Hashes = {1, 2}
INVARIANT CapacityReachable
