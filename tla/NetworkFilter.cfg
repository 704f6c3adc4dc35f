SPECIFICATION Spec
CONSTANTS
  Width = 3
  Width6 = 2
  WordBits = 2
  BloomWords = 2
  MaxNets = 2
  Hash1 <- MCHash1
  Hash2 <- MCHash2
  AllowedNets <- MCAllowedNets
INVARIANTS TypeOK FilterExact ModesAgree
CHECK_DEADLOCK FALSE
