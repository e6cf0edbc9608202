CONSTANTS
  HashNumBlocks = 2
  BtNumBlocks = 2
  MaxBlock = 3
  MaxHash = 2
  MaxEpoch = 2
SPECIFICATION MtFairSpec
INVARIANTS MtTypeOK MtInv InOrder WindowStill NoReleaseLost AtRest
PROPERTY CallsReturn
