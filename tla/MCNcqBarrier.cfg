CONSTANTS
  NPIU = 2
  Cap = 2
  BarDis = FALSE
SPECIFICATION FairSpec
INVARIANT CountsInv BarrierCovers
PROPERTY BarrierFinishes
