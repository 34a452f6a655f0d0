CONSTANTS
  Cap = 32
  Width = 64
  Bodies = {1, 2}
  Sizes = {5, 12, 13}
SPECIFICATION RingFairSpec
INVARIANT RingTypeOK
PROPERTY RefinesQueue KeptRecordGoesThrough
