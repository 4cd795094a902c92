\* Every option and build-directory combination of one "west sign" run.
CONSTANTS
  None = None
  HeaderSize = 512
  Aligns <- MCAligns
  SlotSizes <- MCSlotSizes
SPECIFICATION Spec
INVARIANT TypeOK
INVARIANT UnforcedCallsWellFormed
