\* west sign under --force on a build whose .config lacks CONFIG_TEXT_SECTION_OFFSET.
CONSTANTS
  None = None
  HeaderSize = 512
  Aligns <- MCAligns
  SlotSizes <- MCSlotSizes
SPECIFICATION Spec
INVARIANT RaisedOnlyByImgtool
