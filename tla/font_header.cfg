\* gen_cfb_font_header.py on fonts and images, every -t, -x, -y, --center-x and --y-offset.
CONSTANTS
  First = 65
  Last = 66
  Widths = {2, 3}
  Heights = {8, 16}
  YOffsets <- MCYOffsets
  Glyphs <- MCGlyphs
  Images <- MCImages
SPECIFICATION Spec
INVARIANT TypeOK
INVARIANT TableDecodes
INVARIANT InkKept
