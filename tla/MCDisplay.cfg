SPECIFICATION FairSpec
CONSTANTS
  ntsc = ntsc
  edge = edge
  pal = pal
  glyph = glyph
  blank = blank
  Cells <- MCCells
  NtscCells <- MCNtscCells
  NtscSent <- MCNtscSent
  Glyphs <- MCGlyphs
  Blank = blank
  IntroPicture <- MCIntro
INVARIANTS
  ChipCovered
  NothingUnreachable
PROPERTIES
  Implements
  Converges

