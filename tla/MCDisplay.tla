------------------------------ MODULE MCDisplay -----------------------------
(* One cell of each kind: on an NTSC line, sent with the last NTSC byte but  *)
(* not on an NTSC line, on a PAL line only.                                  *)
EXTENDS DisplayPipeline

CONSTANTS ntsc, edge, pal, glyph, blank

MCCells == {ntsc, edge, pal}
MCNtscCells == {ntsc}
MCNtscSent == {ntsc, edge}
MCGlyphs == {glyph}
MCIntro == [c \in {edge} |-> glyph]
=============================================================================
