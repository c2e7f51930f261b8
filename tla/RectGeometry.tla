---------------------------- MODULE RectGeometry ----------------------------
(* From the pixel rectangle of an object to cells of the character screen: the host's     *)
(* normalize_rect_px_center (GpuUtils.cpp), the clamping of a received rectangle          *)
(* (serialMAVCheck in SerialMAVLINK.ino) and the outline displayCustom draws (CUSTOM.ino).*)
EXTENDS Integers

CONSTANTS COLS, ROWS   \* the character screen, 30 x 16 in the code

ASSUME GridAssumption == /\ COLS \in 1..255 /\ ROWS \in 1..255

Least(a, b) == IF a < b THEN a ELSE b
Most(a, b) == IF a > b THEN a ELSE b

Byte == 0..255
ByteRects == [x : Byte, y : Byte, w : Byte, h : Byte]
Zero == [x |-> 0, y |-> 0, w |-> 0, h |-> 0]

(* C++ integer division and remainder of a possibly negative number by a positive one. *)
Quot(a, b) == IF a >= 0 THEN a \div b ELSE -((-a) \div b)
Rem(a, b) == a - b * Quot(a, b)

(* One axis of normalize_rect_px_center: first cell and number of cells of the pixels
   from..from+size-1, with `cell` pixels a cell.  The results are stored in uint8_t. *)
First(from, cell) == Quot(from, cell) % 256
Count_NoLast(from, size, cell) == (Quot(from + Most(size, 1), cell) - First(from, cell)) % 256
Count(from, size, cell) ==
  LET width == Most(size, 1)
      end == from + width
      last == IF Rem(end, cell) > 0 /\ 2 * width > cell THEN 1 ELSE 0
  IN (Quot(end, cell) - First(from, cell) + last) % 256

(* f is the object in pixels, cam the size of the camera's picture. *)
Normalize(f, cam) ==
  LET cellW == Most(cam.width, 1) \div COLS
      cellH == Most(cam.height, 1) \div ROWS
  IN [x |-> First(f.left, cellW), w |-> Count(f.left, f.width, cellW),
      y |-> First(f.top, cellH),  h |-> Count(f.top, f.height, cellH)]

(* The OSD keeps what it receives inside the screen ('T' and 'D' of NAMED_VALUE_INT). *)
ClampFrom(first, cells) == Least(first, cells - 1)
ClampCount_NoRoom(first, count, cells) == Least(Most(count, 1), cells)
ClampCount(first, count, cells) == Least(Least(Most(count, 1), cells), cells - ClampFrom(first, cells))
Clamp(r) == [x |-> ClampFrom(r.x, COLS), w |-> ClampCount(r.x, r.w, COLS),
             y |-> ClampFrom(r.y, ROWS), h |-> ClampCount(r.y, r.h, ROWS)]

(* displayCustom: the positions of screen[] that the outline of r occupies; a side of one
   cell is drawn once, and nothing is written past the last position. *)
Along(count) == 0..(Most(count, 1) - 1)
Edge(d, count) == d = 0 \/ d = Most(count, 1) - 1
Outline(r) == {p \in 0..(COLS * ROWS - 1) :
                 \E dx \in Along(r.w), dy \in Along(r.h) :
                   /\ Edge(dx, r.w) \/ Edge(dy, r.h)
                   /\ p = (r.y + dy) * COLS + r.x + dx}
=============================================================================
