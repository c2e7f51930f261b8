----------------------------- MODULE PictureGeometry --------------------------
(* An object of every size, in every place of a camera picture, shown on the cells of the *)
(* screen; the pixels left over belong to the last column and the last line.              *)
EXTENDS RectGeometry

CONSTANT Picture   \* the size of the camera's picture

(* A cell has a pixel or more, and the number of a pixel's cell fits a byte. *)
PictureAssumption ==
  /\ Picture \in [width : Nat, height : Nat]
  /\ Picture.width >= COLS /\ Picture.height >= ROWS /\ COLS <= 127 /\ ROWS <= 127

VARIABLE f   \* the object in pixels

Init == f \in {[left |-> 0, top |-> 0, width |-> w, height |-> h] :
                  w \in 0..Picture.width, h \in 0..Picture.height}
MoveRight == f.left + Most(f.width, 1) < Picture.width /\ f' = [f EXCEPT !.left = @ + 1]
MoveDown == f.top + Most(f.height, 1) < Picture.height /\ f' = [f EXCEPT !.top = @ + 1]
Next == MoveRight \/ MoveDown
Spec == Init /\ [][Next]_f

Box == Clamp(Normalize(f, Picture))

(* Along one axis, with the last cell extended to the end of the picture: the cells an
   object touches, and those it covers by more than a half. *)
CellEnd(i, cell, cells, size) == IF i = cells - 1 THEN size ELSE (i + 1) * cell
Touched(from, width, cell, cells, size) ==
  {i \in 0..(cells - 1) : from < CellEnd(i, cell, cells, size) /\ i * cell < from + Most(width, 1)}
Covered(from, width, cell, cells) ==
  {i \in 0..(cells - 1) :
     2 * (Least(from + width, (i + 1) * cell) - Most(from, i * cell)) > cell}

(* The rectangle shown for an object holds every cell the object covers by more than a half,
   and no cell the object does not touch (normalize_rect_px_center with the OSD's clamping). *)
CellsFramed ==
  LET columns == Box.x..(Box.x + Box.w - 1)
      lines == Box.y..(Box.y + Box.h - 1)
  IN /\ Covered(f.left, f.width, Picture.width \div COLS, COLS) \subseteq columns
     /\ columns \subseteq Touched(f.left, f.width, Picture.width \div COLS, COLS, Picture.width)
     /\ Covered(f.top, f.height, Picture.height \div ROWS, ROWS) \subseteq lines
     /\ lines \subseteq Touched(f.top, f.height, Picture.height \div ROWS, ROWS, Picture.height)

(* What displayCustom draws for it is the border of that rectangle, cell for cell, with no
   cell of another line. *)
OutlineIsBorder ==
  LET columns == Box.x..(Box.x + Box.w - 1)
      lines == Box.y..(Box.y + Box.h - 1)
      Border(column, line) == \/ column \in {Box.x, Box.x + Box.w - 1}
                              \/ line \in {Box.y, Box.y + Box.h - 1}
  IN /\ \A p \in Outline(Box) : \E column \in columns, line \in lines :
                                 Border(column, line) /\ p = line * COLS + column
     /\ \A column \in columns, line \in lines :
          Border(column, line) => line * COLS + column \in Outline(Box)

(* The rectangle shown for an object frames it. *)
ObjectFramed == CellsFramed /\ OutlineIsBorder
=============================================================================
