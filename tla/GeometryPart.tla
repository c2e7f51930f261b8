------------------------------ MODULE GeometryPart -----------------------------
(* The part of the rectangles on the screen: an object in a camera picture. *)
EXTENDS Part, RectGeometry

CONSTANT Picture   \* the size of the camera's picture
VARIABLE object

Geometry == INSTANCE PictureGeometry WITH f <- object

(* The rectangle shown for an object frames it, and is drawn as its border
   (GpuUtils.cpp:104-137, SerialMAVLINK.ino:303-310, CUSTOM.ino:26-106). *)
ObjectFramed == part = "geometry" => Geometry!ObjectFramed
================================================================================
