-------------------------- MODULE DisplayPipeline ---------------------------
(***************************************************************************)
(* The OSD firmware's display path: loop() of MW_OSD.ino, buildDisplay /   *)
(* buildIntro, the screen buffer with its two update masks, and the        *)
(* transfer of the changed cells to the MAX7456 (Max7456.ino).             *)
(*                                                                         *)
(* One pass of loop() is the cycle of `pc`: serial input, build, redraw on *)
(* timeout, redraw on vertical sync, chip supervision.  The INT0 interrupt *)
(* (VSync), the clock and the camera are concurrent with every step.       *)
(***************************************************************************)
EXTENDS Integers

CONSTANTS Cells,         \* positions 0..479 of screen[]
          NtscCells,     \* positions below 390, the 13 rows of an NTSC picture
          NtscSent,      \* positions whose mask byte starts below 390 (0..391)
          Glyphs,        \* symbols the display functions write
          Blank,         \* ' '
          IntroPicture   \* what buildIntro writes

(* Partial pictures: the cells a build writes, with their symbols. *)
Pictures == UNION {[D -> Glyphs] : D \in SUBSET Cells}

ASSUME DisplayAssumption ==
  /\ NtscCells \subseteq NtscSent
  /\ NtscSent \subseteq Cells
  /\ Blank \notin Glyphs
  /\ IntroPicture \in Pictures

VARIABLES pc,            \* step of loop()
          scene,         \* what the display functions would draw now
          intro,         \* allSec < INTRO_DELAY
          screen,        \* screen[]
          mask,          \* screen_update_mask, as the set of its cells
          prev,          \* screen_update_mask_prev
          displayReady,
          vsyncFlag,
          late,          \* millis() > vsync_timer + VSYNC_TIMEOUT
          camera,        \* video standard at the chip's input: 0 none, 1 PAL, 2 NTSC
          detected,      \* detectedCamType
          chip           \* display memory of the MAX7456

vars == <<pc, scene, intro, screen, mask, prev, displayReady, vsyncFlag, late,
          camera, detected, chip>>
frame == <<screen, mask, prev, chip>>
video == <<camera, detected>>

Steps == {"serial", "build", "timeout", "vsync", "status"}
Cameras == 0..2
Symbols == Glyphs \cup {Blank}
AllBlank == [c \in Cells |-> Blank]

(* MAX_screen_size follows the detected standard; DrawScreen walks whole mask bytes. *)
Sized(type) == IF type = 1 THEN Cells ELSE NtscCells
Sent(type) == IF type = 1 THEN Cells ELSE NtscSent

-----------------------------------------------------------------------------
(* setup(): the chip is reset and detects the camera, then MAX7456_ClearScreen. *)
Boot == /\ pc' = "serial" /\ intro' = TRUE
        /\ scene' \in Pictures
        /\ screen' = AllBlank /\ mask' = {} /\ prev' = Cells
        /\ displayReady' = FALSE /\ vsyncFlag' = FALSE /\ late' = TRUE
        /\ UNCHANGED camera /\ detected' = camera
        /\ chip' = AllBlank

Init == /\ pc = "serial" /\ intro = TRUE
        /\ scene \in Pictures
        /\ screen = AllBlank /\ mask = {} /\ prev = Cells
        /\ displayReady = FALSE /\ vsyncFlag = FALSE /\ late = TRUE
        /\ camera \in Cameras /\ detected = camera
        /\ chip = AllBlank

(* processSerial: a message changes what is to be drawn (rectangles, modes, telemetry). *)
Message == /\ pc = "serial"
           /\ scene' \in Pictures
           /\ UNCHANGED <<pc, intro, frame, displayReady, vsyncFlag, late, video>>

(* 'P': setScreenPosition moves a field and asks for a new build. *)
SetPosition == /\ pc = "serial"
               /\ scene' \in Pictures
               /\ displayReady' = FALSE
               /\ UNCHANGED <<pc, intro, frame, vsyncFlag, late, video>>

(* 'CS': the telemetry is zeroed and MAX7456_ClearScreen wipes the screen buffer, but not
   the update mask, and marks every cell as shown before. *)
Wiped == [c \in Cells |-> IF c \in Sized(detected) THEN Blank ELSE screen[c]]
ClearScreen_ZeroFill == /\ pc = "serial"
                        /\ scene' \in Pictures
                        /\ screen' = Wiped
                        /\ prev' = {}
                        /\ UNCHANGED <<pc, intro, mask, displayReady, vsyncFlag, late, video, chip>>
ClearScreen == /\ pc = "serial"
               /\ scene' \in Pictures
               /\ screen' = Wiped
               /\ prev' = Cells
               /\ UNCHANGED <<pc, intro, mask, displayReady, vsyncFlag, late, video, chip>>

(* 'R': resetFunc restarts the firmware after the input is processed. *)
Reset == pc = "serial" /\ Boot

SerialDone == /\ pc = "serial" /\ pc' = "build"
              /\ UNCHANGED <<scene, intro, frame, displayReady, vsyncFlag, late, video>>

-----------------------------------------------------------------------------
(* buildDisplay, or buildIntro in the first seconds: nothing while a frame waits for its
   redraw, else MAX7456_SetScreenSymbol for every symbol of the picture. *)
Wanted == IF intro THEN IntroPicture ELSE scene
Written(buffer, pic) == [c \in Cells |-> IF c \in DOMAIN pic THEN pic[c] ELSE buffer[c]]
Build == /\ pc = "build" /\ pc' = "timeout"
         /\ displayReady' = TRUE
         /\ IF displayReady
            THEN UNCHANGED <<screen, mask>>
            ELSE /\ screen' = Written(screen, Wanted)
                 /\ mask' = mask \cup DOMAIN Wanted
         /\ UNCHANGED <<scene, intro, prev, vsyncFlag, late, video, chip>>

(* MAX7456_DrawScreen: of the cells written in this frame or in the previous one, the
   written ones are sent and the others are blanked. *)
Redrawn_NoBlanking == [c \in Cells |-> IF c \in Sent(detected) \cap mask THEN screen[c] ELSE chip[c]]
Redrawn == [c \in Cells |-> IF c \in Sent(detected) \cap (mask \cup prev)
                            THEN IF c \in mask THEN screen[c] ELSE Blank
                            ELSE chip[c]]
DrawScreen == IF displayReady
              THEN /\ chip' = Redrawn
                   /\ prev' = mask /\ mask' = {}
                   /\ late' = FALSE
                   /\ displayReady' = FALSE
              ELSE UNCHANGED <<chip, prev, mask, late, displayReady>>

(* loop(): if (!vsyncFlag && millis() > vsync_timer + VSYNC_TIMEOUT) DrawScreen. *)
TimeoutDraw_Never == /\ pc = "timeout" /\ pc' = "vsync"
                     /\ UNCHANGED <<scene, intro, frame, displayReady, vsyncFlag, late, video>>
TimeoutDraw == /\ pc = "timeout" /\ pc' = "vsync"
               /\ IF ~vsyncFlag /\ late
                  THEN DrawScreen
                  ELSE UNCHANGED <<chip, prev, mask, late, displayReady>>
               /\ UNCHANGED <<scene, intro, screen, vsyncFlag, video>>

(* loop(): if (vsyncFlag) { vsyncFlag = false; DrawScreen }. *)
VsyncDraw == /\ pc = "vsync" /\ pc' = "status"
             /\ vsyncFlag' = FALSE
             /\ IF vsyncFlag
                THEN DrawScreen
                ELSE UNCHANGED <<chip, prev, mask, late, displayReady>>
             /\ UNCHANGED <<scene, intro, screen, video>>

-----------------------------------------------------------------------------
(* loop() calls MAX7456CheckStatus only when it is five seconds behind its one-second timer,
   which depends on how long the earlier steps took.  Not behind, or the camera is the same
   and the display enabled: displayReady, lowered during the check, is put back. *)
StatusGood == /\ pc = "status" /\ pc' = "serial"
              /\ UNCHANGED <<scene, intro, frame, displayReady, vsyncFlag, late, video>>

(* MAX7456Setup: a hardware reset empties the display memory and detects the camera. *)
Setup_KeepsMemory == /\ UNCHANGED chip /\ detected' = camera
                     /\ UNCHANGED <<scene, intro, screen, mask, prev, vsyncFlag, late, camera>>
Setup == /\ chip' = AllBlank /\ detected' = camera
         /\ UNCHANGED <<scene, intro, screen, mask, prev, vsyncFlag, late, camera>>

(* The camera has changed: setup, and the frame that waited is not ready any more. *)
StatusCameraChanged == /\ pc = "status" /\ camera # detected /\ pc' = "serial"
                       /\ displayReady' = FALSE
                       /\ Setup

(* The chip has lost its configuration (display disabled): setup, the frame stays ready. *)
StatusDisabled == /\ pc = "status" /\ camera = detected /\ pc' = "serial"
                  /\ UNCHANGED displayReady
                  /\ Setup

-----------------------------------------------------------------------------
(* ISR(INT0_vect). *)
VSync == /\ vsyncFlag' = TRUE
         /\ UNCHANGED <<pc, scene, intro, frame, displayReady, late, video>>

(* VSYNC_TIMEOUT passes since the last redraw. *)
Tick == /\ ~late /\ late' = TRUE
        /\ UNCHANGED <<pc, scene, intro, frame, displayReady, vsyncFlag, video>>

(* The one-second timer, after the redraws of a pass, reaches INTRO_DELAY. *)
IntroOver == /\ pc = "status" /\ intro /\ intro' = FALSE
             /\ UNCHANGED <<pc, scene, frame, displayReady, vsyncFlag, late, video>>

CameraChange == /\ camera' \in Cameras \ {camera}
                /\ UNCHANGED <<pc, scene, intro, frame, displayReady, vsyncFlag, late, detected>>

(* The steps every pass of loop() takes whatever happens around it. *)
Pass == SerialDone \/ Build \/ TimeoutDraw \/ VsyncDraw \/ StatusGood
Disturbance == \/ Message \/ SetPosition \/ ClearScreen \/ Reset \/ StatusCameraChanged
               \/ StatusDisabled \/ IntroOver \/ CameraChange

Next == Pass \/ Disturbance \/ VSync \/ Tick

Spec == Init /\ [][Next]_vars

(* loop() never stops and no step of it blocks; time passes.  Vertical sync is not
   assumed: it stops with the camera. *)
Fairness == WF_vars(Pass) /\ WF_vars(Tick)
FairSpec == Spec /\ Fairness

-----------------------------------------------------------------------------
TypeOK == /\ pc \in Steps
          /\ scene \in Pictures
          /\ screen \in [Cells -> Symbols] /\ chip \in [Cells -> Symbols]
          /\ mask \in SUBSET Cells /\ prev \in SUBSET Cells
          /\ displayReady \in BOOLEAN /\ vsyncFlag \in BOOLEAN
          /\ late \in BOOLEAN /\ intro \in BOOLEAN
          /\ camera \in Cameras /\ detected \in Cameras

(* A symbol on the chip is always known to the next redraw: it is in the mask of the
   previous frame, so that DrawScreen overwrites or blanks it (Max7456.ino:277-298).
   Clearing, chip resets and standard changes between two redraws must not lose it. *)
ChipCovered == \A c \in Cells : chip[c] # Blank => c \in prev

(* Nothing stays on lines the detected standard does not refresh, where no redraw could
   blank it again (Max7456.ino:274). *)
NothingUnreachable == \A c \in Cells \ Sent(detected) : chip[c] = Blank

(* Incremental redraws implement whole-picture redraws: nothing of an older frame is left
   after MAX7456_DrawScreen. *)
Frame == INSTANCE OsdFrame WITH
           shown <- chip,
           pending <- [c \in Cells |-> IF c \in mask THEN screen[c] ELSE Blank],
           Areas <- {Cells, NtscSent}
Implements == Frame!Spec

(* Once messages, resets and the camera come to rest, the viewer comes to see the picture
   the display functions draw, on the lines the detected standard has, and keeps seeing
   it: a build is never lost, even if vertical sync never comes (MW_OSD.ino:363-370). *)
Goal == [c \in Cells |-> IF c \in DOMAIN Wanted \cap Sent(detected) THEN Wanted[c] ELSE Blank]
Converges == <>[][~Disturbance]_vars => <>[](chip = Goal)
=============================================================================
