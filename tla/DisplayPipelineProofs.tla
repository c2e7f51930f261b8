----------------------- MODULE DisplayPipelineProofs ------------------------
(* The display path of the OSD for every screen size, font and video standard split: the   *)
(* update masks never lose a symbol, and incremental redraws implement whole redraws.  And *)
(* the display functions that build these screens, for everything they may have to show:   *)
(* the fields are read as the numbers they stand for, and a text of any length is laid out  *)
(* and whole; and what the handlers read of a message is its own fields.                   *)
EXTENDS DisplayPipeline, FieldsPart, WirePart, TLAPS, SequenceTheorems, WellFoundedInduction

Inv == TypeOK /\ ChipCovered /\ NothingUnreachable

(* A picture only writes cells of the grid, with symbols of the font. *)
LEMMA PictureCells ==
  ASSUME NEW pic \in Pictures
  PROVE  /\ DOMAIN pic \subseteq Cells
         /\ \A c \in DOMAIN pic : pic[c] \in Glyphs
BY DEF Pictures

LEMMA SentCells ==
  ASSUME NEW type \in Cameras
  PROVE  Sent(type) \subseteq Cells /\ Sent(type) \in {Cells, NtscSent}
BY DisplayAssumption DEF Sent

(* The picture a build writes, intro or scene, is a picture. *)
LEMMA WantedPicture == TypeOK => Wanted \in Pictures
BY DisplayAssumption DEF TypeOK, Wanted

-----------------------------------------------------------------------------
(* Writing a picture into the screen buffer, or wiping the buffer, keeps it one symbol per
   cell. *)
LEMMA WrittenType ==
  ASSUME NEW buffer \in [Cells -> Symbols], NEW pic \in Pictures
  PROVE  Written(buffer, pic) \in [Cells -> Symbols]
<1>1. ASSUME NEW c \in Cells
      PROVE  (IF c \in DOMAIN pic THEN pic[c] ELSE buffer[c]) \in Symbols
  BY PictureCells DEF Symbols
<1> QED BY <1>1 DEF Written

LEMMA WipedType == TypeOK => Wiped \in [Cells -> Symbols]
BY DEF TypeOK, Wiped, Symbols

LEMMA AllBlankType == AllBlank \in [Cells -> Symbols]
BY DEF AllBlank, Symbols

LEMMA InitInv == Init => Inv
<1> SUFFICES ASSUME Init PROVE Inv
  OBVIOUS
<1>1. TypeOK
  BY AllBlankType DEF Init, TypeOK, Steps
<1>2. ChipCovered /\ NothingUnreachable
  <2>1. \A c \in Cells : chip[c] = Blank
    BY DEF Init, AllBlank
  <2> QED BY <2>1 DEF ChipCovered, NothingUnreachable
<1> QED BY <1>1, <1>2 DEF Inv

(* A redraw transfers what is pending on the sent lines: afterwards a symbol on the chip is
   in the new previous mask, and the other lines are as empty as before. *)
LEMMA DrawScreenInv ==
  ASSUME Inv, DrawScreen, UNCHANGED <<screen, detected>>
  PROVE  /\ chip' \in [Cells -> Symbols] /\ mask' \in SUBSET Cells /\ prev' \in SUBSET Cells
         /\ displayReady' \in BOOLEAN /\ late' \in BOOLEAN
         /\ ChipCovered' /\ NothingUnreachable'
<1>1. CASE ~displayReady
  BY <1>1 DEF Inv, TypeOK, DrawScreen, ChipCovered, NothingUnreachable
<1>2. CASE displayReady
  <2>1. /\ chip' = Redrawn /\ prev' = mask /\ mask' = {}
        /\ late' = FALSE /\ displayReady' = FALSE
    BY <1>2 DEF DrawScreen
  <2>2. chip' \in [Cells -> Symbols]
    BY <2>1 DEF Redrawn, Inv, TypeOK, Symbols
  <2>3. ASSUME NEW c \in Cells, c \notin mask
        PROVE  chip'[c] = Blank
    <3>1. CASE c \in Sent(detected) \cap prev
      BY <2>1, <2>3, <3>1 DEF Redrawn
    <3>2. CASE c \notin prev
      BY <2>1, <2>3, <3>2 DEF Redrawn, Inv, ChipCovered
    <3>3. CASE c \notin Sent(detected)
      BY <2>1, <2>3, <3>3 DEF Redrawn, Inv, NothingUnreachable
    <3> QED BY <3>1, <3>2, <3>3
  <2>4. ChipCovered'
    BY <2>1, <2>3 DEF ChipCovered
  <2>5. NothingUnreachable'
    <3>1. ASSUME NEW c \in Cells \ Sent(detected)
          PROVE  chip'[c] = Blank
      BY <2>1 DEF Redrawn, Inv, NothingUnreachable
    <3> QED BY <3>1 DEF NothingUnreachable, Sent
  <2> QED BY <2>1, <2>2, <2>4, <2>5 DEF Inv, TypeOK
<1> QED BY <1>1, <1>2 DEF Inv, TypeOK

(* A chip reset empties the display. *)
LEMMA SetupInv ==
  ASSUME Inv, Setup
  PROVE  /\ chip' \in [Cells -> Symbols] /\ detected' \in Cameras
         /\ ChipCovered' /\ NothingUnreachable'
<1>1. \A c \in Cells : chip'[c] = Blank
  BY DEF Setup, AllBlank
<1> QED BY <1>1, AllBlankType DEF Setup, Inv, TypeOK, ChipCovered, NothingUnreachable

LEMMA StepInv == Inv /\ [Next]_vars => Inv'
<1> SUFFICES ASSUME Inv, [Next]_vars PROVE Inv'
  OBVIOUS
<1> USE DEF Inv
<1>m. CASE Message \/ SetPosition
  BY <1>m DEF Message, SetPosition, TypeOK, ChipCovered, NothingUnreachable, frame, video, Sent
<1>c. CASE ClearScreen
  <2>1. TypeOK'
    BY <1>c, WipedType DEF ClearScreen, TypeOK, video
  <2> QED BY <1>c, <2>1 DEF ClearScreen, TypeOK, ChipCovered, NothingUnreachable, video, Sent
<1>r. CASE Reset
  <2>1. TypeOK'
    BY <1>r, AllBlankType DEF Reset, Boot, TypeOK, Steps
  <2>2. \A c \in Cells : chip'[c] = Blank
    BY <1>r DEF Reset, Boot, AllBlank
  <2> QED BY <2>1, <2>2 DEF ChipCovered, NothingUnreachable
<1>s. CASE SerialDone \/ StatusGood \/ VSync \/ Tick \/ IntroOver
  BY <1>s DEF SerialDone, StatusGood, VSync, Tick, IntroOver, TypeOK, Steps, ChipCovered,
              NothingUnreachable, frame, video, Sent
<1>a. CASE CameraChange
  BY <1>a DEF CameraChange, TypeOK, ChipCovered, NothingUnreachable, frame, Sent
<1>b. CASE Build
  <2>1. /\ screen' \in [Cells -> Symbols]
        /\ mask' \in SUBSET Cells
    BY <1>b, WantedPicture, WrittenType, PictureCells DEF Build, TypeOK
  <2>2. TypeOK'
    BY <1>b, <2>1 DEF Build, TypeOK, Steps, video
  <2> QED BY <1>b, <2>2 DEF Build, ChipCovered, NothingUnreachable, video, Sent
<1>t. CASE TimeoutDraw
  <2>1. CASE DrawScreen /\ UNCHANGED <<screen, detected>>
    BY <1>t, <2>1, DrawScreenInv DEF TimeoutDraw, TypeOK, Steps, video
  <2>2. CASE UNCHANGED <<chip, prev, mask, late, displayReady>>
    BY <1>t, <2>2 DEF TimeoutDraw, TypeOK, Steps, video, ChipCovered, NothingUnreachable, Sent
  <2> QED BY <1>t, <2>1, <2>2 DEF TimeoutDraw, video
<1>v. CASE VsyncDraw
  <2>1. CASE DrawScreen /\ UNCHANGED <<screen, detected>>
    BY <1>v, <2>1, DrawScreenInv DEF VsyncDraw, TypeOK, Steps, video
  <2>2. CASE UNCHANGED <<chip, prev, mask, late, displayReady>>
    BY <1>v, <2>2 DEF VsyncDraw, TypeOK, Steps, video, ChipCovered, NothingUnreachable, Sent
  <2> QED BY <1>v, <2>1, <2>2 DEF VsyncDraw, video
<1>u. CASE StatusCameraChanged \/ StatusDisabled
  <2>1. Setup /\ pc' = "serial" /\ displayReady' \in BOOLEAN
    BY <1>u DEF StatusCameraChanged, StatusDisabled, TypeOK
  <2>2. TypeOK'
    BY <2>1, SetupInv DEF Setup, TypeOK, Steps
  <2> QED BY <2>1, <2>2, SetupInv
<1>z. CASE UNCHANGED vars
  BY <1>z DEF vars, TypeOK, ChipCovered, NothingUnreachable, Sent
<1> QED BY <1>m, <1>c, <1>r, <1>s, <1>a, <1>b, <1>t, <1>v, <1>u, <1>z
        DEF Next, Pass, Disturbance

(* The display path is well typed (the pipeline's variables keep the shapes of the code's
   buffers), for every grid and font. *)
THEOREM TypeCorrect == Spec => []TypeOK
<1>1. Inv => TypeOK
  BY DEF Inv
<1> QED BY <1>1, InitInv, StepInv, PTL DEF Spec

(* Every symbol on the chip is in the mask the next redraw blanks from: whatever messages,
   clears, chip resets and standard changes happen between two redraws, none is orphaned. *)
THEOREM NoOrphans == Spec => []ChipCovered
<1>1. Inv => ChipCovered
  BY DEF Inv
<1> QED BY <1>1, InitInv, StepInv, PTL DEF Spec

(* No symbol stays on lines that the detected standard does not refresh. *)
THEOREM NoneUnreachable == Spec => []NothingUnreachable
<1>1. Inv => NothingUnreachable
  BY DEF Inv
<1> QED BY <1>1, InitInv, StepInv, PTL DEF Spec

-----------------------------------------------------------------------------
(* The frame under composition, as OsdFrame sees it. *)
Pending == [c \in Cells |-> IF c \in mask THEN screen[c] ELSE Blank]

LEMMA PendingPicture == TypeOK => Pending \in Frame!Picture
BY DEF TypeOK, Pending, Frame!Picture, Symbols

LEMMA FrameInit == Init => Frame!Init
BY DEF Init, Frame!Init, Frame!NoPicture, AllBlank

(* A redraw shows the whole pending frame and starts an empty one. *)
LEMMA RedrawShows ==
  ASSUME Inv, displayReady, DrawScreen, UNCHANGED screen
  PROVE  Frame!Show(Sent(detected))
<1>1. chip' = Redrawn /\ prev' = mask /\ mask' = {}
  BY DEF DrawScreen
<1>2. [c \in Cells |-> IF c \in mask' THEN screen'[c] ELSE Blank] = Frame!NoPicture
  BY <1>1 DEF Frame!NoPicture
<1>3. chip' = [c \in Cells |-> IF c \in Sent(detected) THEN Pending[c] ELSE Blank]
  <2>1. ASSUME NEW c \in Cells
        PROVE  Redrawn[c] = IF c \in Sent(detected) THEN Pending[c] ELSE Blank
    <3>1. CASE c \notin Sent(detected)
      BY <3>1 DEF Redrawn, Inv, NothingUnreachable
    <3>2. CASE c \in Sent(detected) \cap (mask \cup prev)
      BY <3>2 DEF Redrawn, Pending
    <3>3. CASE c \in Sent(detected) /\ c \notin mask /\ c \notin prev
      BY <3>3 DEF Redrawn, Pending, Inv, ChipCovered
    <3> QED BY <3>1, <3>2, <3>3
  <2>2. Redrawn = [c \in Cells |-> Redrawn[c]]
    BY DEF Redrawn
  <2> QED BY <1>1, <2>1, <2>2
<1> QED BY <1>2, <1>3 DEF Frame!Show, Pending

(* A chip reset restarts the abstract frame and leaves what is pending. *)
LEMMA SetupRestarts == Inv /\ Setup => Frame!Restart
BY DEF Setup, Frame!Restart, Frame!NoPicture, AllBlank

LEMMA FrameStep == Inv /\ Inv' /\ [Next]_vars => [Frame!Next]_(Frame!vars)
<1> SUFFICES ASSUME Inv, Inv', [Next]_vars PROVE [Frame!Next]_(Frame!vars)
  OBVIOUS
<1>p. Pending' \in Frame!Picture
  BY PendingPicture DEF Inv, TypeOK, Pending, Frame!Picture, Symbols
<1>c. CASE ClearScreen \/ Build
  <2>1. UNCHANGED chip
    BY <1>c DEF ClearScreen, Build
  <2>2. Frame!Compose
    BY <1>p, <2>1 DEF Frame!Compose, Pending
  <2> QED BY <2>2 DEF Frame!Next
<1>r. CASE Reset
  <2>1. mask' = {} /\ chip' = AllBlank
    BY <1>r DEF Reset, Boot
  <2>2. Frame!Restart
    BY <2>1 DEF Frame!Restart, Frame!NoPicture, AllBlank
  <2> QED BY <2>2 DEF Frame!Next
<1>d. CASE TimeoutDraw \/ VsyncDraw
  <2>1. UNCHANGED <<screen, detected>>
    BY <1>d DEF TimeoutDraw, VsyncDraw, video
  <2>2. CASE DrawScreen /\ displayReady
    <3>1. Frame!Show(Sent(detected))
      BY <2>1, <2>2, RedrawShows
    <3>2. Frame!Show(Cells) \/ Frame!Show(NtscSent)
      BY <3>1 DEF Sent, Frame!Show
    <3> QED BY <3>2 DEF Frame!Next
  <2>3. CASE UNCHANGED <<chip, mask>>
    BY <2>1, <2>3 DEF Frame!vars
  <2> QED BY <1>d, <2>1, <2>2, <2>3 DEF TimeoutDraw, VsyncDraw, DrawScreen
<1>u. CASE StatusCameraChanged \/ StatusDisabled
  BY <1>u, SetupRestarts DEF StatusCameraChanged, StatusDisabled, Frame!Next
<1>s. CASE UNCHANGED <<chip, mask, screen>>
  BY <1>s DEF Frame!vars
<1> QED BY <1>c, <1>r, <1>d, <1>u, <1>s
        DEF Next, Pass, Disturbance, Message, SetPosition, SerialDone, StatusGood, VSync,
            Tick, IntroOver, CameraChange, frame, vars

(* Transferring only the changed cells implements redrawing the whole picture: whatever
   happens between two redraws, after each of them the viewer sees the composed frame and
   nothing of an older one. *)
THEOREM ImplementsFrame == Spec => Implements
<1>1. Init => Frame!Init
  BY FrameInit
<1>2. Inv /\ Inv' /\ [Next]_vars => [Frame!Next]_(Frame!vars)
  BY FrameStep
<1> QED BY <1>1, <1>2, InitInv, StepInv, PTL DEF Spec, Implements, Frame!Spec

-----------------------------------------------------------------------------
(* The naturals are well-ordered, which stands for induction over them. *)
LEMMA LeastOf ==
  ASSUME NEW S \in SUBSET Nat, S # {}
  PROVE \E m \in S : \A n \in S : m <= n
<1>1. IsWellFoundedOn(OpToRel(<, Nat), Nat)  BY Zenon, NatLessThanWellFounded
<1>2. PICK R : IsWellFoundedOn(R, Nat) /\ R = OpToRel(<, Nat)  BY Zenon, <1>1
<1>3. \A x, y \in Nat : y < x => <<y, x>> \in R  BY <1>2 DEF OpToRel
<1>4. \E x \in S : \A y \in S : ~ (<<y, x>> \in R)  BY Zenon, <1>2, WFMin
<1>5. PICK x \in S : \A y \in S : ~ (<<y, x>> \in R)  BY <1>4
<1>6. \A y \in S : x \in Nat /\ y \in Nat  OBVIOUS
<1>7. \A y \in S : ~(y < x)  BY Zenon, <1>3, <1>5, <1>6
<1>8. \A y \in S : x <= y  BY <1>6, <1>7
<1> QED  BY <1>8

(* Induction, on a set of naturals. *)
LEMMA Induction ==
  ASSUME NEW S, 0 \in S, \A n \in Nat : n \in S => n + 1 \in S
  PROVE Nat \subseteq S
<1> SUFFICES ASSUME Nat \ S # {} PROVE FALSE  OBVIOUS
<1>1. PICK m \in Nat \ S : \A n \in Nat \ S : m <= n  BY LeastOf
<1>2. m \in Nat /\ m # 0  BY <1>1
<1>3. m - 1 \in Nat /\ m = (m - 1) + 1 /\ ~(m <= m - 1)  BY <1>2
<1>4. m - 1 \in S  BY <1>1, <1>3
<1> QED  BY <1>1, <1>3, <1>4

(* A value for every step from the one before. *)
Runs(f, S, base, step, n) ==
  f \in [0..n -> S] /\ f[0] = base /\ \A i \in 1..n : f[i] = step[<<i, f[i - 1]>>]

LEMMA Recursion ==
  ASSUME NEW S, NEW base \in S, NEW step \in [Nat \X S -> S], NEW n \in Nat
  PROVE \E f : Runs(f, S, base, step, n)
<1> USE DEF Runs
<1> DEFINE T == {m \in Nat : \E f : Runs(f, S, base, step, m)}
<1>1. 0 \in T
  <2>1. Runs([i \in 0..0 |-> base], S, base, step, 0)  OBVIOUS
  <2> QED  BY <2>1
<1>2. ASSUME NEW m \in Nat, m \in T PROVE m + 1 \in T
  <2>1. PICK f : Runs(f, S, base, step, m)  BY <1>2
  <2> DEFINE g == [i \in 0..(m + 1) |-> IF i = m + 1 THEN step[<<m + 1, f[m]>>] ELSE f[i]]
  <2>2. f[m] \in S  BY <2>1
  <2>3. step[<<m + 1, f[m]>>] \in S  BY <2>2
  <2>4. g \in [0..(m + 1) -> S]  BY <2>1, <2>3
  <2>5. g[0] = base  BY <2>1
  <2>6. ASSUME NEW i \in 1..(m + 1) PROVE g[i] = step[<<i, g[i - 1]>>]
    <3>1. CASE i = m + 1
      <4>1. g[m + 1] = step[<<m + 1, f[m]>>]  OBVIOUS
      <4>2. g[m] = f[m]  OBVIOUS
      <4>3. i - 1 = m  BY <3>1
      <4> QED  BY <3>1, <4>1, <4>2, <4>3
    <3>2. CASE i # m + 1
      <4>1. i \in 1..m /\ i - 1 \in 0..m /\ i - 1 # m + 1 /\ i - 1 \in 0..(m + 1)  BY <3>2
      <4>2. f[i] = step[<<i, f[i - 1]>>]  BY <2>1, <4>1
      <4>3. g[i] = f[i] /\ g[i - 1] = f[i - 1]  BY <3>2, <4>1
      <4> QED  BY <4>2, <4>3
    <3> QED  BY <3>1, <3>2
  <2>7. Runs(g, S, base, step, m + 1)  BY <2>4, <2>5, <2>6
  <2> HIDE DEF g, Runs
  <2> QED  BY <2>7
<1> HIDE DEF Runs
<1>3. n \in T
  <2> HIDE DEF T
  <2> QED  BY <1>1, <1>2, Induction
<1> QED  BY <1>3

-----------------------------------------------------------------------------
(* The digits itoa prints are those of the tenth of the number, and its last one. *)
LEMMA Digits ==
  \A a \in Nat : Fields!Digits(a) = IF a < 10 THEN <<a>>
                                    ELSE Append(Fields!Digits(a \div 10), a % 10)
<1> DEFINE Is(m, f) == f = [k \in 0..m |-> IF k < 10 THEN <<k>> ELSE Append(f[k \div 10], k % 10)]
           T == {m \in Nat : \E f : Is(m, f)}
<1>0. \A k \in Nat : k >= 10 => k \div 10 \in Nat /\ k \div 10 < k  OBVIOUS
<1>1. 0 \in T
  <2>1. Is(0, [k \in 0..0 |-> <<0>>])  OBVIOUS
  <2> QED  BY <2>1
<1>2. ASSUME NEW m \in Nat, m \in T PROVE m + 1 \in T
  <2>1. PICK f : Is(m, f)  BY <1>2
  <2> DEFINE last == IF m + 1 < 10 THEN <<m + 1>> ELSE Append(f[(m + 1) \div 10], (m + 1) % 10)
             g == [k \in 0..(m + 1) |-> IF k = m + 1 THEN last ELSE f[k]]
  <2>2. ASSUME NEW k \in 0..(m + 1)
        PROVE g[k] = IF k < 10 THEN <<k>> ELSE Append(g[k \div 10], k % 10)
    <3>1. k < 10 \/ (k \div 10 \in 0..m /\ g[k \div 10] = f[k \div 10])
      <4>1. CASE k >= 10
        <5>1. k \div 10 \in Nat /\ k \div 10 < k  BY <1>0, <4>1
        <5> HIDE DEF last
        <5>2. k \div 10 \in 0..(m+1) /\ k \div 10 # m + 1  BY <5>1
        <5> QED  BY <5>1, <5>2
      <4> QED  BY <4>1
    <3>2. CASE k = m + 1  BY <3>1, <3>2
    <3>3. CASE k # m + 1
      <4>1. k \in 0..m  BY <3>3
      <4>2. f[k] = IF k < 10 THEN <<k>> ELSE Append(f[k \div 10], k % 10)  BY <2>1, <4>1
      <4>3. g[k] = f[k]  BY <3>3
      <4> QED  BY <3>1, <4>2, <4>3
    <3> QED  BY <3>2, <3>3
  <2>3. Is(m + 1, g)  BY <2>2
  <2> HIDE DEF g, Is
  <2> QED  BY <2>3
<1>3. \A m \in Nat : \E f : Is(m, f)
  <2>1. Nat \subseteq T
    <3> HIDE DEF T
    <3> QED BY <1>1, <1>2, Induction
  <2> QED  BY <2>1
<1>4. ASSUME NEW m \in Nat, NEW f, Is(m, f), NEW n \in Nat, NEW g, Is(n, g)
      PROVE \A k \in Nat : k <= m /\ k <= n => f[k] = g[k]
  <2> DEFINE Bad == {k \in Nat : k <= m /\ k <= n /\ f[k] # g[k]}
  <2>1. SUFFICES ASSUME NEW b \in Bad, \A k \in Bad : b <= k PROVE FALSE
    <3>1. Bad \in SUBSET Nat  OBVIOUS
    <3>2. Bad = {} \/ \E b \in Bad : \A k \in Bad : b <= k  BY <3>1, LeastOf
    <3> QED  BY <3>2
  <2>2. b \in 0..m /\ b \in 0..n /\ f[b] # g[b]  OBVIOUS
  <2>3. f[b] = IF b < 10 THEN <<b>> ELSE Append(f[b \div 10], b % 10)  BY <1>4, <2>2
  <2>4. g[b] = IF b < 10 THEN <<b>> ELSE Append(g[b \div 10], b % 10)  BY <1>4, <2>2
  <2>5. b >= 10  BY <2>2, <2>3, <2>4
  <2>6. b \div 10 \in Nat /\ b \div 10 < b  BY <1>0, <2>5
  <2>7. b \div 10 \notin Bad /\ b \div 10 <= m /\ b \div 10 <= n  BY <2>1, <2>2, <2>6
  <2>8. f[b \div 10] = g[b \div 10]  BY <2>6, <2>7
  <2> QED  BY <2>2, <2>3, <2>4, <2>8
<1> DEFINE d(m) == CHOOSE f : Is(m, f)
<1>5. \A m \in Nat : Is(m, d(m))  BY <1>3
<1>6. \A a : Fields!Digits(a) = d(a)[a]  BY DEF Fields!Digits
<1> HIDE DEF d, Is
<1> TAKE a \in Nat
<1>7. d(a)[a] = IF a < 10 THEN <<a>> ELSE Append(d(a)[a \div 10], a % 10)
  <2>1. Is(a, d(a)) /\ a \in 0..a  BY <1>5
  <2> QED  BY <2>1 DEF Is
<1>8. CASE a >= 10
  <2>1. a \div 10 \in Nat /\ a \div 10 < a  BY <1>0, <1>8
  <2>2. Is(a, d(a)) /\ Is(a \div 10, d(a \div 10))  BY <1>5, <2>1
  <2>3. d(a)[a \div 10] = d(a \div 10)[a \div 10]  BY <1>4, <2>1, <2>2
  <2> QED  BY <1>6, <1>7, <1>8, <2>3
<1>9. CASE a < 10  BY <1>6, <1>7, <1>9
<1> QED  BY <1>8, <1>9

(* The number read from a sequence is found symbol by symbol. *)
LEMMA NumberIs ==
  ASSUME NEW s \in Seq(Nat), NEW E, E[0] = 0,
         \A i \in 1..Len(s) : E[i] = IF s[i] \in 0..9 THEN 10 * E[i - 1] + s[i] ELSE E[i - 1]
  PROVE Fields!NumberOf(s) = E[Len(s)]
<1> DEFINE Is(n) == n = [i \in 0..Len(s) |->
                          IF i = 0 THEN 0
                          ELSE IF s[i] \in 0..9 THEN 10 * n[i - 1] + s[i] ELSE n[i - 1]]
           d == CHOOSE n : Is(n)
<1>0. Len(s) \in Nat  OBVIOUS
<1>1. \E n : Is(n)
  <2> DEFINE n == [i \in 0..Len(s) |-> E[i]]
  <2>1. ASSUME NEW i \in 0..Len(s)
        PROVE n[i] = IF i = 0 THEN 0
                     ELSE IF s[i] \in 0..9 THEN 10 * n[i - 1] + s[i] ELSE n[i - 1]
    <3>1. CASE i = 0  BY <3>1
    <3>2. CASE i # 0
      <4>1. i \in 1..Len(s) /\ i - 1 \in 0..Len(s)  BY <1>0, <3>2
      <4>2. n[i] = E[i] /\ n[i - 1] = E[i - 1]  BY <4>1
      <4> HIDE DEF n
      <4> QED  BY <3>2, <4>1, <4>2
    <3> QED  BY <3>1, <3>2
  <2>2. Is(n)  BY <2>1
  <2> HIDE DEF n, Is
  <2> QED  BY <2>2
<1>2. Is(d)  BY <1>1
<1>3. Fields!NumberOf(s) = d[Len(s)]  BY DEF Fields!NumberOf
<1> HIDE DEF d
<1> DEFINE T == {i \in Nat : i <= Len(s) => d[i] = E[i]}
<1>4. 0 \in T  BY <1>0, <1>2
<1>5. ASSUME NEW i \in Nat, i \in T PROVE i + 1 \in T
  <2>1. SUFFICES ASSUME i + 1 <= Len(s) PROVE d[i + 1] = E[i + 1]  OBVIOUS
  <2>2. i + 1 \in 1..Len(s) /\ i + 1 \in 0..Len(s) /\ i + 1 # 0 /\ (i + 1) - 1 = i  BY <1>0, <2>1
  <2>3. d[i] = E[i]  BY <1>0, <1>5, <2>1
  <2>4. d[i + 1] = IF s[i + 1] \in 0..9 THEN 10 * d[i] + s[i + 1] ELSE d[i]  BY <1>2, <2>2
  <2> QED  BY <2>2, <2>3, <2>4
<1>6. Len(s) \in T
  <2> HIDE DEF T
  <2> QED  BY <1>0, <1>4, <1>5, Induction
<1> QED  BY <1>3, <1>6

LEMMA NumberOfEmpty == Fields!NumberOf(<<>>) = 0
<1> DEFINE E == [i \in 0..0 |-> 0]
<1>1. E[0] = 0 /\ <<>> \in Seq(Nat) /\ Len(<<>>) = 0  OBVIOUS
<1>2. \A i \in 1..Len(<<>>) : E[i] = IF <<>>[i] \in 0..9 THEN 10 * E[i - 1] + <<>>[i] ELSE E[i - 1]
  BY <1>1
<1> HIDE DEF E
<1>3. Fields!NumberOf(<<>>) = E[Len(<<>>)]  BY Zenon, <1>1, <1>2, NumberIs
<1> QED  BY <1>1, <1>3

(* A further symbol is a further digit, or changes nothing. *)
LEMMA NumberOfAppend ==
  ASSUME NEW s \in Seq(Nat), NEW ch \in Nat
  PROVE /\ Fields!NumberOf(s) \in Nat
        /\ Fields!NumberOf(Append(s, ch)) = IF ch \in 0..9 THEN 10 * Fields!NumberOf(s) + ch
                                           ELSE Fields!NumberOf(s)
<1> DEFINE n == Len(s)
           step == [p \in Nat \X Nat |-> IF p[1] \in 1..n /\ s[p[1]] \in 0..9
                                        THEN 10 * p[2] + s[p[1]] ELSE p[2]]
<1>0. n \in Nat /\ \A i \in 1..n : s[i] \in Nat  OBVIOUS
<1>1. step \in [Nat \X Nat -> Nat]  BY <1>0
<1>2. \A i \in 1..n, v \in Nat : step[<<i, v>>] = IF s[i] \in 0..9 THEN 10 * v + s[i] ELSE v
  BY <1>0
<1> HIDE DEF step
<1>3. PICK f : Runs(f, Nat, 0, step, n)  BY <1>0, <1>1, Recursion
<1>4. \A i \in 1..n : f[i] = IF s[i] \in 0..9 THEN 10 * f[i - 1] + s[i] ELSE f[i - 1]
  <2> TAKE i \in 1..n
  <2>1. f[i - 1] \in Nat /\ f[i] = step[<<i, f[i - 1]>>]  BY <1>0, <1>3 DEF Runs
  <2> QED  BY <1>2, <2>1
<1>5. f[0] = 0 /\ f[n] \in Nat  BY <1>0, <1>3 DEF Runs
<1>12. Fields!NumberOf(s) = f[n]  BY <1>4, <1>5, NumberIs
<1> DEFINE t == Append(s, ch)
           E == [i \in 0..(n + 1) |-> IF i <= n THEN f[i]
                                      ELSE IF ch \in 0..9 THEN 10 * f[n] + ch ELSE f[n]]
<1>6. /\ t \in Seq(Nat) /\ Len(t) = n + 1 /\ t[n + 1] = ch
      /\ \A i \in 1..n : t[i] = s[i]
  BY AppendProperties
<1>7. E[0] = 0  BY <1>0, <1>5
<1>8. \A i \in 1..(n + 1) : E[i] = IF t[i] \in 0..9 THEN 10 * E[i - 1] + t[i] ELSE E[i - 1]
  <2> HIDE DEF t
  <2> TAKE i \in 1..(n + 1)
  <2>1. CASE i = n + 1
    <3>1. E[n + 1] = IF ch \in 0..9 THEN 10 * f[n] + ch ELSE f[n]  BY <1>0
    <3>2. E[n] = f[n]  BY <1>0
    <3>3. i - 1 = n /\ t[i] = ch  BY <1>0, <1>6, <2>1
    <3> HIDE DEF E
    <3> QED  BY <2>1, <3>1, <3>2, <3>3
  <2>2. CASE i # n + 1
    <3>1. i \in 1..n /\ i - 1 \in 0..n  BY <1>0, <2>2
    <3>2. E[i] = f[i] /\ E[i - 1] = f[i - 1] /\ t[i] = s[i]  BY <1>0, <1>6, <3>1
    <3> HIDE DEF E
    <3> QED  BY <1>4, <3>1, <3>2
  <2> QED  BY <2>1, <2>2
<1>9. E[n + 1] = IF ch \in 0..9 THEN 10 * f[n] + ch ELSE f[n]  BY <1>0
<1> HIDE DEF E, t
<1>10. Fields!NumberOf(t) = E[Len(t)]  BY <1>6, <1>7, <1>8, NumberIs
<1> QED  BY <1>5, <1>6, <1>9, <1>10, <1>12 DEF t

LEMMA ConcatAppend ==
  ASSUME NEW q \in Seq(Nat), NEW s \in Seq(Nat), NEW ch \in Nat
  PROVE q \o Append(s, ch) = Append(q \o s, ch)
<1>1. <<ch>> \in Seq(Nat) /\ q \o s \in Seq(Nat)  BY ConcatProperties
<1>2. Append(s, ch) = s \o <<ch>>  BY AppendIsConcat
<1>3. Append(q \o s, ch) = (q \o s) \o <<ch>>  BY <1>1, AppendIsConcat
<1>4. (q \o s) \o <<ch>> = q \o (s \o <<ch>>)  BY <1>1, ConcatAssociative
<1> QED  BY <1>2, <1>3, <1>4

(* Digits are digits, the last is that of the units, and they read as the number. *)
LEMMA DigitsType ==
  \A a \in Nat : LET d == Fields!Digits(a)
               IN d \in Seq(0..9) /\ Len(d) >= 1 /\ d[Len(d)] = a % 10
<1> DEFINE D(a) == Fields!Digits(a)
           P(a) == D(a) \in Seq(0..9) /\ Len(D(a)) >= 1 /\ D(a)[Len(D(a))] = a % 10
           Bad == {a \in Nat : ~P(a)}
<1>1. SUFFICES ASSUME NEW b \in Bad, \A a \in Bad : b <= a PROVE FALSE
  <2>1. Bad \in SUBSET Nat  OBVIOUS
  <2>2. Bad = {} \/ \E b \in Bad : \A a \in Bad : b <= a  BY <2>1, LeastOf
  <2> QED  BY <2>2
<1>2. b \in Nat /\ ~P(b)  OBVIOUS
<1>3. D(b) = IF b < 10 THEN <<b>> ELSE Append(D(b \div 10), b % 10)  BY <1>2, Digits
<1>4. CASE b < 10
  <2>1. b \in 0..9 /\ b % 10 = b  BY <1>2, <1>4
  <2>2. D(b) = <<b>>  BY <1>3, <1>4
  <2> HIDE DEF D
  <2>3. D(b) \in Seq(0..9) /\ Len(D(b)) = 1 /\ D(b)[1] = b  BY <2>1, <2>2
  <2> QED  BY <1>2, <2>1, <2>3
<1>5. CASE b >= 10
  <2>1. b \div 10 \in Nat /\ b \div 10 < b /\ b % 10 \in 0..9  BY <1>2, <1>5
  <2>2. P(b \div 10)
    <3> HIDE DEF P
    <3>1. b \div 10 \notin Bad  BY <1>1, <1>2, <2>1
    <3> QED  BY <2>1, <3>1
  <2>3. D(b \div 10) \in Seq(0..9)  BY <2>2
  <2>4. D(b) = Append(D(b \div 10), b % 10)  BY <1>2, <1>3, <1>5
  <2> HIDE DEF D
  <2>5. D(b) \in Seq(0..9) /\ Len(D(b)) = Len(D(b \div 10)) + 1 /\ D(b)[Len(D(b \div 10)) + 1] = b % 10
    BY <2>1, <2>3, <2>4, AppendProperties
  <2>6. Len(D(b \div 10)) \in Nat  BY <2>3, LenProperties
  <2> QED  BY <1>2, <2>5, <2>6
<1> QED  BY <1>2, <1>4, <1>5

LEMMA DigitsSeq == \A a \in Nat : Fields!Digits(a) \in Seq(Nat)
<1> TAKE a \in Nat
<1>1. Fields!Digits(a) \in Seq(0..9)  BY DigitsType
<1>2. 0..9 \subseteq Nat  OBVIOUS
<1> QED  BY <1>1, <1>2, SeqMonotonic

LEMMA DigitsRead ==
  ASSUME NEW q \in Seq(Nat), Fields!NumberOf(q) = 0
  PROVE \A a \in Nat : Fields!NumberOf(q \o Fields!Digits(a)) = a
<1> DEFINE D(a) == Fields!Digits(a)
           N(s) == Fields!NumberOf(s)
           Bad == {a \in Nat : N(q \o D(a)) # a}
<1>1. SUFFICES ASSUME NEW b \in Bad, \A a \in Bad : b <= a PROVE FALSE
  <2>1. Bad \in SUBSET Nat  OBVIOUS
  <2>2. Bad = {} \/ \E b \in Bad : \A a \in Bad : b <= a  BY <2>1, LeastOf
  <2> QED  BY <2>2
<1>2. b \in Nat /\ N(q \o D(b)) # b  OBVIOUS
<1>3. D(b) = IF b < 10 THEN <<b>> ELSE Append(D(b \div 10), b % 10)  BY <1>2, Digits
<1>4. CASE b < 10
  <2>1. b \in 0..9  BY <1>2, <1>4
  <2>2. D(b) = <<b>>  BY <1>2, <1>3, <1>4
  <2>3. q \o <<b>> = Append(q, b)  BY <1>2, AppendIsConcat
  <2>4. N(Append(q, b)) = 10 * 0 + b  BY <1>2, <2>1, NumberOfAppend
  <2> HIDE DEF N, D
  <2>5. N(q \o D(b)) = 10 * 0 + b  BY <2>2, <2>3, <2>4
  <2> QED  BY <1>2, <2>5
<1>5. CASE b >= 10
  <2> DEFINE c == b \div 10
  <2>1. c \in Nat /\ c < b /\ b % 10 \in 0..9 /\ b = 10 * c + (b % 10)  BY <1>2, <1>5
  <2>2. c \notin Bad  BY <1>1, <1>2, <2>1
  <2>3. N(q \o D(c)) = c  BY <2>1, <2>2
  <2>4. D(b) = Append(D(c), b % 10)  BY <1>2, <1>3, <1>5
  <2> HIDE DEF c
  <2>5. D(c) \in Seq(Nat) /\ b % 10 \in Nat  BY <2>1, DigitsSeq
  <2>6. q \o D(b) = Append(q \o D(c), b % 10)  BY <2>4, <2>5, ConcatAppend
  <2>7. q \o D(c) \in Seq(Nat)  BY <2>5, ConcatProperties
  <2> HIDE DEF D
  <2>8. N(Append(q \o D(c), b % 10)) = 10 * c + (b % 10)  BY <2>1, <2>3, <2>5, <2>7, NumberOfAppend
  <2> QED  BY <1>2, <2>1, <2>6, <2>8
<1> QED  BY <1>2, <1>4, <1>5

-----------------------------------------------------------------------------
(* The symbols of a concatenation, of digits, and of what stands before them. *)
LEMMA RangeConcat ==
  ASSUME NEW s \in Seq(Nat), NEW t \in Seq(Nat)
  PROVE s \o t \in Seq(Nat) /\ Range(s \o t) = Range(s) \cup Range(t)
<1>0. Len(s) \in Nat /\ Len(t) \in Nat /\ DOMAIN s = 1..Len(s) /\ DOMAIN t = 1..Len(t)
  BY LenProperties
<1>1. /\ s \o t \in Seq(Nat) /\ DOMAIN (s \o t) = 1..(Len(s) + Len(t))
      /\ \A i \in 1..(Len(s) + Len(t)) : (s \o t)[i] = IF i <= Len(s) THEN s[i] ELSE t[i - Len(s)]
  BY ConcatProperties, LenProperties
<1> DEFINE st == s \o t
<1> HIDE DEF st
<1>2. ASSUME NEW x \in Range(st) PROVE x \in Range(s) \cup Range(t)
  <2>1. PICK i \in 1..(Len(s) + Len(t)) : x = st[i]  BY <1>1 DEF Range, st
  <2>2. CASE i <= Len(s)
    <3>1. i \in 1..Len(s) /\ x = s[i]  BY <1>0, <1>1, <2>1, <2>2 DEF st
    <3> QED  BY <1>0, <3>1 DEF Range
  <2>3. CASE ~(i <= Len(s))
    <3>1. i - Len(s) \in 1..Len(t) /\ x = t[i - Len(s)]  BY <1>0, <1>1, <2>1, <2>3 DEF st
    <3> QED  BY <1>0, <3>1 DEF Range
  <2> QED  BY <2>2, <2>3
<1>3. ASSUME NEW x \in Range(s) PROVE x \in Range(st)
  <2>1. PICK i \in 1..Len(s) : x = s[i]  BY <1>0 DEF Range
  <2>2. i \in 1..(Len(s) + Len(t)) /\ st[i] = x  BY <1>0, <1>1, <2>1 DEF st
  <2> QED  BY <1>1, <2>2 DEF Range, st
<1>4. ASSUME NEW x \in Range(t) PROVE x \in Range(st)
  <2>1. PICK i \in 1..Len(t) : x = t[i]  BY <1>0 DEF Range
  <2>2. i + Len(s) \in 1..(Len(s) + Len(t)) /\ ~(i + Len(s) <= Len(s)) /\ (i + Len(s)) - Len(s) = i
    BY <1>0
  <2>3. st[i + Len(s)] = x  BY <1>1, <2>1, <2>2 DEF st
  <2> QED  BY <1>1, <2>2, <2>3 DEF Range, st
<1> QED  BY <1>1, <1>2, <1>3, <1>4 DEF st

LEMMA RangeAppend ==
  ASSUME NEW s \in Seq(Nat), NEW ch \in Nat
  PROVE /\ Append(s, ch) \in Seq(Nat)
        /\ Range(Append(s, ch)) = Range(s) \cup {ch}
<1>1. <<ch>> \in Seq(Nat) /\ Range(<<ch>>) = {ch}  BY DEF Range
<1>2. Append(s, ch) = s \o <<ch>>  BY AppendIsConcat
<1> QED  BY <1>1, <1>2, RangeConcat

LEMMA RangeDigits == \A a \in Nat : Range(Fields!Digits(a)) \subseteq 0..9
<1> TAKE a \in Nat
<1> DEFINE d == Fields!Digits(a)
<1>1. d \in Seq(0..9)  BY DigitsType
<1> HIDE DEF d
<1>2. DOMAIN d = 1..Len(d) /\ \A i \in 1..Len(d) : d[i] \in 0..9  BY <1>1, LenProperties, ElementOfSeq
<1> QED  BY <1>2 DEF Range, d

(* What stands before the digits: an icon, a sign, both or nothing. *)
Leads == {<<>>, <<Fields!Icon>>}
Signs == {<<>>, <<Fields!Minus>>}

LEMMA Prefix ==
  ASSUME NEW lead \in Leads, NEW sgn \in Signs
  PROVE /\ lead \in Seq(Nat) /\ sgn \in Seq(Nat) /\ lead \o sgn \in Seq(Nat)
        /\ Fields!NumberOf(lead \o sgn) = 0
        /\ Range(lead \o sgn) \subseteq {Fields!Icon, Fields!Minus}
        /\ Fields!Minus \in Range(lead \o sgn) <=> sgn # <<>>
<1> USE DEF Fields!Icon, Fields!Minus
<1>1. <<>> \in Seq(Nat) /\ <<12>> \in Seq(Nat) /\ <<10>> \in Seq(Nat)  OBVIOUS
<1>2. Range(<<>>) = {} /\ Range(<<12>>) = {12} /\ Range(<<10>>) = {10}  BY DEF Range
<1>3. lead \in Seq(Nat) /\ sgn \in Seq(Nat)  BY <1>1 DEF Leads, Signs
<1>4. lead \o sgn \in Seq(Nat) /\ Range(lead \o sgn) = Range(lead) \cup Range(sgn)
  BY <1>3, RangeConcat
<1>5. Range(lead) \subseteq {12}  BY <1>2 DEF Leads
<1>6. Range(sgn) = IF sgn = <<>> THEN {} ELSE {10}  BY <1>2 DEF Signs
<1> DEFINE Heads == {<<>>, <<12>>, <<10>>}
<1>7. ASSUME NEW s \in Seq(Nat), Fields!NumberOf(s) = 0, NEW x \in Heads
      PROVE Fields!NumberOf(s \o x) = 0
  <2>1. CASE x = <<>>  BY <1>7, <2>1, ConcatEmptySeq
  <2>2. ASSUME NEW ch \in {10, 12}, x = <<ch>> PROVE Fields!NumberOf(s \o x) = 0
    <3>1. s \o x = Append(s, ch)  BY <2>2, AppendIsConcat
    <3>2. ch \in Nat /\ ch \notin 0..9  OBVIOUS
    <3>3. Fields!NumberOf(Append(s, ch)) = Fields!NumberOf(s)  BY <3>2, NumberOfAppend
    <3> QED  BY <1>7, <3>1, <3>3
  <2> QED  BY <2>1, <2>2
<1>8. Fields!NumberOf(lead) = 0
  <2>1. <<>> \o lead = lead  BY <1>3, ConcatEmptySeq
  <2>2. lead \in Heads  BY DEF Leads
  <2>3. Fields!NumberOf(<<>> \o lead) = 0  BY Zenon, <1>1, <1>7, <2>2, NumberOfEmpty
  <2> QED  BY <2>1, <2>3
<1>9. Fields!NumberOf(lead \o sgn) = 0
  <2>1. sgn \in Heads  BY DEF Signs
  <2> QED  BY Zenon, <1>3, <1>7, <1>8, <2>1
<1>10. 10 \in Range(lead \o sgn) <=> sgn # <<>>  BY <1>4, <1>5, <1>6
<1> QED  BY <1>3, <1>4, <1>5, <1>6, <1>9, <1>10

(* A number without a decimal place, between two icons or after a sign. *)
LEMMA WholeShown ==
  ASSUME NEW lead \in Leads, NEW sgn \in Signs, NEW a \in Nat
  PROVE LET s == lead \o (sgn \o Fields!Digits(a))
        IN /\ s \in Seq(Nat) /\ Append(s, Fields!Icon) \in Seq(Nat)
           /\ Append(s, Fields!Icon) = s \o <<Fields!Icon>>
           /\ Fields!NumberOf(s) = a /\ Fields!NumberOf(Append(s, Fields!Icon)) = a
           /\ Fields!Dot \notin Range(s) /\ Fields!Dot \notin Range(Append(s, Fields!Icon))
           /\ Fields!Minus \in Range(s) <=> sgn # <<>>
           /\ Fields!Minus \in Range(Append(s, Fields!Icon)) <=> sgn # <<>>
<1> USE DEF Fields!Icon, Fields!Minus, Fields!Dot
<1> DEFINE q == lead \o sgn
           d == Fields!Digits(a)
           s == lead \o (sgn \o d)
<1>1. /\ lead \in Seq(Nat) /\ sgn \in Seq(Nat) /\ q \in Seq(Nat) /\ Fields!NumberOf(q) = 0
      /\ Range(q) \subseteq {12, 10} /\ (10 \in Range(q) <=> sgn # <<>>)
  BY Prefix
<1>2. d \in Seq(Nat) /\ Range(d) \subseteq 0..9  BY DigitsSeq, RangeDigits
<1>3. s = q \o d
  <2> HIDE DEF d
  <2>1. \A x, y, z \in Seq(Nat) : (x \o y) \o z = x \o (y \o z)  BY ConcatAssociative
  <2>2. lead \in Seq(Nat) /\ sgn \in Seq(Nat) /\ d \in Seq(Nat)  BY Zenon, <1>1, <1>2
  <2>3. (lead \o sgn) \o d = lead \o (sgn \o d)  BY Zenon, <2>1, <2>2
  <2> QED  BY <2>3
<1>4. Fields!NumberOf(q \o d) = a  BY <1>1, DigitsRead
<1> HIDE DEF q, d
<1>5. q \o d \in Seq(Nat) /\ Range(q \o d) = Range(q) \cup Range(d)  BY <1>1, <1>2, RangeConcat
<1> HIDE DEF s
<1>6. s \in Seq(Nat) /\ Range(s) = Range(q) \cup Range(d) /\ Fields!NumberOf(s) = a
  BY <1>3, <1>4, <1>5
<1>7. 12 \in Nat /\ 12 \notin 0..9 /\ 10 \notin 0..9 /\ 11 \notin 0..9  OBVIOUS
<1>8. Append(s, 12) \in Seq(Nat) /\ Range(Append(s, 12)) = Range(s) \cup {12}
  BY <1>6, <1>7, RangeAppend
<1>9. Fields!NumberOf(Append(s, 12)) = a  BY <1>6, <1>7, NumberOfAppend
<1>10. Append(s, 12) = s \o <<12>>  BY <1>6, <1>7, AppendIsConcat
<1>11. 11 \notin Range(s) /\ (10 \in Range(s) <=> sgn # <<>>)
  <2>1. 11 \notin Range(q)  BY <1>1
  <2>2. 10 \notin Range(d) /\ 11 \notin Range(d)  BY <1>2, <1>7
  <2> QED  BY Zenon, <1>1, <1>6, <2>1, <2>2
<1>12. 11 \notin Range(Append(s, 12)) /\ (10 \in Range(Append(s, 12)) <=> sgn # <<>>)
  <2>1. 11 # 12 /\ 10 # 12  OBVIOUS
  <2> QED  BY Zenon, <1>8, <1>11, <2>1
<1> QED  BY <1>6, <1>8, <1>9, <1>10, <1>11, <1>12 DEF s, d

(* With a decimal place, the digits before the last are those of the tenth, or a zero. *)
LEMMA PaddedDigits ==
  ASSUME NEW a \in Nat, NEW sgn \in Signs, a >= 10 \/ sgn = <<>>
  PROVE Fields!Padded(sgn \o Fields!Digits(a)) = Append(sgn \o Fields!Digits(a \div 10), a % 10)
<1> DEFINE d == Fields!Digits(a)
           c == Fields!Digits(a \div 10)
<1>0. a \div 10 \in Nat /\ a % 10 \in Nat  OBVIOUS
<1>1. d \in Seq(Nat) /\ c \in Seq(Nat) /\ Len(c) >= 1  BY <1>0, DigitsSeq, DigitsType
<1>2. sgn \in Seq(Nat)
  <2>1. <<>> \in Seq(Nat) /\ <<10>> \in Seq(Nat)  OBVIOUS
  <2> QED  BY <2>1 DEF Signs, Fields!Minus
<1>3. CASE a >= 10
  <2>1. d = Append(c, a % 10)  BY <1>3, Digits
  <2> HIDE DEF d, c
  <2>2. sgn \o d = Append(sgn \o c, a % 10)  BY <1>0, <1>1, <1>2, <2>1, ConcatAppend
  <2>3. Len(d) = Len(c) + 1 /\ Len(c) \in Nat /\ Len(sgn) \in Nat
    BY <1>0, <1>1, <1>2, <2>1, AppendProperties, LenProperties
  <2>4. Len(sgn \o d) = Len(sgn) + Len(d)  BY <1>1, <1>2, ConcatProperties
  <2>5. Len(sgn \o d) # 1  BY <1>1, <2>3, <2>4
  <2> QED  BY <2>2, <2>5 DEF Fields!Padded, d, c
<1>4. CASE a < 10
  <2>1. a \div 10 = 0 /\ a % 10 = a  BY <1>4
  <2>2. d = <<a>> /\ c = <<0>>  BY <1>4, <2>1, Digits
  <2>3. sgn = <<>>  BY <1>4
  <2> HIDE DEF d, c
  <2>4. sgn \o d = <<a>> /\ sgn \o c = <<0>>  BY <1>1, <2>2, <2>3, ConcatEmptySeq
  <2>5. Len(<<a>>) = 1  OBVIOUS
  <2>6. <<0>> \in Seq(Nat)  OBVIOUS
  <2>7. <<0>> \o <<a>> = Append(<<0>>, a)  BY <2>6, AppendIsConcat
  <2> QED  BY <2>1, <2>4, <2>5, <2>7 DEF Fields!Padded, d, c
<1> QED  BY <1>3, <1>4

LEMMA Pointed ==
  ASSUME NEW u \in Seq(Nat), NEW d \in Nat
  PROVE Fields!WithPoint(Append(u, d)) = Append(Append(u, Fields!Dot), d)
<1> USE DEF Fields!Dot
<1> DEFINE s == Append(u, d)
<1>1. /\ s \in Seq(Nat) /\ Len(s) = Len(u) + 1 /\ Len(u) \in Nat
      /\ \A i \in 1..Len(u) : s[i] = u[i]
      /\ s[Len(u) + 1] = d
  BY AppendProperties, LenProperties
<1> HIDE DEF s
<1>2. SubSeq(s, 1, Len(s) - 1) = u
  <2>1. Len(s) - 1 = Len(u)  BY <1>1
  <2>2. \A i \in 1..Len(u) : s[i] \in Nat  BY <1>1, ElementOfSeq
  <2>3. /\ SubSeq(s, 1, Len(u)) \in Seq(Nat) /\ Len(SubSeq(s, 1, Len(u))) = Len(u)
        /\ \A i \in 1..Len(u) : SubSeq(s, 1, Len(u))[i] = s[i]
    <3>1. 1 \in Int /\ Len(u) \in Int  BY <1>1
    <3>2. /\ SubSeq(s, 1, Len(u)) \in Seq(Nat)
          /\ Len(SubSeq(s, 1, Len(u))) = IF 1 <= Len(u) THEN Len(u) - 1 + 1 ELSE 0
          /\ \A i \in 1..(Len(u) - 1 + 1) : SubSeq(s, 1, Len(u))[i] = s[1 + i - 1]
      BY <2>2, <3>1, SubSeqProperties
    <3> QED  BY <1>1, <3>2
  <2>4. SubSeq(s, 1, Len(u)) = u  BY <1>1, <2>3, SeqEqual
  <2> QED  BY <2>1, <2>4
<1>3. u \o <<11, d>> = Append(Append(u, 11), d)
  <2>1. <<11, d>> = Append(<<11>>, d) /\ <<11>> \in Seq(Nat)  OBVIOUS
  <2>2. u \o Append(<<11>>, d) = Append(u \o <<11>>, d)  BY <2>1, ConcatAppend
  <2>3. u \o <<11>> = Append(u, 11)  BY AppendIsConcat
  <2> QED  BY <2>1, <2>2, <2>3
<1> QED  BY <1>1, <1>2, <1>3 DEF Fields!WithPoint, s

(* A point with a digit on either side, the last before the icon. *)
HasTenths(s) == \E i \in 2..(Len(s) - 2) : /\ s[i] = Fields!Dot /\ s[i + 2] = Fields!Icon
                                          /\ {s[i - 1], s[i + 1]} \subseteq 0..9

TenthsText(lead, sgn, c, d) ==
  Append(Append(Append(lead \o (sgn \o Fields!Digits(c)), Fields!Dot), d), Fields!Icon)

LEMMA TenthsShown ==
  ASSUME NEW lead \in Leads, NEW sgn \in Signs, NEW c \in Nat, NEW d \in 0..9
  PROVE /\ TenthsText(lead, sgn, c, d) \in Seq(Nat)
        /\ Fields!NumberOf(TenthsText(lead, sgn, c, d)) = 10 * c + d
        /\ Fields!Minus \in Range(TenthsText(lead, sgn, c, d)) <=> sgn # <<>>
        /\ HasTenths(TenthsText(lead, sgn, c, d))
<1> USE DEF Fields!Icon, Fields!Minus, Fields!Dot
<1> DEFINE e == Fields!Digits(c)
           v == lead \o (sgn \o e)
           x == Append(v, 11)
           y == Append(x, d)
           s == Append(y, 12)
<1>0. /\ d \in Nat /\ 11 \in Nat /\ 12 \in Nat /\ 11 \notin 0..9 /\ 12 \notin 0..9
      /\ d # 10 /\ 10 # 11 /\ 10 # 12
  OBVIOUS
<1>1. v \in Seq(Nat) /\ Fields!NumberOf(v) = c /\ (10 \in Range(v) <=> sgn # <<>>)  BY WholeShown
<1>2. lead \in Seq(Nat) /\ sgn \in Seq(Nat)  BY Prefix
<1>3. e \in Seq(Nat) /\ e \in Seq(0..9) /\ Len(e) >= 1  BY DigitsSeq, DigitsType
<1> HIDE DEF e
<1>4. v[Len(v)] \in 0..9 /\ Len(v) >= 1
  <2> DEFINE t == sgn \o e
  <2>0. Len(lead) \in Nat /\ Len(sgn) \in Nat /\ Len(e) \in Nat  BY <1>2, <1>3, LenProperties
  <2>1. t \in Seq(Nat) /\ Len(t) = Len(sgn) + Len(e)  BY <1>2, <1>3, ConcatProperties
  <2>2. t[Len(t)] = e[Len(e)]
    <3>1. /\ Len(sgn) + Len(e) \in 1..(Len(sgn) + Len(e)) /\ ~(Len(sgn) + Len(e) <= Len(sgn))
          /\ (Len(sgn) + Len(e)) - Len(sgn) = Len(e)
      BY <1>3, <2>0
    <3> QED  BY <1>2, <1>3, <2>1, <3>1, ConcatProperties
  <2> HIDE DEF t
  <2>3. Len(v) = Len(lead) + Len(t)  BY <1>2, <2>1, ConcatProperties DEF t
  <2>4. v[Len(v)] = t[Len(t)]
    <3>1. Len(t) \in Nat /\ Len(t) >= 1  BY <1>3, <2>0, <2>1
    <3>2. /\ Len(lead) + Len(t) \in 1..(Len(lead) + Len(t)) /\ ~(Len(lead) + Len(t) <= Len(lead))
          /\ (Len(lead) + Len(t)) - Len(lead) = Len(t)
      BY <2>0, <3>1
    <3>3. (lead \o t)[Len(lead) + Len(t)] = t[Len(t)]  BY <1>2, <2>1, <3>2, ConcatProperties
    <3> QED  BY <2>3, <3>3 DEF t
  <2>5. e[Len(e)] \in 0..9  BY <1>3, <2>0, ElementOfSeq
  <2>6. Len(v) >= 1  BY <1>3, <2>0, <2>1, <2>3
  <2> HIDE DEF v
  <2> QED  BY <2>2, <2>4, <2>5, <2>6
<1> HIDE DEF v
<1>5. /\ x \in Seq(Nat) /\ Range(x) = Range(v) \cup {11} /\ Len(x) = Len(v) + 1
      /\ \A i \in 1..Len(v) : x[i] = v[i]
      /\ x[Len(v) + 1] = 11
  BY <1>0, <1>1, RangeAppend, AppendProperties
<1>6. Fields!NumberOf(x) = c  BY <1>0, <1>1, NumberOfAppend
<1> HIDE DEF x
<1>7. /\ y \in Seq(Nat) /\ Range(y) = Range(x) \cup {d} /\ Len(y) = Len(x) + 1
      /\ \A i \in 1..Len(x) : y[i] = x[i]
      /\ y[Len(x) + 1] = d
  BY <1>0, <1>5, RangeAppend, AppendProperties
<1>8. Fields!NumberOf(y) = 10 * c + d  BY <1>0, <1>5, <1>6, NumberOfAppend
<1> HIDE DEF y
<1>9. /\ s \in Seq(Nat) /\ Range(s) = Range(y) \cup {12} /\ Len(s) = Len(y) + 1
      /\ \A i \in 1..Len(y) : s[i] = y[i]
      /\ s[Len(y) + 1] = 12
  BY <1>0, <1>7, RangeAppend, AppendProperties
<1>10. Fields!NumberOf(s) = 10 * c + d  BY <1>0, <1>7, <1>8, NumberOfAppend
<1> HIDE DEF s
<1>11. 10 \in Range(s) <=> sgn # <<>>
  <2>1. 10 \in Range(x) <=> 10 \in Range(v)  BY Zenon, <1>0, <1>5
  <2>2. 10 \in Range(y) <=> 10 \in Range(x)  BY Zenon, <1>0, <1>7
  <2>3. 10 \in Range(s) <=> 10 \in Range(y)  BY Zenon, <1>0, <1>9
  <2> QED  BY Zenon, <1>1, <2>1, <2>2, <2>3
<1>12. /\ Len(v) + 1 \in 2..(Len(s) - 2) /\ s[Len(v) + 1] = 11 /\ s[Len(v) + 1 + 2] = 12
       /\ {s[Len(v) + 1 - 1], s[Len(v) + 1 + 1]} \subseteq 0..9
  <2> DEFINE n == Len(v)
  <2>0. n \in Nat /\ n >= 1  BY <1>1, <1>4, LenProperties
  <2> HIDE DEF n
  <2>1. Len(x) = n + 1 /\ Len(y) = n + 2 /\ Len(s) = n + 3  BY <1>5, <1>7, <1>9, <2>0 DEF n
  <2>2. n + 1 - 1 = n /\ n + 1 + 1 = n + 2 /\ n + 1 + 2 = n + 3  BY <2>0
  <2>3. n + 1 \in 2..(n + 3 - 2)  BY <2>0
  <2>4. s[n + 1] = 11
    <3>1. n + 1 \in 1..(n + 1) /\ n + 1 \in 1..(n + 2)  BY <2>0
    <3> QED  BY <1>5, <1>7, <1>9, <2>1, <3>1 DEF n
  <2>5. s[n + 2] = d
    <3>1. n + 2 \in 1..(n + 2) /\ Len(x) + 1 = n + 2  BY <2>0, <2>1
    <3> QED  BY <1>7, <1>9, <2>1, <3>1
  <2>6. s[n + 3] = 12
    <3>1. Len(y) + 1 = n + 3  BY <2>0, <2>1
    <3> QED  BY <1>9, <3>1
  <2>7. s[n] = v[n]
    <3>1. n \in 1..n /\ n \in 1..(n + 1) /\ n \in 1..(n + 2)  BY <2>0
    <3> QED  BY <1>5, <1>7, <1>9, <2>1, <3>1 DEF n
  <2>8. v[n] \in 0..9  BY <1>4 DEF n
  <2>9. {s[n], s[n + 2]} \subseteq 0..9  BY <2>5, <2>7, <2>8
  <2> QED  BY <2>1, <2>2, <2>3, <2>4, <2>6, <2>9 DEF n
<1> HIDE DEF s
<1>13. \E i \in 2..(Len(s) - 2) : s[i] = 11 /\ s[i + 2] = 12 /\ {s[i - 1], s[i + 1]} \subseteq 0..9
  <2> DEFINE i == Len(v) + 1
  <2>1. /\ i \in 2..(Len(s) - 2) /\ s[i] = 11 /\ s[i + 2] = 12
        /\ {s[i - 1], s[i + 1]} \subseteq 0..9
    BY <1>12
  <2> HIDE DEF i
  <2> QED  BY <2>1
<1>14. HasTenths(s)  BY <1>13 DEF HasTenths
<1> QED  BY <1>9, <1>10, <1>11, <1>14 DEF TenthsText, s, y, x, v, e

(* What a reader of the screen takes from a text is what the text holds. *)
LEMMA ReadShown ==
  ASSUME NEW s \in Seq(Nat), writes = Fields!WriteString(s, at)
  PROVE /\ Fields!Number = Fields!NumberOf(s)
        /\ Fields!Negative <=> Fields!Minus \in Range(s)
        /\ Fields!Whole <=> Fields!Dot \notin Range(s)
        /\ Fields!Tenths <=> HasTenths(s)
<1>1. Fields!Read = s
  <2>1. DOMAIN s = 1..Len(s) /\ s = [i \in 1..Len(s) |-> s[i]]  BY LenProperties
  <2>2. DOMAIN writes = 1..Len(s) /\ \A i \in 1..Len(s) : writes[i].ch = s[i]
    BY DEF Fields!WriteString
  <2>3. Fields!Read = [i \in 1..Len(s) |-> s[i]]  BY <2>2 DEF Fields!Read
  <2> QED  BY <2>1, <2>3
<1> QED  BY Zenon, <1>1 DEF Fields!Number, Fields!Negative, Fields!Whole, Fields!Tenths, HasTenths, Range

(* The numbers an int of the AVR holds. *)
Fits(n) == n \in Int /\ -(2^15) <= n /\ n < 2^15

LEMMA Int16Is ==
  ASSUME NEW n, Fits(n) PROVE Fields!Int16(n) = n
<1>1. 2^15 = 32768 /\ 2^16 = 65536  OBVIOUS
<1>2. n \in Int /\ n >= -32768 /\ n < 32768  BY <1>1 DEF Fits
<1>3. (n + 32768) % 65536 = n + 32768  BY <1>2
<1> QED  BY <1>1, <1>2, <1>3 DEF Fields!Int16

(* The same for a bound of which only its being a natural number is needed. *)
LEMMA Bound == \E M \in Nat : M = 2^15 /\ M > 10
OBVIOUS

LEMMA ItoaIs ==
  ASSUME NEW n, Fits(n)
  PROVE Fields!Itoa(n) = Fields!Sign(n < 0) \o Fields!Digits(Fields!Abs(n))
BY Int16Is DEF Fields!Itoa

LEMMA SignIs == Fields!Sign(TRUE) = <<Fields!Minus>> /\ Fields!Sign(FALSE) = <<>>
  /\ <<Fields!Minus>> # <<>> /\ <<Fields!Minus>> \in Signs /\ <<>> \in Signs
BY DEF Fields!Sign, Signs

(* displayItem, for a number without a decimal place and for one with it. *)
LEMMA ItemWhole ==
  ASSUME NEW n, Fits(n), n >= 0, writes = Fields!WriteString(Fields!Item(n, <<Fields!Icon>>, 0), at)
  PROVE Fields!Number = n /\ ~Fields!Negative /\ Fields!Whole
<1> DEFINE s == <<Fields!Icon>> \o (<<>> \o Fields!Digits(n))
<1>1. n \in Nat /\ ~(n < 0) /\ Fields!Abs(n) = n  BY DEF Fits, Fields!Abs
<1>2. Fields!Itoa(n) = <<>> \o Fields!Digits(n)  BY <1>1, ItoaIs DEF Fields!Sign
<1>3. Fields!Item(n, <<Fields!Icon>>, 0) = s \o <<Fields!Icon>>  BY <1>2 DEF Fields!Item
<1>4. <<Fields!Icon>> \in Leads /\ <<>> \in Signs  BY DEF Leads, Signs
<1>5. LET t == Append(s, Fields!Icon)
      IN /\ t \in Seq(Nat) /\ t = s \o <<Fields!Icon>> /\ Fields!NumberOf(t) = n
         /\ Fields!Dot \notin Range(t) /\ ~(Fields!Minus \in Range(t))
  BY <1>1, <1>4, WholeShown
<1> HIDE DEF s
<1>6. writes = Fields!WriteString(Append(s, Fields!Icon), at)  BY <1>3, <1>5
<1>7. /\ Fields!Number = Fields!NumberOf(Append(s, Fields!Icon))
      /\ Fields!Negative <=> Fields!Minus \in Range(Append(s, Fields!Icon))
      /\ Fields!Whole <=> Fields!Dot \notin Range(Append(s, Fields!Icon))
  BY <1>5, <1>6, ReadShown
<1> QED  BY <1>5, <1>7

LEMMA ItemTenths ==
  ASSUME NEW n, Fits(n), n >= 0 \/ n <= -10, NEW lead \in Leads,
         writes = Fields!WriteString(Fields!Item(n, lead, 1), at)
  PROVE Fields!Number = Fields!Abs(n) /\ (Fields!Negative <=> n < 0) /\ Fields!Tenths
<1> DEFINE sgn == Fields!Sign(n < 0)
           a == Fields!Abs(n)
           c == a \div 10
           d == (a % 10)
           v == lead \o (sgn \o Fields!Digits(c))
           s == Append(Append(Append(v, Fields!Dot), d), Fields!Icon)
<1>1. /\ a \in Nat /\ c \in Nat /\ d \in 0..9 /\ d \in Nat /\ a = 10 * c + d
  BY DEF Fits, Fields!Abs
<1>2. sgn \in Signs /\ (sgn # <<>> <=> n < 0)  BY SignIs DEF Fields!Sign
<1>3. a >= 10 \/ sgn = <<>>  BY SignIs DEF Fits, Fields!Abs, Fields!Sign
<1>4. Fields!Itoa(n) = sgn \o Fields!Digits(a)  BY ItoaIs
<1> HIDE DEF sgn, a
<1>5. Fields!Padded(Fields!Itoa(n)) = Append(sgn \o Fields!Digits(c), d)
  BY <1>1, <1>2, <1>3, <1>4, PaddedDigits
<1> HIDE DEF c, d
<1> DEFINE u == sgn \o Fields!Digits(c)
<1>6. lead \in Seq(Nat) /\ sgn \in Seq(Nat) /\ Fields!Digits(c) \in Seq(Nat)
  BY <1>1, <1>2, Prefix, DigitsSeq
<1>7. u \in Seq(Nat)  BY <1>6, ConcatProperties
<1>8. Fields!WithPoint(Append(u, d)) = Append(Append(u, Fields!Dot), d)
  <2> HIDE DEF u
  <2> QED  BY <1>1, <1>7, Pointed
<1>9. Fields!Item(n, lead, 1) = lead \o Append(Append(u, Fields!Dot), d) \o <<Fields!Icon>>
  <2> HIDE DEF u
  <2>1. 1 # 0 /\ Fields!Padded(Fields!Itoa(n)) = Append(u, d)  BY <1>5 DEF u
  <2> QED  BY Zenon, <1>8, <2>1 DEF Fields!Item
<1>10. lead \o Append(Append(u, Fields!Dot), d) \o <<Fields!Icon>> = s
  <2> DEFINE y == Append(Append(v, Fields!Dot), d)
  <2> HIDE DEF u
  <2>0. Fields!Dot \in Nat /\ Fields!Icon \in Nat  BY DEF Fields!Dot, Fields!Icon
  <2>1. Append(u, Fields!Dot) \in Seq(Nat)  BY <1>7, <2>0, RangeAppend
  <2>2. lead \o Append(Append(u, Fields!Dot), d) = Append(lead \o Append(u, Fields!Dot), d)
    BY <1>1, <1>6, <2>1, ConcatAppend
  <2>3. lead \o Append(u, Fields!Dot) = Append(lead \o u, Fields!Dot)
    BY <1>6, <1>7, <2>0, ConcatAppend
  <2>4. lead \o u \in Seq(Nat)  BY <1>6, <1>7, ConcatProperties
  <2>5. Append(Append(lead \o u, Fields!Dot), d) \in Seq(Nat)
    <3>1. Append(lead \o u, Fields!Dot) \in Seq(Nat)  BY <2>0, <2>4, RangeAppend
    <3> QED  BY <1>1, <3>1, RangeAppend
  <2>6. Append(Append(lead \o u, Fields!Dot), d) \o <<Fields!Icon>>
          = Append(Append(Append(lead \o u, Fields!Dot), d), Fields!Icon)
    BY <2>0, <2>5, AppendIsConcat
  <2>7. lead \o Append(Append(u, Fields!Dot), d) \o <<Fields!Icon>>
          = Append(Append(Append(lead \o u, Fields!Dot), d), Fields!Icon)
    BY Zenon, <2>2, <2>3, <2>6
  <2> QED  BY <2>7 DEF u
<1> HIDE DEF u
<1>11. /\ s \in Seq(Nat) /\ Fields!NumberOf(s) = 10 * c + d
       /\ Fields!Minus \in Range(s) <=> sgn # <<>>
       /\ HasTenths(s)
  <2>1. s = TenthsText(lead, sgn, c, d)  BY DEF TenthsText
  <2> HIDE DEF s
  <2>2. c \in Nat /\ d \in 0..9 /\ sgn \in Signs  BY <1>1, <1>2
  <2>3. TenthsText(lead, sgn, c, d) \in Seq(Nat)  BY <2>2, TenthsShown
  <2>4. Fields!NumberOf(TenthsText(lead, sgn, c, d)) = 10 * c + d  BY <2>2, TenthsShown
  <2>5. Fields!Minus \in Range(TenthsText(lead, sgn, c, d)) <=> sgn # <<>>  BY <2>2, TenthsShown
  <2>6. HasTenths(TenthsText(lead, sgn, c, d))  BY <2>2, TenthsShown
  <2> QED  BY <2>1, <2>3, <2>4, <2>5, <2>6
<1> HIDE DEF s
<1>12. writes = Fields!WriteString(s, at)  BY <1>9, <1>10
<1>13. /\ Fields!Number = Fields!NumberOf(s)
       /\ Fields!Negative <=> Fields!Minus \in Range(s)
       /\ Fields!Tenths <=> HasTenths(s)
  BY <1>11, <1>12, ReadShown
<1>14. Fields!Number = a  BY <1>1, <1>11, <1>13
<1>15. Fields!Negative <=> n < 0  BY Zenon, <1>2, <1>11, <1>13
<1>16. Fields!Tenths  BY Zenon, <1>11, <1>13
<1> QED  BY <1>14, <1>15, <1>16 DEF a

(* displayHorizon, for the whole degrees of an angle. *)
LEMMA AngleShown ==
  ASSUME NEW n, Fits(n), NEW negative \in BOOLEAN,
         writes = Fields!WriteString(Fields!Angle(n, negative), at)
  PROVE Fields!Number = Fields!Degrees(n) /\ (Fields!Negative <=> negative)
<1> DEFINE a == Fields!Degrees(n)
           sgn == Fields!Sign(negative)
           s == <<Fields!Icon>> \o (sgn \o Fields!Digits(a))
<1>1. a \in Nat /\ a < 2^15
  <2>1. PICK M \in Nat : M = 2^15 /\ M > 10  BY Bound
  <2>2. n \in Int /\ -M <= n /\ n < M  BY <2>1 DEF Fits
  <2>3. a \in Nat /\ a < M  BY <2>1, <2>2 DEF Fields!Degrees, Fields!Abs
  <2> HIDE DEF a
  <2> QED  BY <2>1, <2>3
<1>2. sgn \in Signs /\ (sgn # <<>> <=> negative)  BY SignIs DEF Fields!Sign
<1> HIDE DEF a, sgn
<1>3. a \in Nat /\ Fits(a) /\ ~(a < 0) /\ Fields!Abs(a) = a
  <2>1. PICK M \in Nat : M = 2^15 /\ M > 10  BY Bound
  <2> QED  BY <1>1, <2>1 DEF Fits, Fields!Abs
<1>4. Fields!Itoa(a) = <<>> \o Fields!Digits(a)  BY <1>3, ItoaIs DEF Fields!Sign
<1>5. <<Fields!Icon>> \in Leads  BY DEF Leads
<1>6. <<Fields!Icon>> \in Seq(Nat) /\ sgn \in Seq(Nat) /\ Fields!Digits(a) \in Seq(Nat)
  BY <1>2, <1>3, <1>5, Prefix, DigitsSeq
<1>7. Fields!Angle(n, negative) = s
  <2>1. <<>> \o Fields!Digits(a) = Fields!Digits(a)  BY <1>6, ConcatEmptySeq
  <2>2. Fields!Angle(n, negative) = (<<Fields!Icon>> \o sgn) \o Fields!Digits(a)
    BY <1>4, <2>1 DEF Fields!Angle, a, sgn
  <2>3. \A x, y, z \in Seq(Nat) : (x \o y) \o z = x \o (y \o z)  BY ConcatAssociative
  <2> QED  BY Zenon, <1>6, <2>2, <2>3
<1>8. /\ s \in Seq(Nat) /\ Fields!NumberOf(s) = a /\ (Fields!Minus \in Range(s) <=> sgn # <<>>)
  BY <1>2, <1>3, <1>5, WholeShown
<1> HIDE DEF s
<1>9. /\ Fields!Number = Fields!NumberOf(s) /\ (Fields!Negative <=> Fields!Minus \in Range(s))
  BY <1>7, <1>8, ReadShown
<1>10. Fields!Negative <=> negative  BY Zenon, <1>2, <1>8, <1>9
<1> QED  BY <1>8, <1>9, <1>10 DEF a

-----------------------------------------------------------------------------
(* What the functions of the numbers have written. *)
Wrote(s) == writes = Fields!WriteString(s, at)

Shown ==
  /\ field = "altitude" => value \in Altitudes /\ Wrote(Fields!AltitudeItem(Fields!Over(value, 10)))
  /\ field = "speed" => value \in Speeds /\ \E t_speed \in Fields!Kmh(value) :
                                               Wrote(Fields!Item(t_speed, <<Fields!Icon>>, 0))
  /\ field = "voltage" => value \in Voltages /\ Wrote(Fields!Item(value, <<>>, 1))
  /\ field = "pitch" => value \in Angles /\ Wrote(Fields!Angle(-value, -value > 0))
  /\ field \in {"roll", "yaw"} => value \in Angles /\ Wrote(Fields!Angle(value, value < 0))

LEMMA ShownInit == Fields!Init => Shown
BY DEF Fields!Init, Shown

LEMMA ShownStep ==
  ASSUME Shown, [Fields!Next]_(Fields!vars) PROVE Shown'
<1>1. CASE UNCHANGED Fields!vars  BY <1>1 DEF Fields!vars, Shown, Wrote
<1>2. CASE Fields!Sent  BY <1>2 DEF Fields!Sent, Shown
<1>3. ASSUME NEW p \in FieldPlaces, NEW v \in Altitudes, Fields!Altitude(p, v) PROVE Shown'
  BY <1>3 DEF Fields!Altitude, Fields!DrawNumber, Fields!Draw, Shown, Wrote
<1>4. ASSUME NEW p \in FieldPlaces, NEW v \in Speeds, Fields!AirSpeed(p, v) PROVE Shown'
  BY <1>4 DEF Fields!AirSpeed, Fields!DrawNumber, Fields!Draw, Shown, Wrote
<1>5. ASSUME NEW p \in FieldPlaces, NEW v \in Voltages, Fields!Voltage(p, v) PROVE Shown'
  BY <1>5 DEF Fields!Voltage, Fields!DrawNumber, Fields!Draw, Shown, Wrote
<1>6. ASSUME NEW p \in FieldPlaces, NEW v \in Angles,
             Fields!Pitch(p, v) \/ Fields!Roll(p, v) \/ Fields!Yaw(p, v)
      PROVE Shown'
  BY <1>6 DEF Fields!Pitch, Fields!Roll, Fields!Yaw, Fields!DrawNumber, Fields!Draw, Shown, Wrote
<1>7. ASSUME NEW p \in FieldPlaces, NEW v \in 0..2, Fields!Status(p, v) \/ Fields!Control(p, v)
      PROVE Shown'
  BY <1>7 DEF Fields!Status, Fields!Control, Fields!DrawNumber, Fields!Draw, Shown
<1> QED  BY <1>1, <1>2, <1>3, <1>4, <1>5, <1>6, <1>7 DEF Fields!Next

(* Heights: whole metres, and tenths of a metre below zero. *)
LEMMA AltitudeShown ==
  ASSUME value \in Int, value > -10 * (2^15 + 1), value < 100 * 2^15,
         Wrote(Fields!AltitudeItem(Fields!Over(value, 10)))
  PROVE IF value > -100
        THEN Fields!Whole /\ ~Fields!Negative /\ Fields!Number = Fields!Abs(value) \div 100
        ELSE Fields!Tenths /\ Fields!Negative /\ Fields!Number = Fields!Abs(value) \div 10
<1> DEFINE t == Fields!Over(value, 10)
           m == Fields!Metres(t)
<1>0. PICK M \in Nat : M = 2^15 /\ M > 10  BY Bound
<1>b. value > -10 * (M + 1) /\ value < 100 * M  BY <1>0
<1>1. CASE value > -100
  <2>1. m = Fields!Abs(value) \div 100 /\ Fits(m) /\ m >= 0
    <3>1. CASE value >= 0
      <4>1. Fields!Over(value, 10) = value \div 10 /\ value \div 10 >= 0  BY <3>1 DEF Fields!Over
      <4>2. m = (value \div 10) \div 10  BY <4>1 DEF Fields!Metres, Fields!Over
      <4>3. (value \div 10) \div 10 = value \div 100 /\ value \div 100 < M /\ value \div 100 >= 0
        BY <1>b, <3>1
      <4>4. Fields!Abs(value) = value  BY <3>1 DEF Fields!Abs
      <4> HIDE DEF m
      <4>5. Fits(value \div 100)  BY <1>0, <4>3 DEF Fits
      <4> QED  BY <4>2, <4>3, <4>4, <4>5
    <3>2. CASE value < 0
      <4> DEFINE k == (-value) \div 10
      <4>1. Fields!Over(value, 10) = -k /\ k \in 0..9  BY <1>1, <3>2 DEF Fields!Over
      <4> HIDE DEF k
      <4>2. m = 0  BY <4>1 DEF Fields!Metres, Fields!Over
      <4>3. Fields!Abs(value) \div 100 = 0  BY <1>1, <3>2 DEF Fields!Abs
      <4> HIDE DEF m
      <4>4. Fits(0)  BY <1>0 DEF Fits
      <4> QED  BY <4>2, <4>3, <4>4
    <3> QED  BY <3>1, <3>2
  <2>2. Fields!AltitudeItem(t) = Fields!Item(m, <<Fields!Icon>>, 0)
    <3>1. Fields!Decimals(m) = 0  BY <2>1 DEF Fields!Decimals, Fits
    <3> HIDE DEF m, t
    <3> QED  BY <3>1 DEF Fields!AltitudeItem, m
  <2> HIDE DEF m
  <2>3. writes = Fields!WriteString(Fields!Item(m, <<Fields!Icon>>, 0), at)  BY <2>2 DEF Wrote
  <2>4. Fields!Number = m /\ ~Fields!Negative /\ Fields!Whole  BY <2>1, <2>3, ItemWhole
  <2> QED  BY <1>1, <2>1, <2>4
<1>2. CASE ~(value > -100)
  <2> DEFINE k == (-value) \div 10
  <2>1. t = -k /\ k \in Nat /\ k >= 10 /\ k <= M  BY <1>b, <1>2 DEF Fields!Over
  <2>2. Fits(t) /\ t <= -10 /\ t < 0
    <3> HIDE DEF t, k
    <3> QED  BY <1>0, <2>1 DEF Fits
  <2>3. Fields!Abs(t) = Fields!Abs(value) \div 10
    <3>1. Fields!Abs(value) = -value  BY <1>2 DEF Fields!Abs
    <3>2. Fields!Abs(t) = k
      <4> HIDE DEF t, k
      <4> QED  BY <2>1 DEF Fields!Abs
    <3> QED  BY <3>1, <3>2
  <2>4. Fields!Decimals(m) = 1
    <3> HIDE DEF t, k
    <3>1. m < 0  BY <2>1 DEF Fields!Metres, Fields!Over
    <3> QED  BY <3>1 DEF Fields!Decimals
  <2>5. Fields!AltitudeItem(t) = Fields!Item(t, <<Fields!Icon>>, 1)
    <3> HIDE DEF t
    <3> QED  BY <2>4 DEF Fields!AltitudeItem
  <2>6. writes = Fields!WriteString(Fields!Item(t, <<Fields!Icon>>, 1), at)
        /\ <<Fields!Icon>> \in Leads
    BY <2>5 DEF Wrote, Leads
  <2> HIDE DEF t
  <2>7. Fields!Number = Fields!Abs(t) /\ (Fields!Negative <=> t < 0) /\ Fields!Tenths
    BY <2>2, <2>6, ItemTenths
  <2> QED  BY Zenon, <1>2, <2>2, <2>3, <2>7
<1> QED  BY <1>1, <1>2

(* What the display functions write is what a reader of the screen takes from it: heights
   above and below zero, speed, voltage and angles. *)
LEMMA ShownRead ==
  ASSUME Fields!FieldsAssumption, Shown PROVE Fields!NumbersRead
<1>0. PICK M \in Nat : M = 2^15 /\ M > 10  BY Bound
<1>1. ASSUME field = "altitude", value > -10 * (2^15 + 1), value < 100 * 2^15
      PROVE IF value > -100
            THEN Fields!Whole /\ ~Fields!Negative /\ Fields!Number = Fields!Abs(value) \div 100
            ELSE Fields!Tenths /\ Fields!Negative /\ Fields!Number = Fields!Abs(value) \div 10
  <2>1. value \in Int /\ Wrote(Fields!AltitudeItem(Fields!Over(value, 10)))
    BY <1>1 DEF Shown, Fields!FieldsAssumption
  <2> QED  BY <1>1, <2>1, AltitudeShown
<1>2. ASSUME field = "speed"
      PROVE Fields!Number * 1000 <= value * 36 /\ value * 36 <= (Fields!Number + 1) * 1000
  <2>1. value \in Nat /\ value < M
    <3>1. value \in Speeds  BY <1>2 DEF Shown
    <3> QED  BY <1>0, <3>1 DEF Fields!FieldsAssumption
  <2>2. PICK t_speed \in Fields!Kmh(value) : Wrote(Fields!Item(t_speed, <<Fields!Icon>>, 0))
    BY <1>2 DEF Shown
  <2>3. /\ t_speed \in Nat /\ t_speed < M
        /\ t_speed * 1000 <= value * 36 /\ value * 36 <= (t_speed + 1) * 1000
    BY <2>1, <2>2 DEF Fields!Kmh
  <2>4. Fields!Number = t_speed
    <3>1. Fits(t_speed) /\ t_speed >= 0  BY <1>0, <2>3 DEF Fits
    <3> QED  BY <2>2, <3>1, ItemWhole DEF Wrote
  <2> QED  BY <2>3, <2>4
<1>3. ASSUME field = "voltage" PROVE Fields!Tenths /\ Fields!Number = value
  <2>1. value \in Nat /\ value < M
    <3>1. value \in Voltages  BY <1>3 DEF Shown
    <3>2. value \in Nat /\ value <= 655  BY <3>1 DEF Fields!FieldsAssumption
    <3>3. M > 655  BY <1>0
    <3> QED  BY <3>2, <3>3
  <2>2. Fits(value) /\ value >= 0 /\ Fields!Abs(value) = value  BY <1>0, <2>1 DEF Fits, Fields!Abs
  <2>3. writes = Fields!WriteString(Fields!Item(value, <<>>, 1), at) /\ <<>> \in Leads
    BY <1>3 DEF Shown, Wrote, Leads
  <2> QED  BY <2>2, <2>3, ItemTenths
<1>4. ASSUME field \in {"pitch", "roll", "yaw"}
      PROVE Fields!Number = Fields!Degrees(value) /\ (Fields!Negative <=> value < 0)
  <2>1. value \in Int /\ -M < value /\ value < M
    <3>1. value \in Angles  BY <1>4 DEF Shown
    <3> QED  BY <1>0, <3>1 DEF Fields!FieldsAssumption
  <2>2. CASE field = "pitch"
    <3>1. Fits(-value) /\ (-value > 0) \in BOOLEAN  BY <1>0, <2>1 DEF Fits
    <3>2. writes = Fields!WriteString(Fields!Angle(-value, -value > 0), at)
      BY <2>2 DEF Shown, Wrote
    <3>3. Fields!Number = Fields!Degrees(-value) /\ (Fields!Negative <=> -value > 0)
      BY <3>1, <3>2, AngleShown
    <3>4. Fields!Degrees(-value) = Fields!Degrees(value) /\ (-value > 0 <=> value < 0)
      BY <2>1 DEF Fields!Degrees, Fields!Abs
    <3> QED  BY Zenon, <3>3, <3>4
  <2>3. CASE field \in {"roll", "yaw"}
    <3>1. Fits(value) /\ (value < 0) \in BOOLEAN  BY <1>0, <2>1 DEF Fits
    <3>2. writes = Fields!WriteString(Fields!Angle(value, value < 0), at)
      BY <2>3 DEF Shown, Wrote
    <3>3. Fields!Number = Fields!Degrees(value) /\ (Fields!Negative <=> value < 0)
      BY <3>1, <3>2, AngleShown
    <3> QED  BY Zenon, <3>3
  <2> QED  BY <1>4, <2>2, <2>3
<1>5. field = "altitude" /\ value > -10 * (2^15 + 1) /\ value < 100 * 2^15 =>
        IF value > -100
        THEN Fields!Whole /\ ~Fields!Negative /\ Fields!Number = Fields!Abs(value) \div 100
        ELSE Fields!Tenths /\ Fields!Negative /\ Fields!Number = Fields!Abs(value) \div 10
  <2> HAVE field = "altitude" /\ value > -10 * (2^15 + 1) /\ value < 100 * 2^15
  <2> QED  BY Zenon, <1>1
<1>6. field = "speed" =>
        Fields!Number * 1000 <= value * 36 /\ value * 36 <= (Fields!Number + 1) * 1000
  BY Zenon, <1>2
<1>7. field = "voltage" => Fields!Tenths /\ Fields!Number = value
  BY Zenon, <1>3
<1>8. field \in {"pitch", "roll", "yaw"} =>
        Fields!Number = Fields!Degrees(value) /\ (Fields!Negative <=> value < 0)
  BY Zenon, <1>4
<1> QED  BY Zenon, <1>5, <1>6, <1>7, <1>8 DEF Fields!NumbersRead

(* A reader of the screen gets every number the display functions write, with its sign:
   heights while they fit an int, and every speed, voltage and angle. *)
THEOREM NumbersAreRead ==
  ASSUME Fields!FieldsAssumption PROVE Fields!Spec => []NumbersRead
<1>1. Shown /\ [Fields!Next]_(Fields!vars) => Shown'  BY ShownStep
<1>2. Shown => NumbersRead  BY ShownRead DEF NumbersRead
<1> QED  BY <1>1, <1>2, ShownInit, PTL DEF Fields!Spec

-----------------------------------------------------------------------------
LEMMA Product ==
  ASSUME NEW b \in Nat, NEW i \in Int, NEW j \in Int
  PROVE /\ b * i \in Int /\ b * (i + 1) = b * i + b
        /\ i < j => b * i + b <= b * j
<1>1. b * i \in Int /\ b * (i + 1) = b * i + b  OBVIOUS
<1>2. ASSUME i < j PROVE b * i + b <= b * j
  <2> DEFINE d == j - (i + 1)
  <2>1. d \in Nat /\ j = (i + 1) + d  BY <1>2
  <2> HIDE DEF d
  <2>2. b * d >= 0 /\ b * d \in Int  BY <2>1
  <2>3. b * j = b * (i + 1) + b * d  BY <2>1
  <2> QED  BY <1>1, <2>2, <2>3
<1> QED  BY <1>1, <1>2

(* Quotient and remainder are what they are by division. *)
LEMMA Division ==
  ASSUME NEW b \in Nat \ {0}, NEW q \in Nat, NEW r \in 0..(b - 1)
  PROVE (q * b + r) \div b = q /\ (q * b + r) % b = r
<1> DEFINE a == q * b + r
           d == a \div b
           m == a % b
<1>1. q * b \in Nat /\ a \in Nat  OBVIOUS
<1>2. d \in Nat /\ m \in 0..(b - 1) /\ a = b * d + m  BY <1>1
<1>3. q * b = b * q  OBVIOUS
<1>4. b * q + r = b * d + m  BY <1>2, <1>3
<1> HIDE DEF a, d, m
<1>5. ~(q < d)
  <2> SUFFICES ASSUME q < d PROVE FALSE  OBVIOUS
  <2>1. b * q + b <= b * d /\ b * q \in Int /\ b * d \in Int  BY <1>2, Product
  <2> QED  BY <1>2, <1>4, <2>1
<1>6. ~(d < q)
  <2> SUFFICES ASSUME d < q PROVE FALSE  OBVIOUS
  <2>1. b * d + b <= b * q /\ b * q \in Int /\ b * d \in Int  BY <1>2, Product
  <2> QED  BY <1>2, <1>4, <2>1
<1>7. q = d  BY <1>2, <1>5, <1>6
<1>8. b * q \in Int  OBVIOUS
<1>9. r = m  BY <1>2, <1>4, <1>7, <1>8
<1> QED  BY <1>7, <1>9 DEF a, d, m

(* The next character of a paragraph: in the same row, or at the beginning of the next. *)
LEMMA NextInParagraph ==
  ASSUME NEW b \in Nat \ {0}, NEW n \in Nat
  PROVE /\ n \div b \in Nat /\ n % b \in 0..(b - 1)
        /\ IF n % b = b - 1 THEN (n + 1) \div b = n \div b + 1 /\ (n + 1) % b = 0
                           ELSE (n + 1) \div b = n \div b /\ (n + 1) % b = (n % b) + 1
<1> DEFINE q == n \div b
           r == n % b
<1>1. q \in Nat /\ r \in 0..(b - 1) /\ n = b * q + r  OBVIOUS
<1>2. q * b = b * q /\ (q + 1) * b = b * q + b /\ q * b \in Nat  BY <1>1, Product
<1> HIDE DEF q, r
<1>3. CASE r = b - 1
  <2>1. n + 1 = (q + 1) * b + 0  BY <1>1, <1>2, <1>3
  <2>2. q + 1 \in Nat /\ 0 \in 0..(b - 1)  BY <1>1
  <2>3. ((q + 1) * b + 0) \div b = q + 1 /\ ((q + 1) * b + 0) % b = 0  BY Zenon, <2>2, Division
  <2>4. (n + 1) \div b = q + 1 /\ (n + 1) % b = 0  BY Zenon, <2>1, <2>3
  <2> QED  BY Zenon, <1>1, <1>3, <2>4 DEF q, r
<1>4. CASE r # b - 1
  <2>1. n + 1 = q * b + (r + 1)  BY <1>1, <1>2
  <2>2. r + 1 \in 0..(b - 1)  BY <1>1, <1>4
  <2>3. (n + 1) \div b = q /\ (n + 1) % b = r + 1  BY <1>1, <2>1, <2>2, Division
  <2> QED  BY Zenon, <1>1, <1>4, <2>3 DEF q, r
<1> QED  BY <1>3, <1>4

(* Rows go on at the top below the last one, and rows fewer than there are do not meet. *)
LEMMA RowsAround ==
  ASSUME NEW b \in Nat \ {0}, NEW n \in Nat
  PROVE /\ n % b \in 0..(b - 1)
        /\ (n + 1) % b = IF n % b = b - 1 THEN 0 ELSE (n % b) + 1
BY NextInParagraph

LEMMA RowsApart ==
  ASSUME NEW b \in Nat \ {0}, NEW n \in Nat, NEW i \in 0..(b - 1), NEW j \in 0..(b - 1),
         (n + i) % b = (n + j) % b
  PROVE i = j
<1> DEFINE p == (n + i) \div b
           q == (n + j) \div b
           r == (n + i) % b
<1>1. p \in Nat /\ q \in Nat /\ r \in 0..(b - 1) /\ n + i = b * p + r /\ n + j = b * q + r
  <2>1. n + i \in Nat /\ n + j \in Nat  OBVIOUS
  <2> QED  BY <2>1
<1> HIDE DEF p, q, r
<1>2. b * p \in Int /\ b * q \in Int  BY <1>1, Product
<1>3. CASE p < q
  <2>1. b * p + b <= b * q  BY <1>1, <1>3, Product
  <2> QED  BY <1>1, <1>2, <2>1
<1>4. CASE q < p
  <2>1. b * q + b <= b * p  BY <1>1, <1>4, Product
  <2> QED  BY <1>1, <1>2, <2>1
<1>5. CASE p = q  BY <1>1, <1>2, <1>5
<1> QED  BY <1>1, <1>3, <1>4, <1>5
-----------------------------------------------------------------------------
(* The layout of a text: where its paragraphs begin, and how many rows are above. *)
LEMMA BeginsNext ==
  ASSUME localData \in Seq(Nat), NEW i \in 1..Len(localData)
  PROVE /\ Text!Begins(1) = 0
        /\ Text!Begins(i + 1) = IF localData[i] = Text!NewLine THEN i ELSE Text!Begins(i)
<1>0. Len(localData) \in Nat  BY LenProperties
<1>1. Text!Breaks(1) = {} /\ Text!Begins(1) = 0  BY DEF Text!Breaks, Text!Begins
<1>2. CASE localData[i] = Text!NewLine
  <2>1. i \in Text!Breaks(i + 1) /\ \A c \in Text!Breaks(i + 1) : i >= c
    BY <1>0, <1>2 DEF Text!Breaks
  <2>2. \A b \in Text!Breaks(i + 1) : b \in Nat  BY DEF Text!Breaks
  <2>3. \A b \in Text!Breaks(i + 1) : (\A c \in Text!Breaks(i + 1) : b >= c) => b = i
    BY <2>1, <2>2
  <2>4. (CHOOSE b \in Text!Breaks(i + 1) : \A c \in Text!Breaks(i + 1) : b >= c) = i
    BY <2>1, <2>3
  <2>5. Text!Begins(i + 1) = i  BY <2>1, <2>4 DEF Text!Begins
  <2> QED  BY <1>1, <1>2, <2>5
<1>3. CASE localData[i] # Text!NewLine
  <2>1. Text!Breaks(i + 1) = Text!Breaks(i)  BY <1>0, <1>3 DEF Text!Breaks
  <2> DEFINE L(S) == IF S = {} THEN 0 ELSE CHOOSE b \in S : \A c \in S : b >= c
  <2>2. Text!Begins(i + 1) = L(Text!Breaks(i + 1)) /\ Text!Begins(i) = L(Text!Breaks(i))
    BY DEF Text!Begins
  <2> HIDE DEF L
  <2>3. Text!Begins(i + 1) = Text!Begins(i)  BY <2>1, <2>2
  <2> QED  BY <1>1, <1>3, <2>3
<1> QED  BY <1>2, <1>3

LEMMA InRowNext ==
  ASSUME localData \in Seq(Nat)
  PROVE /\ \A i \in 1..(Len(localData) + 1) : Text!InRow(i) \in Nat
        /\ Text!InRow(1) = 0
        /\ \A i \in 1..Len(localData) : Text!InRow(i + 1) = IF localData[i] = Text!NewLine THEN 0
                                                     ELSE Text!InRow(i) + 1
<1>0. Len(localData) \in Nat  BY LenProperties
<1> DEFINE T == {n \in Nat : n <= Len(localData) => Text!Begins(n + 1) \in Int /\ Text!InRow(n + 1) \in Nat}
<1>1. Text!Begins(1) = 0
  <2>1. Text!Breaks(1) = {}  BY DEF Text!Breaks
  <2> QED  BY <2>1 DEF Text!Begins
<1>2. Text!InRow(1) = 0  BY <1>1 DEF Text!InRow
<1>3. 0 \in T  BY <1>1, <1>2
<1>4. ASSUME NEW i \in 1..Len(localData), Text!Begins(i) \in Int
      PROVE Text!InRow(i + 1) = IF localData[i] = Text!NewLine THEN 0 ELSE Text!InRow(i) + 1
  BY <1>0, <1>4, BeginsNext DEF Text!InRow
<1>5. ASSUME NEW n \in Nat, n \in T PROVE n + 1 \in T
  <2> SUFFICES ASSUME n + 1 <= Len(localData)
               PROVE Text!Begins((n + 1) + 1) \in Int /\ Text!InRow((n + 1) + 1) \in Nat
    OBVIOUS
  <2>1. n + 1 \in 1..Len(localData) /\ n <= Len(localData)  BY <1>0
  <2>2. Text!Begins(n + 1) \in Int /\ Text!InRow(n + 1) \in Nat  BY <1>5, <2>1
  <2>3. Text!Begins((n + 1) + 1) \in Int  BY <2>1, <2>2, BeginsNext
  <2>4. Text!InRow((n + 1) + 1) \in Nat  BY <1>4, <2>1, <2>2
  <2> QED  BY <2>3, <2>4
<1>6. Nat \subseteq T
  <2> HIDE DEF T
  <2> QED  BY <1>3, <1>5, Induction
<1>7. \A i \in 1..(Len(localData) + 1) : Text!Begins(i) \in Int /\ Text!InRow(i) \in Nat
  <2> TAKE i \in 1..(Len(localData) + 1)
  <2>1. i - 1 \in Nat /\ i - 1 <= Len(localData) /\ (i - 1) + 1 = i  BY <1>0
  <2>2. i - 1 \in T  BY <1>6, <2>1
  <2> QED  BY <2>1, <2>2
<1>8. \A i \in 1..Len(localData) : i \in 1..(Len(localData) + 1)  BY <1>0
<1> QED  BY <1>2, <1>4, <1>7, <1>8

(* The rows above a character: those of the paragraphs that ended before it. *)
LEMMA RowsAboveNext ==
  ASSUME localData \in Seq(Nat), NEW i \in 1..Len(localData)
  PROVE /\ Text!RowsAbove(1) = 0
        /\ Text!RowsAbove(i + 1) = Text!RowsAbove(i) + (IF localData[i] = Text!NewLine THEN Text!RowsOf(i) ELSE 0)
<1> DEFINE R(j) == IF localData[j] = Text!NewLine THEN Text!RowsOf(j) ELSE 0
           Is(m, f) == f = [j \in 0..m |-> IF j = 0 THEN 0 ELSE f[j - 1] + R(j)]
           T == {m \in Nat : \E f : Is(m, f)}
<1>0. Len(localData) \in Nat  BY LenProperties
<1> HIDE DEF R
<1>1. 0 \in T
  <2>1. Is(0, [j \in 0..0 |-> 0])  OBVIOUS
  <2> HIDE DEF Is
  <2> QED  BY <2>1
<1>2. ASSUME NEW m \in Nat, m \in T PROVE m + 1 \in T
  <2>1. PICK f : Is(m, f)  BY <1>2
  <2> DEFINE g == [j \in 0..(m + 1) |-> IF j = m + 1 THEN f[m] + R(m + 1) ELSE f[j]]
  <2>2. ASSUME NEW j \in 0..(m + 1) PROVE g[j] = IF j = 0 THEN 0 ELSE g[j - 1] + R(j)
    <3>1. CASE j = m + 1
      <4>1. g[m + 1] = f[m] + R(m + 1) /\ g[m] = f[m]  OBVIOUS
      <4>2. j - 1 = m /\ j # 0  BY <3>1
      <4> HIDE DEF g
      <4> QED  BY <3>1, <4>1, <4>2
    <3>2. CASE j # m + 1
      <4>1. j \in 0..m  BY <3>2
      <4>2. f[j] = IF j = 0 THEN 0 ELSE f[j - 1] + R(j)  BY <2>1, <4>1
      <4>3. g[j] = f[j] /\ (j # 0 => g[j - 1] = f[j - 1])  BY <3>2
      <4> HIDE DEF g
      <4> QED  BY <4>2, <4>3
    <3> QED  BY <3>1, <3>2
  <2>3. Is(m + 1, g)  BY <2>2
  <2> HIDE DEF g, Is
  <2> QED  BY <2>3
<1>3. \E f : Is(Len(localData), f)
  <2>1. Nat \subseteq T
    <3> HIDE DEF T
    <3> QED BY <1>1, <1>2, Induction
  <2> QED  BY <1>0, <2>1
<1> DEFINE rows == CHOOSE f : Is(Len(localData), f)
<1>4. Is(Len(localData), rows)  BY <1>3
<1>5. \A j : Text!RowsAbove(j) = rows[j - 1]  BY DEF Text!RowsAbove, R
<1> HIDE DEF rows
<1>6. rows[0] = 0 /\ rows[i] = rows[i - 1] + R(i)
  <2>1. 0 \in 0..Len(localData) /\ i \in 0..Len(localData) /\ i # 0  BY <1>0
  <2> QED  BY <1>4, <2>1
<1> HIDE DEF Is
<1>7. 1 - 1 = 0 /\ (i + 1) - 1 = i  BY <1>0
<1>8. Text!RowsAbove(1) = 0 /\ Text!RowsAbove(i + 1) = Text!RowsAbove(i) + R(i)  BY <1>5, <1>6, <1>7
<1> QED  BY <1>8 DEF R

(* The row and the column of a character in the picture, both from 0. *)
Col(i) == Text!InRow(i) % Text!W
RowAt(i) == (at \div TextColumns + Text!RowOf(i)) % TextRows
RowBelow(r) == IF r = TextRows - 1 THEN 0 ELSE r + 1

LEMMA TextSize ==
  ASSUME Text!FieldsAssumption
  PROVE /\ TextColumns \in Nat /\ TextRows \in Nat \ {0}
        /\ Text!W \in Nat \ {0} /\ TextColumns = Text!W + 2
        /\ \A p \in TextPlaces : p \in Nat /\ p \div TextColumns \in Nat
<1>1. TextColumns \in Nat /\ TextColumns > 2 /\ TextRows \in Nat \ {0}  BY DEF Text!FieldsAssumption
<1>2. \A p \in TextPlaces : p \in Nat  BY DEF Text!FieldsAssumption
<1>3. Text!W \in Nat \ {0} /\ TextColumns = Text!W + 2  BY <1>1 DEF Text!W
<1> QED  BY <1>1, <1>2, <1>3

LEMMA RowOfType ==
  ASSUME Text!FieldsAssumption, localData \in Seq(Nat)
  PROVE /\ Text!RowOf(1) = 0
        /\ \A i \in 1..(Len(localData) + 1) : Text!RowsAbove(i) \in Nat /\ Text!RowOf(i) \in Nat
<1>0. Len(localData) \in Nat  BY LenProperties
<1>1. Text!W \in Nat \ {0}  BY TextSize
<1>2. \A i \in 1..(Len(localData) + 1) : Text!InRow(i) \in Nat /\ Text!InRow(i) \div Text!W \in Nat
  BY <1>1, InRowNext, NextInParagraph
<1> DEFINE T == {n \in Nat : n <= Len(localData) => Text!RowsAbove(n + 1) \in Nat}
<1>3. Text!RowsAbove(1) = 0
  <2>1. CASE Len(localData) = 0
    <3> DEFINE rows == CHOOSE rows : rows = [j \in 0..Len(localData) |->
                         IF j = 0 THEN 0 ELSE rows[j - 1] + (IF localData[j] = Text!NewLine THEN Text!RowsOf(j) ELSE 0)]
    <3>1. [j \in 0..0 |-> 0] = [j \in 0..Len(localData) |->
                         IF j = 0 THEN 0 ELSE [j0 \in 0..0 |-> 0][j - 1] + (IF localData[j] = Text!NewLine THEN Text!RowsOf(j) ELSE 0)]
      BY <2>1
    <3>2. rows = [j \in 0..Len(localData) |->
                         IF j = 0 THEN 0 ELSE rows[j - 1] + (IF localData[j] = Text!NewLine THEN Text!RowsOf(j) ELSE 0)]
      BY <3>1
    <3>3. Text!RowsAbove(1) = rows[0]  BY DEF Text!RowsAbove
    <3> HIDE DEF rows
    <3> QED  BY <2>1, <3>2, <3>3
  <2>2. CASE Len(localData) # 0
    <3>1. 1 \in 1..Len(localData)  BY <1>0, <2>2
    <3> QED  BY <3>1, RowsAboveNext
  <2> QED  BY <2>1, <2>2
<1>4. 0 \in T  BY <1>3
<1>5. ASSUME NEW n \in Nat, n \in T PROVE n + 1 \in T
  <2> SUFFICES ASSUME n + 1 <= Len(localData) PROVE Text!RowsAbove((n + 1) + 1) \in Nat
    OBVIOUS
  <2>1. n + 1 \in 1..Len(localData) /\ n + 1 \in 1..(Len(localData) + 1) /\ n <= Len(localData)  BY <1>0
  <2>2. Text!RowsAbove(n + 1) \in Nat  BY <1>5, <2>1
  <2>3. Text!RowsOf(n + 1) = (Text!InRow(n + 1) \div Text!W) + 1  BY DEF Text!RowsOf, Text!InRow
  <2>4. Text!InRow(n + 1) \div Text!W \in Nat  BY <1>2, <2>1
  <2>5. Text!RowsAbove((n + 1) + 1)
          = Text!RowsAbove(n + 1) + (IF localData[n + 1] = Text!NewLine THEN Text!RowsOf(n + 1) ELSE 0)
    BY <2>1, RowsAboveNext
  <2> QED  BY <2>2, <2>3, <2>4, <2>5
<1>6. Nat \subseteq T
  <2> HIDE DEF T
  <2> QED  BY <1>4, <1>5, Induction
<1>7. \A i \in 1..(Len(localData) + 1) : Text!RowsAbove(i) \in Nat
  <2> TAKE i \in 1..(Len(localData) + 1)
  <2>1. i - 1 \in Nat /\ i - 1 <= Len(localData) /\ (i - 1) + 1 = i  BY <1>0
  <2>2. i - 1 \in T  BY <1>6, <2>1
  <2> QED  BY <2>1, <2>2
<1>8. Text!RowOf(1) = 0
  <2>1. Text!InRow(1) = 0  BY InRowNext
  <2>2. 0 \div Text!W = 0
    <3>1. (0 * Text!W + 0) \div Text!W = 0
      <4>1. 0 \in Nat /\ 0 \in 0..(Text!W - 1)  BY <1>1
      <4> QED  BY <1>1, <4>1, Division
    <3>2. 0 * Text!W + 0 = 0  BY <1>1
    <3> QED  BY <3>1, <3>2
  <2> QED  BY <1>3, <2>1, <2>2 DEF Text!RowOf
<1> QED  BY <1>2, <1>7, <1>8 DEF Text!RowOf

(* From a character to the next one: one column on, or at the beginning of the row below,
   after a line break and after the last column. *)
LEMMA CellNext ==
  ASSUME Text!FieldsAssumption, localData \in Seq(Nat), at \div TextColumns \in Nat, NEW i \in 1..Len(localData)
  PROVE /\ Col(i) \in 0..(Text!W - 1) /\ RowAt(i) \in 0..(TextRows - 1)
        /\ Col(i + 1) \in 0..(Text!W - 1) /\ RowAt(i + 1) \in 0..(TextRows - 1)
        /\ IF localData[i] = Text!NewLine \/ Col(i) = Text!W - 1
           THEN /\ Text!RowOf(i + 1) = Text!RowOf(i) + 1 /\ Col(i + 1) = 0
                /\ RowAt(i + 1) = RowBelow(RowAt(i))
           ELSE /\ Text!RowOf(i + 1) = Text!RowOf(i) /\ Col(i + 1) = Col(i) + 1
                /\ RowAt(i + 1) = RowAt(i)
<1>0. Len(localData) \in Nat /\ i \in 1..(Len(localData) + 1) /\ i + 1 \in 1..(Len(localData) + 1)  BY LenProperties
<1>1. Text!W \in Nat \ {0} /\ TextRows \in Nat \ {0}  BY TextSize
<1> DEFINE n == Text!InRow(i)
           m == Text!InRow(i + 1)
           q == n \div Text!W
           a == Text!RowsAbove(i)
           b == at \div TextColumns
<1>2. n \in Nat /\ m \in Nat
  <2>1. Text!InRow(i) \in Nat  BY <1>0, InRowNext
  <2>2. Text!InRow(i + 1) \in Nat  BY <1>0, InRowNext
  <2> QED  BY <2>1, <2>2
<1>21. m = IF localData[i] = Text!NewLine THEN 0 ELSE n + 1  BY <1>0, InRowNext
<1>3. a \in Nat /\ Text!RowOf(i) \in Nat /\ Text!RowOf(i + 1) \in Nat  BY <1>0, RowOfType
<1>4. Text!RowsAbove(i + 1) = a + (IF localData[i] = Text!NewLine THEN q + 1 ELSE 0)
  BY <1>0, RowsAboveNext DEF Text!RowsOf, Text!InRow
<1>5. Text!RowOf(i) = a + q  BY DEF Text!RowOf
<1>8. b \in Nat  OBVIOUS
<1>10. Col(i) = n % Text!W /\ Col(i + 1) = m % Text!W  BY DEF Col
<1>11. Text!RowOf(i + 1) = Text!RowsAbove(i + 1) + (m \div Text!W)  BY DEF Text!RowOf
<1> HIDE DEF n, m, a, b
<1>6. /\ q \in Nat /\ n % Text!W \in 0..(Text!W - 1)
      /\ IF n % Text!W = Text!W - 1
         THEN (n + 1) \div Text!W = q + 1 /\ (n + 1) % Text!W = 0
         ELSE (n + 1) \div Text!W = q /\ (n + 1) % Text!W = (n % Text!W) + 1
  BY Zenon, <1>1, <1>2, NextInParagraph
<1>61. m % Text!W \in 0..(Text!W - 1)  BY Zenon, <1>1, <1>2, NextInParagraph
<1>7. 0 \div Text!W = 0 /\ 0 % Text!W = 0
  <2>1. (0 * Text!W + 0) \div Text!W = 0 /\ (0 * Text!W + 0) % Text!W = 0
    <3>1. 0 \in Nat /\ 0 \in 0..(Text!W - 1)  BY <1>1
    <3> QED  BY <1>1, <3>1, Division
  <2>2. 0 * Text!W + 0 = 0  BY <1>1
  <2> QED  BY <2>1, <2>2
<1> HIDE DEF q
<1>9. /\ RowAt(i) \in 0..(TextRows - 1) /\ RowAt(i + 1) \in 0..(TextRows - 1)
      /\ (b + Text!RowOf(i) + 1) % TextRows = RowBelow(RowAt(i))
  <2>1. b + Text!RowOf(i) \in Nat /\ b + Text!RowOf(i + 1) \in Nat  BY <1>3, <1>8
  <2> QED  BY <1>1, <2>1, RowsAround DEF RowAt, RowBelow, b
<1>12. ASSUME Text!RowOf(i + 1) = Text!RowOf(i) + 1 PROVE RowAt(i + 1) = RowBelow(RowAt(i))
  <2>1. b + (Text!RowOf(i) + 1) = b + Text!RowOf(i) + 1  BY <1>3, <1>8
  <2> QED  BY <1>9, <1>12, <2>1 DEF RowAt, b
<1>13. ASSUME Text!RowOf(i + 1) = Text!RowOf(i) PROVE RowAt(i + 1) = RowAt(i)
  BY <1>13 DEF RowAt
<1>14. CASE localData[i] = Text!NewLine
  <2>0. m = 0  BY <1>21, <1>14
  <2>1. m \div Text!W = 0 /\ m % Text!W = 0  BY Zenon, <1>7, <2>0
  <2>2. Text!RowsAbove(i + 1) = a + (q + 1)  BY <1>4, <1>14
  <2> DEFINE d == m \div Text!W
  <2>3. d = 0 /\ Text!RowOf(i + 1) = Text!RowsAbove(i + 1) + d  BY Zenon, <2>1, <1>11 DEF d
  <2> HIDE DEF d
  <2>4. Text!RowOf(i + 1) = Text!RowOf(i) + 1  BY <1>3, <1>5, <1>6, <2>2, <2>3
  <2>5. Col(i + 1) = 0  BY Zenon, <2>1, <1>10
  <2>6. RowAt(i + 1) = RowBelow(RowAt(i))  BY Zenon, <1>12, <2>4
  <2> QED  BY Zenon, <1>6, <1>61, <1>9, <1>10, <1>14, <2>4, <2>5, <2>6
<1>15. CASE localData[i] # Text!NewLine
  <2>0. m = n + 1  BY <1>21, <1>15
  <2>1. Text!RowsAbove(i + 1) = a  BY <1>3, <1>4, <1>15
  <2> DEFINE d == m \div Text!W
  <2>2. Text!RowOf(i + 1) = a + d  BY Zenon, <2>1, <1>11 DEF d
  <2>3. CASE Col(i) = Text!W - 1
    <3>1. n % Text!W = Text!W - 1  BY Zenon, <2>3, <1>10
    <3>2. (n + 1) \div Text!W = q + 1 /\ (n + 1) % Text!W = 0  BY Zenon, <3>1, <1>6
    <3>3. d = q + 1 /\ Col(i + 1) = 0  BY Zenon, <3>2, <2>0, <1>10 DEF d
    <3> HIDE DEF d
    <3>4. Text!RowOf(i + 1) = Text!RowOf(i) + 1  BY <1>3, <1>5, <1>6, <2>2, <3>3
    <3>6. RowAt(i + 1) = RowBelow(RowAt(i))  BY Zenon, <1>12, <3>4
    <3> QED  BY Zenon, <1>6, <1>61, <1>9, <1>10, <2>3, <3>3, <3>4, <3>6
  <2>4. CASE Col(i) # Text!W - 1
    <3>1. n % Text!W # Text!W - 1  BY Zenon, <2>4, <1>10
    <3>2. (n + 1) \div Text!W = q /\ (n + 1) % Text!W = (n % Text!W) + 1  BY Zenon, <3>1, <1>6
    <3>3. d = q /\ Col(i + 1) = Col(i) + 1  BY Zenon, <3>2, <2>0, <1>10 DEF d
    <3> HIDE DEF d
    <3>4. Text!RowOf(i + 1) = Text!RowOf(i)  BY <1>3, <1>5, <1>6, <2>2, <3>3
    <3>6. RowAt(i + 1) = RowAt(i)  BY Zenon, <1>13, <3>4
    <3> QED  BY Zenon, <1>6, <1>61, <1>9, <1>10, <1>15, <2>4, <3>3, <3>4, <3>6
  <2> QED  BY Zenon, <2>3, <2>4
<1> QED  BY Zenon, <1>14, <1>15

(* Characters come one after the other, in a row and from row to row. *)
Before(i, j) ==
  \/ Text!RowOf(i) < Text!RowOf(j)
  \/ Text!RowOf(i) = Text!RowOf(j) /\ Col(i) < Col(j)

LEMMA InOrder ==
  ASSUME Text!FieldsAssumption, localData \in Seq(Nat), at \div TextColumns \in Nat,
         NEW j \in 1..Len(localData), NEW i \in 1..Len(localData), i < j
  PROVE Before(i, j)
<1> DEFINE T == {n \in Nat : n + 1 <= Len(localData) => \A k \in 1..n : Before(k, n + 1)}
<1>0. Len(localData) \in Nat  BY LenProperties
<1>1. 0 \in T  OBVIOUS
<1>2. ASSUME NEW n \in Nat, n \in T PROVE n + 1 \in T
  <2> SUFFICES ASSUME (n + 1) + 1 <= Len(localData), NEW k \in 1..(n + 1) PROVE Before(k, (n + 1) + 1)
    OBVIOUS
  <2> DEFINE m == n + 1
  <2>0. n + 1 <= Len(localData) /\ m \in 1..Len(localData)  BY <1>0
  <2>1. /\ Col(m) \in 0..(Text!W - 1)
        /\ IF localData[m] = Text!NewLine \/ Col(m) = Text!W - 1
           THEN Text!RowOf(m + 1) = Text!RowOf(m) + 1 /\ Col(m + 1) = 0
           ELSE Text!RowOf(m + 1) = Text!RowOf(m) /\ Col(m + 1) = Col(m) + 1
    BY Zenon, <2>0, CellNext
  <2>2. Text!RowOf(m) \in Nat
    <3>1. m \in 1..(Len(localData) + 1)  BY <1>0, <2>0
    <3> QED  BY <3>1, RowOfType
  <2>3. Before(m, m + 1)
    <3>1. Text!W \in Nat  BY TextSize
    <3> HIDE DEF m
    <3> QED  BY <2>1, <2>2, <3>1 DEF Before
  <2>4. CASE k = m  BY <2>3, <2>4
  <2>5. CASE k # m
    <3>1. k \in 1..n /\ k \in 1..Len(localData) /\ k \in 1..(Len(localData) + 1)  BY <1>0, <2>0, <2>5
    <3>2. Before(k, m)  BY <1>2, <2>0, <3>1
    <3>3. Text!RowOf(k) \in Nat  BY <3>1, RowOfType
    <3>4. Text!RowOf(m + 1) \in Nat
      <4>1. m + 1 \in 1..(Len(localData) + 1)  BY <1>0, <2>0
      <4> QED  BY <4>1, RowOfType
    <3>5. Col(k) \in 0..(Text!W - 1)  BY Zenon, <3>1, CellNext
    <3>6. Col(m + 1) \in 0..(Text!W - 1)  BY Zenon, <2>0, CellNext
    <3>7. Text!W \in Nat  BY TextSize
    <3>8. Col(k) \in Int /\ Col(m) \in Int /\ Col(m + 1) \in Int  BY <2>1, <3>5, <3>6, <3>7
    <3> HIDE DEF m
    <3>9. Before(k, m + 1)  BY <2>2, <2>3, <3>2, <3>3, <3>4, <3>8 DEF Before
    <3> QED  BY <3>9 DEF m
  <2> QED  BY <2>4, <2>5
<1>3. j - 1 \in T
  <2>1. j - 1 \in Nat  OBVIOUS
  <2> HIDE DEF T
  <2> QED  BY <1>1, <1>2, <2>1, Induction
<1>4. (j - 1) + 1 = j /\ i \in 1..(j - 1) /\ j <= Len(localData)  BY <1>0
<1> QED  BY <1>3, <1>4

(* The end of a text: its terminator, or its last character. *)
LEMMA UptoIs ==
  ASSUME field = "message", localData \in Seq(Nat)
  PROVE /\ Text!Upto \in 0..Len(localData)
        /\ \A i \in 1..Text!Upto : localData[i] # Text!Nul
        /\ Text!Upto < Len(localData) => localData[Text!Upto + 1] = Text!Nul
<1>0. Len(localData) \in Nat /\ DOMAIN localData = 1..Len(localData)  BY LenProperties
<1> DEFINE ends == {i \in DOMAIN localData : localData[i] = Text!Nul}
<1>1. CASE ends = {}
  <2>1. Text!Upto = Len(localData)  BY <1>1 DEF Text!Upto
  <2> QED  BY <1>0, <1>1, <2>1
<1>2. CASE ends # {}
  <2>1. ends \in SUBSET Nat  BY <1>0
  <2>2. \E m \in ends : \A n \in ends : m <= n
    <3> HIDE DEF ends
    <3> QED  BY <1>2, <2>1, LeastOf
  <2> DEFINE e == CHOOSE i \in ends : \A j \in ends : i <= j
  <2>3. e \in ends /\ \A j \in ends : e <= j  BY <2>2
  <2>4. Text!Upto = e - 1  BY <1>2 DEF Text!Upto
  <2> HIDE DEF e
  <2>5. e \in 1..Len(localData) /\ localData[e] = Text!Nul  BY <1>0, <2>3
  <2>6. \A i \in 1..(e - 1) : localData[i] # Text!Nul  BY <1>0, <2>3, <2>5
  <2>7. (e - 1) + 1 = e /\ e - 1 \in 0..Len(localData)  BY <1>0, <2>5
  <2> QED  BY <2>4, <2>5, <2>6, <2>7
<1> QED  BY <1>1, <1>2

-----------------------------------------------------------------------------
(* The cursor that types the text, from character to character. *)
Types(c) ==
  /\ c[0] = Text!Cursor((at \div TextColumns) * TextColumns, 0)
  /\ \A i \in 1..Len(localData) : c[i] = Text!Character(c[i - 1], localData[i])

LEMMA TypedIs ==
  ASSUME localData \in Seq(Nat)
  PROVE \E c : Types(c) /\ Text!Typed(at, localData) = c[Len(localData)].out
<1> DEFINE start == Text!Cursor((at \div TextColumns) * TextColumns, 0)
           C(k, j) == Text!Character(k, localData[j])
           Is(m, f) == f = [j \in 0..m |-> IF j = 0 THEN start ELSE C(f[j - 1], j)]
           T == {m \in Nat : \E f : Is(m, f)}
<1>0. Len(localData) \in Nat  BY LenProperties
<1> HIDE DEF C, start
<1>1. 0 \in T
  <2>1. Is(0, [j \in 0..0 |-> start])  OBVIOUS
  <2> HIDE DEF Is
  <2> QED  BY <2>1
<1>2. ASSUME NEW m \in Nat, m \in T PROVE m + 1 \in T
  <2>1. PICK f : Is(m, f)  BY <1>2
  <2> DEFINE g == [j \in 0..(m + 1) |-> IF j = m + 1 THEN C(f[m], m + 1) ELSE f[j]]
  <2>2. ASSUME NEW j \in 0..(m + 1) PROVE g[j] = IF j = 0 THEN start ELSE C(g[j - 1], j)
    <3>1. CASE j = m + 1
      <4>1. g[m + 1] = C(f[m], m + 1) /\ g[m] = f[m]  OBVIOUS
      <4>2. j - 1 = m /\ j # 0  BY <3>1
      <4> HIDE DEF g
      <4> QED  BY <3>1, <4>1, <4>2
    <3>2. CASE j # m + 1
      <4>1. j \in 0..m  BY <3>2
      <4>2. f[j] = IF j = 0 THEN start ELSE C(f[j - 1], j)  BY <2>1, <4>1
      <4>3. g[j] = f[j] /\ (j # 0 => g[j - 1] = f[j - 1])  BY <3>2
      <4> HIDE DEF g
      <4> QED  BY <4>2, <4>3
    <3> QED  BY <3>1, <3>2
  <2>3. Is(m + 1, g)  BY <2>2
  <2> HIDE DEF g, Is
  <2> QED  BY <2>3
<1>3. \E f : Is(Len(localData), f)
  <2>1. Nat \subseteq T
    <3> HIDE DEF T
    <3> QED BY <1>1, <1>2, Induction
  <2> QED  BY <1>0, <2>1
<1> DEFINE typed == CHOOSE f : Is(Len(localData), f)
<1>4. Is(Len(localData), typed)  BY <1>3
<1>5. Text!Typed(at, localData) = typed[Len(localData)].out  BY DEF Text!Typed, C, start
<1> HIDE DEF typed
<1>6. typed[0] = start  BY <1>0, <1>4
<1>7. \A i \in 1..Len(localData) : typed[i] = C(typed[i - 1], i)
  <2> TAKE i \in 1..Len(localData)
  <2>1. i \in 0..Len(localData) /\ i # 0  BY <1>0
  <2> QED  BY <1>4, <2>1
<1> HIDE DEF Is
<1>8. Types(typed)  BY <1>6, <1>7 DEF Types, C, start
<1> QED  BY <1>5, <1>8

(* What the steps of the cursor do. *)
Rec(p, k, e, o) == [pos |-> p, count |-> k, ended |-> e, out |-> o]

LEMMA RecIs ==
  ASSUME NEW p, NEW k, NEW e, NEW o, NEW x \in [pos: {p}, count: {k}, ended: {e}, out: {o}]
  PROVE x = Rec(p, k, e, o)
BY DEF Rec

LEMMA StepIs ==
  ASSUME NEW p, NEW k, NEW e, NEW o
  PROVE Text!Step(Rec(p, k, e, o)) = Rec(p + 1, k + 1, e, o)
<1> DEFINE c == Rec(p, k, e, o)
           a == p + 1
           b == k + 1
<1>1. c.pos = p /\ c.count = k  BY DEF Rec
<1>2. Text!Step(c) = [c EXCEPT !.pos = a, !.count = b]  BY Zenon, <1>1 DEF Text!Step
<1> HIDE DEF a, b
<1>3. [c EXCEPT !.pos = a, !.count = b] \in [pos: {a}, count: {b}, ended: {e}, out: {o}]
  BY DEF Rec
<1>4. [c EXCEPT !.pos = a, !.count = b] = Rec(a, b, e, o)  BY <1>3, RecIs
<1> QED  BY Zenon, <1>2, <1>4 DEF a, b

LEMMA ShowIs ==
  ASSUME NEW p, NEW k, NEW e, NEW o, NEW ch
  PROVE Text!Show(Rec(p, k, e, o), ch)
          = Rec(p, k, e, Append(o, [at |-> p, ch |-> Text!symbolValidation(ch)]))
BY DEF Rec, Text!Show

LEMMA EndIs ==
  ASSUME NEW p, NEW k, NEW e, NEW o
  PROVE [Rec(p, k, e, o) EXCEPT !.ended = TRUE] = Rec(p, k, TRUE, o)
<1>1. ASSUME NEW t PROVE [Rec(p, k, e, o) EXCEPT !.ended = t] = Rec(p, k, t, o)  BY DEF Rec
<1> QED  BY Zenon, <1>1

LEMMA RowBelowIs ==
  ASSUME Text!FieldsAssumption, NEW r \in 0..(TextRows - 1)
  PROVE /\ RowBelow(r) \in 0..(TextRows - 1)
        /\ LET below == r * TextColumns + TextColumns
           IN (IF below >= TextColumns * TextRows - 1 THEN 0 ELSE below)
                = RowBelow(r) * TextColumns
<1>1. TextColumns \in Nat /\ TextColumns > 2 /\ TextRows \in Nat \ {0}
  BY DEF Text!FieldsAssumption
<1> DEFINE below == r * TextColumns + TextColumns
<1>2. r * TextColumns = TextColumns * r /\ TextColumns * r \in Int
      /\ TextColumns * TextRows \in Int /\ TextColumns * (r + 1) \in Int
      /\ TextColumns * (r + 1) = TextColumns * r + TextColumns
      /\ (r + 1) * TextColumns = TextColumns * (r + 1)
  BY <1>1, Product
<1>3. CASE r = TextRows - 1
  <2>1. r + 1 = TextRows  BY <1>1, <1>3
  <2>2. below = TextColumns * TextRows  BY <1>2, <2>1
  <2>3. below >= TextColumns * TextRows - 1  BY <1>2, <2>2
  <2>4. RowBelow(r) = 0 /\ 0 * TextColumns = 0  BY <1>1, <1>3 DEF RowBelow
  <2> QED  BY <1>1, <2>3, <2>4
<1>4. CASE r # TextRows - 1
  <2>1. r + 1 \in 0..(TextRows - 1) /\ r + 1 < TextRows /\ r + 1 \in Int  BY <1>1, <1>4
  <2>2. TextColumns * (r + 1) + TextColumns <= TextColumns * TextRows  BY <1>1, <2>1, Product
  <2>3. below = TextColumns * (r + 1)  BY <1>2
  <2>4. ~(below >= TextColumns * TextRows - 1)
    <3> HIDE DEF below
    <3> QED  BY <1>1, <1>2, <2>2, <2>3
  <2>5. RowBelow(r) = r + 1  BY <1>4 DEF RowBelow
  <2>6. below = RowBelow(r) * TextColumns  BY <1>2, <2>3, <2>5
  <2> QED  BY <2>1, <2>4, <2>5, <2>6
<1> QED  BY <1>3, <1>4

LEMMA BreakIs ==
  ASSUME Text!FieldsAssumption, NEW r \in 0..(TextRows - 1), NEW m \in 0..(TextColumns - 1),
         NEW p, p = r * TextColumns + m, NEW k, NEW o
  PROVE Text!Break(Rec(p, k, FALSE, o)) = Rec(RowBelow(r) * TextColumns, 0, FALSE, o)
<1>1. TextColumns \in Nat \ {0} /\ TextRows \in Nat  BY DEF Text!FieldsAssumption
<1>2. r \in Nat  BY <1>1
<1>3. (r * TextColumns + m) \div TextColumns = r  BY Zenon, <1>1, <1>2, Division
<1> DEFINE below == r * TextColumns + TextColumns
           c == Rec(p, k, FALSE, o)
           new == IF below >= TextColumns * TextRows - 1 THEN 0 ELSE below
<1>4. c.pos = p  BY DEF Rec
<1>5. (c.pos \div TextColumns) * TextColumns + TextColumns = below  BY Zenon, <1>3, <1>4
<1>6. Text!Break(c) = [c EXCEPT !.pos = new, !.count = 0]  BY Zenon, <1>5 DEF Text!Break, new
<1>7. new = RowBelow(r) * TextColumns  BY RowBelowIs
<1> HIDE DEF new
<1>8. [c EXCEPT !.pos = new, !.count = 0] = Rec(new, 0, FALSE, o)
  <2>1. [c EXCEPT !.pos = new, !.count = 0] \in [pos: {new}, count: {0}, ended: {FALSE}, out: {o}]
    BY DEF Rec
  <2> QED  BY <2>1, RecIs
<1> QED  BY Zenon, <1>6, <1>7, <1>8

LEMMA RoomIs ==
  ASSUME NEW p, NEW k, NEW e, NEW o
  PROVE Text!Room(Rec(p, k, e, o)) = IF k = Text!W THEN Text!Break(Rec(p, k, e, o))
                                                   ELSE Rec(p, k, e, o)
<1>1. Text!Full(Rec(p, k, e, o)) <=> k = Text!W  BY DEF Text!Full, Text!W, Rec
<1> QED  BY Zenon, <1>1 DEF Text!Room

-----------------------------------------------------------------------------
(* What the cursor has written: one entry of every printed character so far, in order. *)
Entry(j) == [at |-> Text!Cell(j), ch |-> Text!symbolValidation(localData[j])]
Entries == {Entry(j) : j \in 1..Len(localData)}
Drawn(i) == {j \in 1..i : localData[j] # Text!NewLine}
Ordered(f, i, n) == /\ f \in [1..n -> Drawn(i)]
                    /\ \A a, b \in 1..n : a < b => f[a] < f[b]
                    /\ \A j \in Drawn(i) : \E a \in 1..n : f[a] = j
Lists(i, o) == /\ o \in Seq(Entries)
               /\ \E f : Ordered(f, i, Len(o)) /\ \A a \in 1..Len(o) : o[a] = Entry(f[a])

LEMMA ListsNothing == Lists(0, <<>>)
<1>1. <<>> \in Seq(Entries) /\ Len(<<>>) = 0  OBVIOUS
<1>2. Ordered(<<>>, 0, 0)
  <2>1. <<>> \in [1..0 -> Drawn(0)]  OBVIOUS
  <2>2. Drawn(0) = {}  BY DEF Drawn
  <2> QED  BY <2>1, <2>2 DEF Ordered
<1> QED  BY <1>1, <1>2 DEF Lists

LEMMA ListsBreak ==
  ASSUME NEW i \in Nat, NEW o, Lists(i, o), localData[i + 1] = Text!NewLine
  PROVE Lists(i + 1, o)
<1>1. Drawn(i + 1) = Drawn(i)  BY DEF Drawn
<1> QED  BY <1>1 DEF Lists, Ordered

LEMMA ListsPrinted ==
  ASSUME localData \in Seq(Nat), NEW i \in Nat, i + 1 <= Len(localData), NEW o, Lists(i, o),
         localData[i + 1] # Text!NewLine
  PROVE Lists(i + 1, Append(o, Entry(i + 1)))
<1> DEFINE n == Len(o)
           new == Append(o, Entry(i + 1))
<1>0. Len(localData) \in Nat  BY LenProperties
<1>1. o \in Seq(Entries)  BY DEF Lists
<1>2. PICK f : Ordered(f, i, n) /\ \A a \in 1..n : o[a] = Entry(f[a])  BY DEF Lists
<1>3. n \in Nat  BY <1>1, LenProperties
<1>4. Entry(i + 1) \in Entries
  <2>1. i + 1 \in 1..Len(localData)  BY <1>0
  <2> QED  BY <2>1 DEF Entries
<1>5. /\ new \in Seq(Entries) /\ Len(new) = n + 1 /\ new[n + 1] = Entry(i + 1)
      /\ \A a \in 1..n : new[a] = o[a]
  <2> HIDE DEF Entries, Entry
  <2> QED  BY <1>1, <1>4, AppendProperties
<1> HIDE DEF n, new
<1> DEFINE g == [a \in 1..(n + 1) |-> IF a = n + 1 THEN i + 1 ELSE f[a]]
<1>6. /\ f \in [1..n -> Drawn(i)]
      /\ \A a, b \in 1..n : a < b => f[a] < f[b]
      /\ \A j \in Drawn(i) : \E a \in 1..n : f[a] = j
  BY <1>2 DEF Ordered
<1>7. Drawn(i + 1) = Drawn(i) \cup {i + 1} /\ Drawn(i) \subseteq 1..i  BY DEF Drawn
<1>8. g[n + 1] = i + 1 /\ \A a \in 1..n : g[a] = f[a] /\ f[a] \in Drawn(i) /\ f[a] \in 1..i
  BY <1>3, <1>6, <1>7
<1>9. Ordered(g, i + 1, n + 1)
  <2>1. g \in [1..(n + 1) -> Drawn(i + 1)]
    <3>1. ASSUME NEW a \in 1..(n + 1)
          PROVE (IF a = n + 1 THEN i + 1 ELSE f[a]) \in Drawn(i + 1)
      <4>1. CASE a = n + 1  BY <1>7, <4>1
      <4>2. CASE a # n + 1
        <5>1. a \in 1..n  BY <1>3, <4>2
        <5> QED  BY <1>7, <1>8, <4>2, <5>1
      <4> QED  BY <4>1, <4>2
    <3> QED  BY <3>1
  <2>2. ASSUME NEW a \in 1..(n + 1), NEW b \in 1..(n + 1), a < b PROVE g[a] < g[b]
    <3>1. a \in 1..n  BY <1>3, <2>2
    <3> HIDE DEF g
    <3>2. CASE b = n + 1  BY <1>8, <3>1, <3>2
    <3>3. CASE b # n + 1
      <4>1. b \in 1..n  BY <1>3, <3>3
      <4> QED  BY <1>6, <1>8, <2>2, <3>1, <4>1
    <3> QED  BY <3>2, <3>3
  <2>3. ASSUME NEW j \in Drawn(i + 1) PROVE \E a \in 1..(n + 1) : g[a] = j
    <3> HIDE DEF g
    <3>1. CASE j = i + 1
      <4>1. n + 1 \in 1..(n + 1)  BY <1>3
      <4> QED  BY <1>8, <3>1, <4>1
    <3>2. CASE j \in Drawn(i)
      <4>1. PICK a \in 1..n : f[a] = j  BY <1>6, <3>2
      <4>2. a \in 1..(n + 1) /\ g[a] = j  BY <1>3, <1>8, <4>1
      <4> QED  BY <4>2
    <3> QED  BY <1>7, <3>1, <3>2
  <2> HIDE DEF g
  <2> QED  BY <2>1, <2>2, <2>3 DEF Ordered
<1> HIDE DEF g
<1>10. \A a \in 1..(n + 1) : new[a] = Entry(g[a])
  <2> TAKE a \in 1..(n + 1)
  <2>1. CASE a = n + 1  BY <1>5, <1>8, <2>1
  <2>2. CASE a # n + 1
    <3>1. a \in 1..n  BY <1>3, <2>2
    <3>2. new[a] = o[a] /\ o[a] = Entry(f[a]) /\ g[a] = f[a]  BY <1>2, <1>5, <1>8, <3>1
    <3> QED  BY Zenon, <3>2
  <2> QED  BY <2>1, <2>2
<1>11. Lists(i + 1, new)  BY <1>5, <1>9, <1>10 DEF Lists
<1> QED  BY <1>11 DEF new

-----------------------------------------------------------------------------
(* Before the i-th character and after making room for it, the cursor stands in its row, at
   the column before its cell. *)
Place(i, o) == Rec(RowAt(i) * TextColumns + Col(i), Col(i), FALSE, o)
Follows(i, c) == \E p, k, o : /\ c = Rec(p, k, FALSE, o) /\ Lists(i, o)
                              /\ Text!Room(c) = Place(i + 1, o)

(* At the beginning of a row nothing makes room. *)
LEMMA NewRow ==
  ASSUME Text!FieldsAssumption, NEW p, NEW o
  PROVE Text!Room(Rec(p, 0, FALSE, o)) = Rec(p, 0, FALSE, o)
<1>1. 0 # Text!W  BY TextSize
<1> QED  BY Zenon, <1>1, RoomIs

LEMMA FollowsFirst ==
  ASSUME Text!FieldsAssumption, localData \in Seq(Nat), at \in TextPlaces
  PROVE Follows(0, Text!Cursor((at \div TextColumns) * TextColumns, 0))
<1> DEFINE r == at \div TextColumns
           p == r * TextColumns
<1>0. TextColumns \in Nat \ {0} /\ TextRows \in Nat \ {0} /\ at \in 0..(TextColumns * TextRows - 1)
  BY DEF Text!FieldsAssumption
<1>1. r \in 0..(TextRows - 1)
  <2>1. r \in Nat /\ at = TextColumns * r + (at % TextColumns)
        /\ at % TextColumns \in 0..(TextColumns - 1)
    BY <1>0
  <2> HIDE DEF r
  <2>2. TextColumns * r \in Int /\ TextColumns * TextRows \in Int  BY <1>0, <2>1, Product
  <2>3. ~(TextRows <= r)
    <3> SUFFICES ASSUME TextRows <= r PROVE FALSE  OBVIOUS
    <3>1. TextRows = r \/ TextRows < r  BY <1>0, <2>1
    <3>2. TextColumns * TextRows <= TextColumns * r
      <4>1. CASE TextRows = r  BY <2>2, <4>1
      <4>2. CASE TextRows < r
        <5>1. TextColumns * TextRows + TextColumns <= TextColumns * r
          BY <1>0, <2>1, <4>2, Product
        <5> QED  BY <1>0, <2>2, <5>1
      <4> QED  BY <3>1, <4>1, <4>2
    <3> DEFINE x == TextColumns * r
               y == TextColumns * TextRows
               m == at % TextColumns
    <3>3. x \in Int /\ y \in Int /\ y <= x /\ at \in 0..(y - 1) /\ at = x + m /\ m \in Int /\ m >= 0
      BY <1>0, <2>1, <2>2, <3>2
    <3> HIDE DEF x, y, m
    <3> QED  BY <3>3
  <2> QED  BY <1>0, <2>1, <2>3
<1>2. RowAt(1) = r
  <2>1. Text!RowOf(1) = 0  BY RowOfType
  <2>2. r + 0 = r /\ r \in Nat  BY <1>1
  <2>3. (0 * TextRows + r) % TextRows = r
    <3>1. 0 \in Nat  OBVIOUS
    <3> HIDE DEF r
    <3> QED  BY Zenon, <1>0, <1>1, <3>1, Division
  <2>4. 0 * TextRows + r = r  BY <1>0, <2>2
  <2> QED  BY Zenon, <2>1, <2>2, <2>3, <2>4 DEF RowAt
<1>3. Col(1) = 0
  <2>1. Text!W \in Nat \ {0}  BY TextSize
  <2>2. (0 * Text!W + 0) % Text!W = 0
    <3>1. 0 \in Nat /\ 0 \in 0..(Text!W - 1)  BY <2>1
    <3> QED  BY Zenon, <2>1, <3>1, Division
  <2>3. 0 * Text!W + 0 = 0  BY <2>1
  <2>4. Text!InRow(1) = 0  BY InRowNext
  <2> QED  BY Zenon, <2>2, <2>3, <2>4 DEF Col
<1>4. Text!Cursor(p, 0) = Rec(p, 0, FALSE, <<>>)  BY DEF Rec, Text!Cursor
<1>5. p + 0 = p
  <2>1. p \in Int  BY <1>0, <1>1
  <2> HIDE DEF p
  <2> QED  BY <2>1
<1>6. 0 + 1 = 1  OBVIOUS
<1>7. Place(0 + 1, <<>>) = Rec(p, 0, FALSE, <<>>)  BY Zenon, <1>2, <1>3, <1>5, <1>6 DEF Place, p
<1>8. Text!Room(Rec(p, 0, FALSE, <<>>)) = Rec(p, 0, FALSE, <<>>)  BY NewRow
<1> HIDE DEF p
<1>9. Follows(0, Rec(p, 0, FALSE, <<>>))  BY <1>7, <1>8, ListsNothing DEF Follows
<1> QED  BY Zenon, <1>4, <1>9 DEF p

(* The cell of a character, and the row and column the cursor is in after it. *)
LEMMA CellIs ==
  ASSUME Text!FieldsAssumption, localData \in Seq(Nat), at \in TextPlaces, NEW i \in 1..Len(localData)
  PROVE /\ RowAt(i) * TextColumns \in Nat /\ Col(i) \in 0..(Text!W - 1)
        /\ Text!Cell(i) = RowAt(i) * TextColumns + Col(i) + 1
<1>1. TextColumns \in Nat /\ Text!W \in Nat \ {0} /\ TextRows \in Nat \ {0}  BY TextSize
<1>2. at \div TextColumns \in Nat  BY TextSize
<1>3. Col(i) \in 0..(Text!W - 1)  BY Zenon, <1>2, CellNext
<1>4. RowAt(i) \in 0..(TextRows - 1)  BY Zenon, <1>2, CellNext
<1>5. RowAt(i) * TextColumns \in Nat
  <2> DEFINE r == RowAt(i)
  <2>1. r \in Nat  BY <1>1, <1>4
  <2> HIDE DEF r
  <2>2. r * TextColumns \in Nat  BY <1>1, <2>1
  <2> QED  BY <2>2 DEF r
<1>6. Text!Cell(i) = RowAt(i) * TextColumns + 1 + Col(i)  BY DEF Text!Cell, RowAt, Col
<1> DEFINE x == RowAt(i) * TextColumns
<1>7. x + 1 + Col(i) = x + Col(i) + 1
  <2> HIDE DEF x
  <2> QED  BY <1>1, <1>3, <1>5 DEF x
<1> QED  BY Zenon, <1>3, <1>5, <1>6, <1>7

(* A line break: the cursor goes to the beginning of the row below. *)
LEMMA FollowsBreak ==
  ASSUME Text!FieldsAssumption, localData \in Seq(Nat), at \in TextPlaces,
         NEW i \in Nat, i + 1 <= Len(localData), NEW c, Follows(i, c),
         localData[i + 1] = Text!NewLine
  PROVE Follows(i + 1, Text!Character(c, localData[i + 1]))
<1> DEFINE j == i + 1
           R == RowAt(j)
<1>0. Len(localData) \in Nat  BY LenProperties
<1>1. j \in 1..Len(localData) /\ at \div TextColumns \in Nat  BY <1>0, TextSize
<1>2. PICK p, k, o : c = Rec(p, k, FALSE, o) /\ Lists(i, o) /\ Text!Room(c) = Place(j, o)
  BY DEF Follows
<1>3. ~c.ended  BY <1>2 DEF Rec
<1>4. Text!Character(c, localData[i + 1]) = Text!Break(Place(j, o))
  <2>1. Text!Character(c, Text!NewLine) = Text!Break(Text!Room(c))
    BY <1>3 DEF Text!Character, Text!NewLine, Text!Nul
  <2> QED  BY Zenon, <1>2, <2>1
<1>5. /\ Col(j) \in 0..(Text!W - 1) /\ RowAt(j) \in 0..(TextRows - 1)
      /\ Col(j + 1) = 0 /\ RowAt(j + 1) = RowBelow(RowAt(j))
  BY Zenon, <1>1, CellNext
<1>6. Col(j) \in 0..(TextColumns - 1)
  <2>1. Text!W \in Nat /\ TextColumns = Text!W + 2  BY TextSize
  <2> QED  BY <1>5, <2>1
<1> DEFINE b == RowBelow(R) * TextColumns
<1>7. Text!Break(Place(j, o)) = Rec(b, 0, FALSE, o)
  <2> DEFINE m == Col(j)
  <2>1. R \in 0..(TextRows - 1) /\ m \in 0..(TextColumns - 1)  BY <1>5, <1>6
  <2> DEFINE y == R * TextColumns + m
  <2>2. Place(j, o) = Rec(y, m, FALSE, o) /\ y = R * TextColumns + m  BY DEF Place
  <2> HIDE DEF R, m, y
  <2>3. Text!Break(Rec(y, m, FALSE, o)) = Rec(RowBelow(R) * TextColumns, 0, FALSE, o)
    BY <2>1, <2>2, BreakIs
  <2> QED  BY Zenon, <2>2, <2>3 DEF R
<1>8. Text!Room(Rec(b, 0, FALSE, o)) = Rec(b, 0, FALSE, o)  BY NewRow
<1>9. b + 0 = b
  <2>1. TextColumns \in Nat /\ TextRows \in Nat \ {0}  BY TextSize
  <2>2. RowBelow(R) \in 0..(TextRows - 1)  BY Zenon, <1>5, RowBelowIs
  <2>3. RowBelow(R) \in Int  BY <2>1, <2>2
  <2> DEFINE rb == RowBelow(R)
  <2> HIDE DEF rb
  <2>4. rb * TextColumns + 0 = rb * TextColumns  BY <2>1, <2>3 DEF rb
  <2> QED  BY <2>4 DEF rb
<1>10. Place(j + 1, o) = Rec(b, 0, FALSE, o)  BY Zenon, <1>5, <1>9 DEF Place
<1>11. Lists(j, o)  BY <1>2, ListsBreak
<1>12. Follows(j, Rec(b, 0, FALSE, o))
  <2> HIDE DEF b, j
  <2> QED  BY <1>8, <1>10, <1>11 DEF Follows
<1> QED  BY Zenon, <1>4, <1>7, <1>12

(* A character that is printed: it is listed at its cell, and the cursor is behind it. *)
LEMMA FollowsPrinted ==
  ASSUME Text!FieldsAssumption, localData \in Seq(Nat), at \in TextPlaces,
         NEW i \in Nat, i + 1 <= Len(localData), NEW c, Follows(i, c),
         localData[i + 1] # Text!NewLine, localData[i + 1] # Text!Nul
  PROVE Follows(i + 1, Text!Character(c, localData[i + 1]))
<1> DEFINE j == i + 1
           R == RowAt(j)
           ch == localData[i + 1]
           q == R * TextColumns + Col(j) + 1
           n == Col(j) + 1
<1>0. Len(localData) \in Nat  BY LenProperties
<1>1. j \in 1..Len(localData) /\ at \div TextColumns \in Nat  BY <1>0, TextSize
<1>2. PICK p, k, o : c = Rec(p, k, FALSE, o) /\ Lists(i, o) /\ Text!Room(c) = Place(j, o)
  BY DEF Follows
<1>3. ~c.ended  BY <1>2 DEF Rec
<1>4. Text!Character(c, ch) = Text!Show(Text!Step(Place(j, o)), ch)
  BY <1>2, <1>3 DEF Text!Character
<1>5. Text!Step(Place(j, o)) = Rec(q, n, FALSE, o)
  <2> DEFINE m == Col(j)
             y == R * TextColumns + m
  <2>1. Place(j, o) = Rec(y, m, FALSE, o) /\ q = y + 1 /\ n = m + 1  BY DEF Place
  <2> HIDE DEF y, m, q, n
  <2> QED  BY <2>1, StepIs
<1> DEFINE new == Append(o, Entry(j))
<1>6. Text!Show(Rec(q, n, FALSE, o), ch) = Rec(q, n, FALSE, new)
  <2>1. Text!Cell(j) = q  BY Zenon, <1>1, CellIs
  <2>2. Entry(j) = [at |-> q, ch |-> Text!symbolValidation(ch)]  BY Zenon, <2>1 DEF Entry
  <2>3. Text!Show(Rec(q, n, FALSE, o), ch)
          = Rec(q, n, FALSE, Append(o, [at |-> q, ch |-> Text!symbolValidation(ch)]))
    <3>1. \A a, b, s, e : Text!Show(Rec(a, b, FALSE, s), e)
            = Rec(a, b, FALSE, Append(s, [at |-> a, ch |-> Text!symbolValidation(e)]))
      BY ShowIs
    <3> HIDE DEF ch, q, n
    <3> QED  BY Zenon, <3>1
  <2> QED  BY Zenon, <2>2, <2>3
<1>7. Lists(j, new)  BY <1>1, <1>2, ListsPrinted
<1>8. /\ Col(j) \in 0..(Text!W - 1) /\ RowAt(j) \in 0..(TextRows - 1)
      /\ IF Col(j) = Text!W - 1
         THEN Col(j + 1) = 0 /\ RowAt(j + 1) = RowBelow(RowAt(j))
         ELSE Col(j + 1) = Col(j) + 1 /\ RowAt(j + 1) = RowAt(j)
  BY Zenon, <1>1, CellNext
<1>9. TextColumns \in Nat /\ Text!W \in Nat \ {0} /\ TextColumns = Text!W + 2 /\ TextRows \in Nat \ {0}
  BY TextSize
<1>10. R * TextColumns \in Nat  BY Zenon, <1>1, CellIs
<1> DEFINE x == R * TextColumns
<1>11. q = x + n /\ n \in 1..Text!W /\ (n = Text!W <=> Col(j) = Text!W - 1)
  <2> DEFINE m == Col(j)
  <2>1. x \in Nat /\ m \in 0..(Text!W - 1) /\ Text!W \in Nat \ {0}  BY <1>8, <1>9, <1>10
  <2> HIDE DEF x, m
  <2>2. x + m + 1 = x + (m + 1) /\ m + 1 \in 1..Text!W /\ (m + 1 = Text!W <=> m = Text!W - 1)
    BY <2>1
  <2> QED  BY Zenon, <2>2 DEF x, m
<1>12. Text!Room(Rec(q, n, FALSE, new)) = Place(j + 1, new)
  <2>1. CASE n = Text!W
    <3>1. n \in 0..(TextColumns - 1)  BY <1>9, <1>11
    <3>2. Text!Room(Rec(q, n, FALSE, new)) = Text!Break(Rec(q, n, FALSE, new))
      BY Zenon, <2>1, RoomIs
    <3> DEFINE b == RowBelow(R) * TextColumns
    <3>3. Text!Break(Rec(x + n, n, FALSE, new)) = Rec(b, 0, FALSE, new)
      <4> DEFINE y == x + n
      <4>1. R \in 0..(TextRows - 1) /\ y = R * TextColumns + n  BY <1>8
      <4> HIDE DEF n, new, R, x, y
      <4>2. Text!Break(Rec(y, n, FALSE, new)) = Rec(RowBelow(R) * TextColumns, 0, FALSE, new)
        BY <3>1, <4>1, BreakIs
      <4> QED  BY Zenon, <4>2 DEF y
    <3>4. b + 0 = b
      <4>1. RowBelow(R) \in 0..(TextRows - 1)  BY Zenon, <1>8, RowBelowIs
      <4>2. RowBelow(R) \in Int  BY <1>9, <4>1
      <4> DEFINE rb == RowBelow(R)
      <4> HIDE DEF rb
      <4>3. rb * TextColumns + 0 = rb * TextColumns  BY <1>9, <4>2 DEF rb
      <4> QED  BY <4>3 DEF rb
    <3>5. Col(j) = Text!W - 1  BY <2>1, <1>11
    <3>6. Place(j + 1, new) = Rec(b, 0, FALSE, new)  BY Zenon, <1>8, <3>4, <3>5 DEF Place
    <3> QED  BY Zenon, <1>11, <3>2, <3>3, <3>6
  <2>2. CASE n # Text!W
    <3>1. Text!Room(Rec(q, n, FALSE, new)) = Rec(q, n, FALSE, new)  BY Zenon, <2>2, RoomIs
    <3>2. Col(j) # Text!W - 1  BY <2>2, <1>11
    <3>3. Place(j + 1, new) = Rec(x + n, n, FALSE, new)  BY Zenon, <1>8, <3>2 DEF Place
    <3> QED  BY Zenon, <1>11, <3>1, <3>3
  <2> QED  BY Zenon, <2>1, <2>2
<1>13. Follows(j, Rec(q, n, FALSE, new))
  <2> HIDE DEF j, q, n, new
  <2> QED  BY <1>7, <1>12 DEF Follows
<1> QED  BY Zenon, <1>4, <1>5, <1>6, <1>13

(* The cursor follows the text up to its end, and writes nothing behind it. *)
LEMMA FollowsText ==
  ASSUME Text!FieldsAssumption, field = "message", localData \in Seq(Nat), at \in TextPlaces,
         NEW c, Types(c)
  PROVE Follows(Text!Upto, c[Text!Upto])
<1> DEFINE T == {n \in Nat : n <= Text!Upto => Follows(n, c[n])}
<1>0. Len(localData) \in Nat /\ Text!Upto \in 0..Len(localData)  BY LenProperties, UptoIs
<1>1. 0 \in T
  <2>1. Follows(0, c[0])
    <3>1. c[0] = Text!Cursor((at \div TextColumns) * TextColumns, 0)  BY DEF Types
    <3> QED  BY Zenon, <3>1, FollowsFirst
  <2> QED  BY <2>1
<1>2. ASSUME NEW n \in Nat, n \in T PROVE n + 1 \in T
  <2> SUFFICES ASSUME n + 1 <= Text!Upto PROVE Follows(n + 1, c[n + 1])  OBVIOUS
  <2>1. Follows(n, c[n])  BY <1>0, <1>2
  <2>2. n + 1 <= Len(localData) /\ n + 1 \in 1..Len(localData) /\ n + 1 \in 1..Text!Upto  BY <1>0
  <2>3. c[n + 1] = Text!Character(c[n], localData[n + 1])
    <3>1. c[n + 1] = Text!Character(c[(n + 1) - 1], localData[n + 1])  BY <2>2 DEF Types
    <3>2. (n + 1) - 1 = n  OBVIOUS
    <3> QED  BY Zenon, <3>1, <3>2
  <2>4. localData[n + 1] # Text!Nul  BY <2>2, UptoIs
  <2>5. CASE localData[n + 1] = Text!NewLine  BY Zenon, <2>1, <2>2, <2>3, <2>5, FollowsBreak
  <2>6. CASE localData[n + 1] # Text!NewLine  BY Zenon, <2>1, <2>2, <2>3, <2>4, <2>6, FollowsPrinted
  <2> QED  BY <2>5, <2>6
<1>3. Nat \subseteq T
  <2> HIDE DEF T
  <2> QED  BY <1>1, <1>2, Induction
<1> QED  BY <1>0, <1>3

LEMMA TypedLists ==
  ASSUME Text!FieldsAssumption, field = "message", localData \in Seq(Nat), at \in TextPlaces
  PROVE Lists(Text!Upto, Text!Typed(at, localData))
<1>0. Len(localData) \in Nat /\ Text!Upto \in 0..Len(localData)  BY LenProperties, UptoIs
<1>1. PICK c : Types(c) /\ Text!Typed(at, localData) = c[Len(localData)].out  BY TypedIs
<1> DEFINE u == Text!Upto
<1>2. PICK p, k, o : /\ c[u] = Rec(p, k, FALSE, o) /\ Lists(u, o)
                     /\ Text!Room(c[u]) = Place(u + 1, o)
  BY <1>1, FollowsText DEF Follows
<1>3. CASE u = Len(localData)
  <2>1. c[u].out = o  BY <1>2 DEF Rec
  <2> QED  BY <1>1, <1>2, <1>3, <2>1
<1>4. CASE u # Len(localData)
  <2>1. u + 1 \in 1..Len(localData) /\ u < Len(localData)  BY <1>0, <1>4
  <2>2. localData[u + 1] = Text!Nul  BY <2>1, UptoIs
  <2>3. c[u + 1] = Text!Character(c[u], Text!Nul)
    <3>1. c[u + 1] = Text!Character(c[(u + 1) - 1], localData[u + 1])  BY <1>1, <2>1 DEF Types
    <3>2. (u + 1) - 1 = u  BY <1>0
    <3> QED  BY Zenon, <2>2, <3>1, <3>2
  <2>4. \E a, b : c[u + 1] = Rec(a, b, TRUE, o)
    <3>1. ~c[u].ended  BY <1>2 DEF Rec
    <3>2. Text!Character(c[u], Text!Nul) = [Text!Step(Text!Room(c[u])) EXCEPT !.ended = TRUE]
      BY <3>1 DEF Text!Character, Text!NewLine, Text!Nul
    <3>3. \E a, b : Text!Step(Place(u + 1, o)) = Rec(a, b, FALSE, o)
      <4> DEFINE x == RowAt(u + 1) * TextColumns + Col(u + 1)
                 y == Col(u + 1)
      <4>1. Place(u + 1, o) = Rec(x, y, FALSE, o)  BY DEF Place
      <4> HIDE DEF x, y
      <4>2. Text!Step(Rec(x, y, FALSE, o)) = Rec(x + 1, y + 1, FALSE, o)  BY StepIs
      <4> QED  BY Zenon, <4>1, <4>2
    <3>4. PICK a, b : Text!Step(Place(u + 1, o)) = Rec(a, b, FALSE, o)  BY <3>3
    <3>5. [Rec(a, b, FALSE, o) EXCEPT !.ended = TRUE] = Rec(a, b, TRUE, o)  BY EndIs
    <3>6. c[u + 1] = Rec(a, b, TRUE, o)  BY Zenon, <1>2, <2>3, <3>2, <3>4, <3>5
    <3> QED  BY <3>6
  <2>5. c[u + 1].ended /\ c[u + 1].out = o  BY <2>4 DEF Rec
  <2> DEFINE T == {n \in Nat : u + 1 + n <= Len(localData) => c[u + 1 + n] = c[u + 1]}
  <2>6. 0 \in T  BY <1>0
  <2>7. ASSUME NEW n \in Nat, n \in T PROVE n + 1 \in T
    <3> SUFFICES ASSUME u + 1 + (n + 1) <= Len(localData) PROVE c[u + 1 + (n + 1)] = c[u + 1]
      OBVIOUS
    <3> DEFINE i == u + 1 + (n + 1)
    <3>1. i \in 1..Len(localData) /\ i - 1 = u + 1 + n /\ u + 1 + n <= Len(localData)  BY <1>0
    <3>2. c[u + 1 + n] = c[u + 1]  BY <2>7, <3>1
    <3>3. c[i] = Text!Character(c[i - 1], localData[i])  BY <1>1, <3>1 DEF Types
    <3>4. c[i] = Text!Character(c[u + 1], localData[i])  BY Zenon, <3>1, <3>2, <3>3
    <3>5. Text!Character(c[u + 1], localData[i]) = c[u + 1]  BY <2>5 DEF Text!Character
    <3> QED  BY <3>4, <3>5
  <2>8. Nat \subseteq T
    <3> HIDE DEF T
    <3> QED  BY <2>6, <2>7, Induction
  <2>9. c[Len(localData)] = c[u + 1]
    <3>1. Len(localData) - (u + 1) \in Nat /\ u + 1 + (Len(localData) - (u + 1)) = Len(localData)
      BY <1>0, <2>1
    <3>2. Len(localData) - (u + 1) \in T  BY <2>8, <3>1
    <3> QED  BY <1>0, <3>1, <3>2
  <2> QED  BY <1>1, <1>2, <2>5, <2>9
<1> QED  BY <1>3, <1>4

-----------------------------------------------------------------------------
(* What is on the screen of a text are its printed characters, each at its cell. *)
LEMMA LaidOut ==
  ASSUME Text!FieldsAssumption, field = "message", localData \in Seq(Nat), at \in TextPlaces,
         writes = Text!Typed(at, localData)
  PROVE Text!MessageLaidOut
<1> DEFINE u == Text!Upto
<1>1. Lists(u, writes)  BY TypedLists
<1>2. PICK f : Ordered(f, u, Len(writes)) /\ \A a \in 1..Len(writes) : writes[a] = Entry(f[a])
  BY <1>1 DEF Lists
<1>3. DOMAIN writes = 1..Len(writes)  BY <1>1, LenProperties DEF Lists
<1>4. Text!Printed = Drawn(u)  BY DEF Text!Printed, Drawn
<1>5. /\ f \in [1..Len(writes) -> Drawn(u)]
      /\ \A j \in Drawn(u) : \E a \in 1..Len(writes) : f[a] = j
  BY <1>2 DEF Ordered
<1> HIDE DEF u
<1>6. {Entry(j) : j \in Drawn(u)} = {writes[a] : a \in DOMAIN writes}
  <2>1. ASSUME NEW j \in Drawn(u) PROVE \E a \in DOMAIN writes : Entry(j) = writes[a]
    BY <1>2, <1>3, <1>5
  <2>2. ASSUME NEW a \in DOMAIN writes PROVE \E j \in Drawn(u) : writes[a] = Entry(j)
    BY <1>2, <1>3, <1>5
  <2> QED  BY <2>1, <2>2
<1> QED  BY Zenon, <1>4, <1>6 DEF Text!MessageLaidOut, Entry

(* Two characters with the same cell are a whole picture of rows apart. *)
LEMMA SameCell ==
  ASSUME Text!FieldsAssumption, localData \in Seq(Nat), at \in TextPlaces,
         NEW i \in 1..Len(localData), NEW j \in 1..Len(localData), i < j,
         Text!RowOf(i) < TextRows, Text!RowOf(j) < TextRows
  PROVE Text!Cell(i) # Text!Cell(j)
<1> SUFFICES ASSUME Text!Cell(i) = Text!Cell(j) PROVE FALSE  OBVIOUS
<1> DEFINE b == at \div TextColumns
<1>0. Len(localData) \in Nat  BY LenProperties
<1>1. /\ TextColumns \in Nat \ {0} /\ Text!W \in Nat \ {0} /\ TextColumns = Text!W + 2
      /\ TextRows \in Nat \ {0}
  BY TextSize
<1>2. b \in Nat  BY TextSize
<1>3. /\ RowAt(i) * TextColumns \in Nat /\ Col(i) \in 0..(Text!W - 1)
      /\ Text!Cell(i) = RowAt(i) * TextColumns + Col(i) + 1
  BY Zenon, CellIs
<1>4. /\ RowAt(j) * TextColumns \in Nat /\ Col(j) \in 0..(Text!W - 1)
      /\ Text!Cell(j) = RowAt(j) * TextColumns + Col(j) + 1
  BY Zenon, CellIs
<1>5. RowAt(i) \in 0..(TextRows - 1) /\ RowAt(j) \in 0..(TextRows - 1)
  BY Zenon, <1>2, CellNext
<1>6. RowAt(i) = RowAt(j) /\ Col(i) = Col(j)
  <2> DEFINE r == RowAt(i)
             s == RowAt(j)
             m == Col(i)
             n == Col(j)
             x == r * TextColumns
             y == s * TextColumns
  <2>0. /\ r \in 0..(TextRows - 1) /\ s \in 0..(TextRows - 1)
        /\ m \in 0..(Text!W - 1) /\ n \in 0..(Text!W - 1) /\ x \in Nat /\ y \in Nat
        /\ x + m + 1 = y + n + 1
    BY Zenon, <1>3, <1>4, <1>5
  <2> HIDE DEF r, s, m, n, x, y
  <2>1. /\ r \in Nat /\ s \in Nat
        /\ m \in 0..(TextColumns - 1) /\ n \in 0..(TextColumns - 1)
    BY <1>1, <2>0
  <2>3. /\ (r * TextColumns + m) \div TextColumns = r /\ (r * TextColumns + m) % TextColumns = m
    BY Zenon, <1>1, <2>1, Division
  <2>4. /\ (s * TextColumns + n) \div TextColumns = s /\ (s * TextColumns + n) % TextColumns = n
    BY Zenon, <1>1, <2>1, Division
  <2>5. x + m = y + n  BY <1>1, <2>0
  <2> QED  BY Zenon, <2>3, <2>4, <2>5 DEF r, s, m, n, x, y
<1>7. Text!RowOf(i) \in Nat /\ Text!RowOf(j) \in Nat
  <2>1. i \in 1..(Len(localData) + 1) /\ j \in 1..(Len(localData) + 1)  BY <1>0
  <2> QED  BY <2>1, RowOfType
<1>8. Text!RowOf(i) = Text!RowOf(j)
  <2> DEFINE p == Text!RowOf(i)
             q == Text!RowOf(j)
  <2>1. p \in 0..(TextRows - 1) /\ q \in 0..(TextRows - 1)  BY <1>1, <1>7
  <2>2. (b + p) % TextRows = (b + q) % TextRows  BY Zenon, <1>6 DEF RowAt
  <2> HIDE DEF p, q, b
  <2>3. p = q  BY <1>1, <1>2, <2>1, <2>2, RowsApart
  <2> QED  BY <2>3 DEF p, q
<1>9. Before(i, j)  BY <1>2, InOrder
<1>10. Col(i) \in Int  BY <1>1, <1>3
<1> QED  BY <1>6, <1>7, <1>8, <1>9, <1>10 DEF Before

LEMMA IsWhole ==
  ASSUME Text!FieldsAssumption, field = "message", localData \in Seq(Nat), at \in TextPlaces,
         writes = Text!Typed(at, localData)
  PROVE Text!MessageWhole
<1> DEFINE u == Text!Upto
<1> SUFFICES ASSUME \A i \in Text!Printed : Text!RowOf(i) < TextRows,
                    NEW i \in DOMAIN writes, NEW j \in DOMAIN writes, i # j
             PROVE writes[i].at # writes[j].at
  BY DEF Text!MessageWhole
<1>0. Len(localData) \in Nat /\ u \in 0..Len(localData)  BY LenProperties, UptoIs
<1>1. Lists(u, writes)  BY TypedLists
<1>2. PICK f : Ordered(f, u, Len(writes)) /\ \A a \in 1..Len(writes) : writes[a] = Entry(f[a])
  BY <1>1 DEF Lists
<1>3. DOMAIN writes = 1..Len(writes) /\ Len(writes) \in Nat  BY <1>1, LenProperties DEF Lists
<1>4. Text!Printed = Drawn(u) /\ Drawn(u) \subseteq 1..Len(localData)
  BY <1>0 DEF Text!Printed, Drawn
<1>5. /\ f \in [1..Len(writes) -> Drawn(u)]
      /\ \A a, b \in 1..Len(writes) : a < b => f[a] < f[b]
  BY <1>2 DEF Ordered
<1> HIDE DEF u
<1>6. ASSUME NEW a \in 1..Len(writes)
      PROVE f[a] \in 1..Len(localData) /\ Text!RowOf(f[a]) < TextRows /\ writes[a].at = Text!Cell(f[a])
  <2>1. f[a] \in Drawn(u)  BY <1>5
  <2>2. writes[a] = Entry(f[a])  BY <1>2
  <2>3. Entry(f[a]).at = Text!Cell(f[a])  BY DEF Entry
  <2> QED  BY <1>4, <2>1, <2>2, <2>3
<1>7. ASSUME NEW a \in 1..Len(writes), NEW b \in 1..Len(writes), a < b
      PROVE writes[a].at # writes[b].at
  <2>1. f[a] < f[b]  BY <1>5, <1>7
  <2>2. Text!Cell(f[a]) # Text!Cell(f[b])  BY <1>6, <2>1, SameCell
  <2> QED  BY <1>6, <2>2
<1>8. i < j \/ j < i  BY <1>3
<1> QED  BY <1>3, <1>7, <1>8

(* What a text put on the screen stays what its cursor typed, until it is sent. *)
Typing == field = "message" =>
            localData \in Texts /\ at \in TextPlaces /\ writes = Text!Typed(at, localData)

LEMMA TypingStep ==
  ASSUME Typing, [Text!Next]_(Text!vars)
  PROVE Typing'
<1>1. CASE Text!Sent  BY <1>1 DEF Text!Sent, Typing
<1>2. ASSUME NEW p \in TextPlaces, NEW v, NEW f, NEW written, f # "message",
             Text!DrawNumber(f, p, v, written)
      PROVE Typing'
  BY <1>2 DEF Text!DrawNumber, Text!Draw, Typing
<1>3. ASSUME NEW p \in TextPlaces, NEW v \in 0..2, Text!Status(p, v) \/ Text!Control(p, v)
      PROVE Typing'
  BY Zenon, <1>2, <1>3 DEF Text!Status, Text!Control
<1>4. ASSUME NEW p \in TextPlaces, NEW text \in Texts, Text!Message(p, text) PROVE Typing'
  BY <1>4 DEF Text!Message, Text!Draw, Typing
<1>5. CASE UNCHANGED Text!vars  BY <1>5 DEF Text!vars, Typing
<1> QED  BY <1>1, <1>3, <1>4, <1>5 DEF Text!Next

(* Any text, with line breaks, full rows and an end wherever they are, is laid out as
   paragraphs from the row it is placed in, on a picture of any size; and one that has no
   more rows than the picture is whole. *)
THEOREM TextIsLaidOut ==
  ASSUME Text!FieldsAssumption PROVE Text!Spec => []MessageLaidOut
<1>1. Text!Init => Typing  BY DEF Text!Init, Typing
<1>2. Typing /\ [Text!Next]_(Text!vars) => Typing'  BY TypingStep
<1>3. Typing => MessageLaidOut
  <2> SUFFICES ASSUME Typing PROVE Text!MessageLaidOut /\ Text!MessageWhole
    BY DEF MessageLaidOut
  <2>1. CASE field = "message"
    <3>1. localData \in Seq(Nat) /\ at \in TextPlaces /\ writes = Text!Typed(at, localData)
      BY <2>1 DEF Typing, Text!FieldsAssumption
    <3> QED  BY <2>1, <3>1, LaidOut, IsWhole
  <2>2. CASE field # "message"  BY <2>2 DEF Text!MessageLaidOut, Text!MessageWhole
  <2> QED  BY <2>1, <2>2
<1> QED  BY <1>1, <1>2, <1>3, PTL DEF Text!Spec

-----------------------------------------------------------------------------
(* Where the fields of a message end: each one its size after the one before it. *)
Measured(fields) ==
  /\ Len(fields) \in Nat /\ DOMAIN fields = 1..Len(fields)
  /\ \A i \in 1..Len(fields) : fields[i].size \in Nat

LEMMA EndsIs ==
  ASSUME NEW fields, Measured(fields)
  PROVE /\ Wire!Ends(fields)[0] = 0
        /\ \A i \in 1..Len(fields) : Wire!Ends(fields)[i] = Wire!Ends(fields)[i - 1] + fields[i].size
<1> DEFINE R(i) == fields[i].size
           Is(m, f) == f = [i \in 0..m |-> IF i = 0 THEN 0 ELSE f[i - 1] + R(i)]
           T == {m \in Nat : \E f : Is(m, f)}
<1>0. Len(fields) \in Nat  BY DEF Measured
<1> HIDE DEF R
<1>1. 0 \in T
  <2>1. Is(0, [i \in 0..0 |-> 0])  OBVIOUS
  <2> HIDE DEF Is
  <2> QED  BY <2>1
<1>2. ASSUME NEW m \in Nat, m \in T PROVE m + 1 \in T
  <2>1. PICK f : Is(m, f)  BY <1>2
  <2> DEFINE g == [i \in 0..(m + 1) |-> IF i = m + 1 THEN f[m] + R(m + 1) ELSE f[i]]
  <2>2. ASSUME NEW i \in 0..(m + 1) PROVE g[i] = IF i = 0 THEN 0 ELSE g[i - 1] + R(i)
    <3>1. CASE i = m + 1
      <4>1. g[m + 1] = f[m] + R(m + 1) /\ g[m] = f[m]  OBVIOUS
      <4>2. i - 1 = m /\ i # 0  BY <3>1
      <4> HIDE DEF g
      <4> QED  BY <3>1, <4>1, <4>2
    <3>2. CASE i # m + 1
      <4>1. i \in 0..m  BY <3>2
      <4>2. f[i] = IF i = 0 THEN 0 ELSE f[i - 1] + R(i)  BY <2>1, <4>1
      <4>3. g[i] = f[i] /\ (i # 0 => g[i - 1] = f[i - 1])  BY <3>2
      <4> HIDE DEF g
      <4> QED  BY <4>2, <4>3
    <3> QED  BY <3>1, <3>2
  <2>3. Is(m + 1, g)  BY <2>2
  <2> HIDE DEF g, Is
  <2> QED  BY <2>3
<1>3. \E f : Is(Len(fields), f)
  <2>1. Nat \subseteq T
    <3> HIDE DEF T
    <3> QED  BY <1>1, <1>2, Induction
  <2> QED  BY <1>0, <2>1
<1> DEFINE end == CHOOSE f : Is(Len(fields), f)
<1>4. Is(Len(fields), end)  BY <1>3
<1>5. Wire!Ends(fields) = end  BY DEF Wire!Ends, R
<1> HIDE DEF end
<1>6. end[0] = 0  BY <1>0, <1>4
<1>7. \A i \in 1..Len(fields) : end[i] = end[i - 1] + R(i)
  <2> TAKE i \in 1..Len(fields)
  <2>1. i \in 0..Len(fields) /\ i # 0  BY <1>0
  <2> QED  BY <1>4, <2>1
<1> HIDE DEF Is
<1> QED  BY <1>5, <1>6, <1>7 DEF R

(* Fields end one after the other, and none behind the message. *)
LEMMA EndsGrow ==
  ASSUME NEW fields, Measured(fields)
  PROVE \A i \in 0..Len(fields) : /\ Wire!Ends(fields)[i] \in Nat
                                  /\ Wire!Ends(fields)[i] <= Wire!Ends(fields)[Len(fields)]
<1> DEFINE E(i) == Wire!Ends(fields)[i]
           n == Len(fields)
           S == {i \in Nat : i <= n => E(i) \in Nat}
           T == {k \in Nat : k <= n => E(n - k) \in Nat /\ E(n - k) <= E(n)}
<1>0. n \in Nat  BY DEF Measured
<1>1. E(0) = 0  BY EndsIs
<1>2. \A i \in 1..n : E(i) = E(i - 1) + fields[i].size  BY EndsIs
<1>3. \A i \in 1..n : fields[i].size \in Nat  BY DEF Measured
<1> HIDE DEF E, n
<1>4. Nat \subseteq S
  <2>1. 0 \in S  BY <1>1
  <2>2. ASSUME NEW i \in Nat, i \in S PROVE i + 1 \in S
    <3> SUFFICES ASSUME i + 1 <= n PROVE E(i + 1) \in Nat  OBVIOUS
    <3>1. i + 1 \in 1..n /\ (i + 1) - 1 = i /\ i <= n  BY <1>0
    <3>2. E(i + 1) = E(i) + fields[i + 1].size  BY <1>2, <3>1
    <3> QED  BY <1>3, <2>2, <3>1, <3>2
  <2> HIDE DEF S
  <2> QED  BY <2>1, <2>2, Induction
<1>5. Nat \subseteq T
  <2>1. 0 \in T
    <3>1. n - 0 = n /\ E(n) \in Nat  BY <1>0, <1>4
    <3> QED  BY <3>1
  <2>2. ASSUME NEW k \in Nat, k \in T PROVE k + 1 \in T
    <3> SUFFICES ASSUME k + 1 <= n PROVE E(n - (k + 1)) \in Nat /\ E(n - (k + 1)) <= E(n)
      OBVIOUS
    <3> DEFINE i == n - k
               j == n - (k + 1)
    <3>1. i \in 1..n /\ i - 1 = j /\ j \in Nat /\ j <= n /\ k <= n  BY <1>0
    <3>2. E(i) = E(j) + fields[i].size  BY <1>2, <3>1
    <3>3. E(i) \in Nat /\ E(i) <= E(n)  BY <2>2, <3>1
    <3>4. E(j) \in Nat /\ E(n) \in Nat  BY <1>0, <1>4, <3>1
    <3> HIDE DEF i, j
    <3>5. E(j) <= E(n)  BY <1>3, <3>1, <3>2, <3>3, <3>4
    <3> QED  BY <3>4, <3>5 DEF j
  <2> HIDE DEF T
  <2> QED  BY <2>1, <2>2, Induction
<1>6. ASSUME NEW i \in 0..n PROVE E(i) \in Nat /\ E(i) <= E(n)
  <2>1. n - i \in Nat /\ n - i <= n /\ n - (n - i) = i  BY <1>0
  <2>2. n - i \in T  BY <1>5, <2>1
  <2> QED  BY <2>1, <2>2
<1> QED  BY <1>6 DEF E, n

(* What the OSD has of a message is what the library has, VFR_HUD's throttle and the checksum's
   seed of SCALED_PRESSURE2 excepted: its length, that seed, and where the fields are. *)
Excepted == {<<"VFR_HUD", "throttle">>}
Laid(m) ==
  /\ Measured(Wire!Messages[m].fields)
  /\ Wire!Length[m] = Wire!Table[m].length
  /\ m # "SCALED_PRESSURE2" => Wire!Messages[m].crc = Wire!Table[m].magic
  /\ \A r \in Wire!ReadsOf(m, Excepted) : Wire!Whole(m, r)

(* Message by message: the sizes of its fields (a1, a2, ...) give where each ends. *)
LEMMA HeartbeatLaid == Laid("HEARTBEAT")
<1> DEFINE f == Wire!Messages["HEARTBEAT"].fields
           E == Wire!Ends(f)
           a1 == Wire!Field("custom_mode", 4)
           a2 == Wire!Field("type", 1)
           a3 == Wire!Field("autopilot", 1)
           a4 == Wire!Field("base_mode", 1)
           a5 == Wire!Field("system_status", 1)
           a6 == Wire!Field("mavlink_version", 1)
<1>1. f = <<a1, a2, a3, a4, a5, a6>>
  BY DEF Wire!Messages, Wire!Heartbeat
<1>2. /\ a1.name = "custom_mode" /\ a1.nth = 0 /\ a1.size = 4
      /\ a2.name = "type" /\ a2.nth = 0 /\ a2.size = 1
      /\ a3.name = "autopilot" /\ a3.nth = 0 /\ a3.size = 1
      /\ a4.name = "base_mode" /\ a4.nth = 0 /\ a4.size = 1
      /\ a5.name = "system_status" /\ a5.nth = 0 /\ a5.size = 1
      /\ a6.name = "mavlink_version" /\ a6.nth = 0 /\ a6.size = 1
  BY DEF Wire!Field
<1> HIDE DEF f, a1, a2, a3, a4, a5, a6
<1>3. Len(f) = 6 /\ DOMAIN f = 1..6
  BY <1>1
<1>4. f[1] = a1 /\ f[2] = a2 /\ f[3] = a3 /\ f[4] = a4 /\ f[5] = a5 /\ f[6] = a6
  BY <1>1
<1>5. Measured(f)
  <2>1. Len(f) \in Nat /\ DOMAIN f = 1..Len(f)  BY <1>3
  <2>2. \A i \in 1..6 : i = 1 \/ i = 2 \/ i = 3 \/ i = 4 \/ i = 5 \/ i = 6  OBVIOUS
  <2> QED  BY <1>2, <1>3, <1>4, <2>1, <2>2 DEF Measured
<1>6. E[0] = 0 /\ \A i \in 1..6 : E[i] = E[i - 1] + f[i].size
  BY <1>5, <1>3, EndsIs
<1> HIDE DEF E
<1>7. E[0] = 0 /\ E[1] = 4 /\ E[2] = 5 /\ E[3] = 6 /\ E[4] = 7 /\ E[5] = 8 /\ E[6] = 9
  BY <1>2, <1>4, <1>6
<1>8. Wire!Length["HEARTBEAT"] = Wire!Table["HEARTBEAT"].length
  <2>1. "HEARTBEAT" \in Wire!Names  BY DEF Wire!Names, Wire!Messages
  <2>2. Wire!Table["HEARTBEAT"].length = 9  BY DEF Wire!Table, Wire!Entry
  <2> QED  BY <1>3, <1>7, <2>1, <2>2 DEF Wire!Length, E, f
<1>9. Wire!Messages["HEARTBEAT"].crc = Wire!Table["HEARTBEAT"].magic
  BY DEF Wire!Messages, Wire!Heartbeat, Wire!Table, Wire!Entry
<1>10. ASSUME NEW r \in Wire!ReadsOf("HEARTBEAT", Excepted) PROVE Wire!Whole("HEARTBEAT", r)
  <2> DEFINE r1 == Wire!Read("custom_mode", 0, 4)
             r2 == Wire!Read("base_mode", 6, 1)
  <2>1. r \in Wire!Reads("HEARTBEAT")
    BY DEF Wire!ReadsOf
  <2>2. r = r1 \/ r = r2
    BY <2>1 DEF Wire!Reads
  <2>3. /\ r1.name = "custom_mode" /\ r1.nth = 0 /\ r1.from = 0 /\ r1.size = 4
        /\ r2.name = "base_mode" /\ r2.nth = 0 /\ r2.from = 6 /\ r2.size = 1
    BY DEF Wire!Read
  <2> HIDE DEF r1, r2
  <2>4. Wire!Whole("HEARTBEAT", r1)
    <3>1. 1 \in DOMAIN f /\ Wire!Offset("HEARTBEAT", 1) = 0
      BY <1>3, <1>7 DEF Wire!Offset, E, f
    <3> QED  BY <1>2, <1>4, <2>3, <3>1 DEF Wire!Whole, f
  <2>5. Wire!Whole("HEARTBEAT", r2)
    <3>1. 4 \in DOMAIN f /\ Wire!Offset("HEARTBEAT", 4) = 6
      BY <1>3, <1>7 DEF Wire!Offset, E, f
    <3> QED  BY <1>2, <1>4, <2>3, <3>1 DEF Wire!Whole, f
  <2> QED  BY <2>2, <2>4, <2>5
<1> QED  BY <1>5, <1>8, <1>9, <1>10 DEF Laid, f

LEMMA VfrHudLaid == Laid("VFR_HUD")
<1> DEFINE f == Wire!Messages["VFR_HUD"].fields
           E == Wire!Ends(f)
           a1 == Wire!Field("airspeed", 4)
           a2 == Wire!Field("groundspeed", 4)
           a3 == Wire!Field("alt", 4)
           a4 == Wire!Field("climb", 4)
           a5 == Wire!Field("heading", 2)
           a6 == Wire!Field("throttle", 2)
<1>1. f = <<a1, a2, a3, a4, a5, a6>>
  BY DEF Wire!Messages, Wire!VfrHud
<1>2. /\ a1.name = "airspeed" /\ a1.nth = 0 /\ a1.size = 4
      /\ a2.name = "groundspeed" /\ a2.nth = 0 /\ a2.size = 4
      /\ a3.name = "alt" /\ a3.nth = 0 /\ a3.size = 4
      /\ a4.name = "climb" /\ a4.nth = 0 /\ a4.size = 4
      /\ a5.name = "heading" /\ a5.nth = 0 /\ a5.size = 2
      /\ a6.name = "throttle" /\ a6.nth = 0 /\ a6.size = 2
  BY DEF Wire!Field
<1> HIDE DEF f, a1, a2, a3, a4, a5, a6
<1>3. Len(f) = 6 /\ DOMAIN f = 1..6
  BY <1>1
<1>4. f[1] = a1 /\ f[2] = a2 /\ f[3] = a3 /\ f[4] = a4 /\ f[5] = a5 /\ f[6] = a6
  BY <1>1
<1>5. Measured(f)
  <2>1. Len(f) \in Nat /\ DOMAIN f = 1..Len(f)  BY <1>3
  <2>2. \A i \in 1..6 : i = 1 \/ i = 2 \/ i = 3 \/ i = 4 \/ i = 5 \/ i = 6  OBVIOUS
  <2> QED  BY <1>2, <1>3, <1>4, <2>1, <2>2 DEF Measured
<1>6. E[0] = 0 /\ \A i \in 1..6 : E[i] = E[i - 1] + f[i].size
  BY <1>5, <1>3, EndsIs
<1> HIDE DEF E
<1>7. E[0] = 0 /\ E[1] = 4 /\ E[2] = 8 /\ E[3] = 12 /\ E[4] = 16 /\ E[5] = 18 /\ E[6] = 20
  BY <1>2, <1>4, <1>6
<1>8. Wire!Length["VFR_HUD"] = Wire!Table["VFR_HUD"].length
  <2>1. "VFR_HUD" \in Wire!Names  BY DEF Wire!Names, Wire!Messages
  <2>2. Wire!Table["VFR_HUD"].length = 20  BY DEF Wire!Table, Wire!Entry
  <2> QED  BY <1>3, <1>7, <2>1, <2>2 DEF Wire!Length, E, f
<1>9. Wire!Messages["VFR_HUD"].crc = Wire!Table["VFR_HUD"].magic
  BY DEF Wire!Messages, Wire!VfrHud, Wire!Table, Wire!Entry
<1>10. ASSUME NEW r \in Wire!ReadsOf("VFR_HUD", Excepted) PROVE Wire!Whole("VFR_HUD", r)
  <2> DEFINE r1 == Wire!Read("airspeed", 0, 4)
             r2 == Wire!Read("groundspeed", 4, 4)
             r3 == Wire!Read("alt", 8, 4)
             r4 == Wire!Read("climb", 12, 4)
             r5 == Wire!Read("heading", 16, 2)
  <2>1. r \in {r1, r2, r3, r4, r5, Wire!Read("throttle", 19, 2)} /\ r.name # "throttle"
    BY DEF Wire!ReadsOf, Wire!Reads, Excepted
  <2>2. r = r1 \/ r = r2 \/ r = r3 \/ r = r4 \/ r = r5
    BY <2>1 DEF Wire!Read
  <2>3. /\ r1.name = "airspeed" /\ r1.nth = 0 /\ r1.from = 0 /\ r1.size = 4
        /\ r2.name = "groundspeed" /\ r2.nth = 0 /\ r2.from = 4 /\ r2.size = 4
        /\ r3.name = "alt" /\ r3.nth = 0 /\ r3.from = 8 /\ r3.size = 4
        /\ r4.name = "climb" /\ r4.nth = 0 /\ r4.from = 12 /\ r4.size = 4
        /\ r5.name = "heading" /\ r5.nth = 0 /\ r5.from = 16 /\ r5.size = 2
    BY DEF Wire!Read
  <2> HIDE DEF r1, r2, r3, r4, r5
  <2>4. Wire!Whole("VFR_HUD", r1)
    <3>1. 1 \in DOMAIN f /\ Wire!Offset("VFR_HUD", 1) = 0
      BY <1>3, <1>7 DEF Wire!Offset, E, f
    <3> QED  BY <1>2, <1>4, <2>3, <3>1 DEF Wire!Whole, f
  <2>5. Wire!Whole("VFR_HUD", r2)
    <3>1. 2 \in DOMAIN f /\ Wire!Offset("VFR_HUD", 2) = 4
      BY <1>3, <1>7 DEF Wire!Offset, E, f
    <3> QED  BY <1>2, <1>4, <2>3, <3>1 DEF Wire!Whole, f
  <2>6. Wire!Whole("VFR_HUD", r3)
    <3>1. 3 \in DOMAIN f /\ Wire!Offset("VFR_HUD", 3) = 8
      BY <1>3, <1>7 DEF Wire!Offset, E, f
    <3> QED  BY <1>2, <1>4, <2>3, <3>1 DEF Wire!Whole, f
  <2>7. Wire!Whole("VFR_HUD", r4)
    <3>1. 4 \in DOMAIN f /\ Wire!Offset("VFR_HUD", 4) = 12
      BY <1>3, <1>7 DEF Wire!Offset, E, f
    <3> QED  BY <1>2, <1>4, <2>3, <3>1 DEF Wire!Whole, f
  <2>8. Wire!Whole("VFR_HUD", r5)
    <3>1. 5 \in DOMAIN f /\ Wire!Offset("VFR_HUD", 5) = 16
      BY <1>3, <1>7 DEF Wire!Offset, E, f
    <3> QED  BY <1>2, <1>4, <2>3, <3>1 DEF Wire!Whole, f
  <2> QED  BY <2>2, <2>4, <2>5, <2>6, <2>7, <2>8
<1> QED  BY <1>5, <1>8, <1>9, <1>10 DEF Laid, f

LEMMA AttitudeLaid == Laid("ATTITUDE")
<1> DEFINE f == Wire!Messages["ATTITUDE"].fields
           E == Wire!Ends(f)
           a1 == Wire!Field("time_boot_ms", 4)
           a2 == Wire!Field("roll", 4)
           a3 == Wire!Field("pitch", 4)
           a4 == Wire!Field("yaw", 4)
           a5 == Wire!Field("rollspeed", 4)
           a6 == Wire!Field("pitchspeed", 4)
           a7 == Wire!Field("yawspeed", 4)
<1>1. f = <<a1, a2, a3, a4, a5, a6, a7>>
  BY DEF Wire!Messages, Wire!Attitude, Wire!TimeBootMs
<1>2. /\ a1.name = "time_boot_ms" /\ a1.nth = 0 /\ a1.size = 4
      /\ a2.name = "roll" /\ a2.nth = 0 /\ a2.size = 4
      /\ a3.name = "pitch" /\ a3.nth = 0 /\ a3.size = 4
      /\ a4.name = "yaw" /\ a4.nth = 0 /\ a4.size = 4
      /\ a5.name = "rollspeed" /\ a5.nth = 0 /\ a5.size = 4
      /\ a6.name = "pitchspeed" /\ a6.nth = 0 /\ a6.size = 4
      /\ a7.name = "yawspeed" /\ a7.nth = 0 /\ a7.size = 4
  BY DEF Wire!Field
<1> HIDE DEF f, a1, a2, a3, a4, a5, a6, a7
<1>3. Len(f) = 7 /\ DOMAIN f = 1..7
  BY <1>1
<1>4. f[1] = a1 /\ f[2] = a2 /\ f[3] = a3 /\ f[4] = a4 /\ f[5] = a5 /\ f[6] = a6 /\ f[7] = a7
  BY <1>1
<1>5. Measured(f)
  <2>1. Len(f) \in Nat /\ DOMAIN f = 1..Len(f)  BY <1>3
  <2>2. \A i \in 1..7 : i = 1 \/ i = 2 \/ i = 3 \/ i = 4 \/ i = 5 \/ i = 6 \/ i = 7  OBVIOUS
  <2> QED  BY <1>2, <1>3, <1>4, <2>1, <2>2 DEF Measured
<1>6. E[0] = 0 /\ \A i \in 1..7 : E[i] = E[i - 1] + f[i].size
  BY <1>5, <1>3, EndsIs
<1> HIDE DEF E
<1>7. E[0] = 0 /\ E[1] = 4 /\ E[2] = 8 /\ E[3] = 12 /\ E[4] = 16 /\ E[5] = 20 /\ E[6] = 24 /\ E[7] = 28
  BY <1>2, <1>4, <1>6
<1>8. Wire!Length["ATTITUDE"] = Wire!Table["ATTITUDE"].length
  <2>1. "ATTITUDE" \in Wire!Names  BY DEF Wire!Names, Wire!Messages
  <2>2. Wire!Table["ATTITUDE"].length = 28  BY DEF Wire!Table, Wire!Entry
  <2> QED  BY <1>3, <1>7, <2>1, <2>2 DEF Wire!Length, E, f
<1>9. Wire!Messages["ATTITUDE"].crc = Wire!Table["ATTITUDE"].magic
  BY DEF Wire!Messages, Wire!Attitude, Wire!Table, Wire!Entry
<1>10. ASSUME NEW r \in Wire!ReadsOf("ATTITUDE", Excepted) PROVE Wire!Whole("ATTITUDE", r)
  <2> DEFINE r1 == Wire!Read("roll", 4, 4)
             r2 == Wire!Read("pitch", 8, 4)
             r3 == Wire!Read("yaw", 12, 4)
  <2>1. r \in Wire!Reads("ATTITUDE")
    BY DEF Wire!ReadsOf
  <2>2. r = r1 \/ r = r2 \/ r = r3
    BY <2>1 DEF Wire!Reads
  <2>3. /\ r1.name = "roll" /\ r1.nth = 0 /\ r1.from = 4 /\ r1.size = 4
        /\ r2.name = "pitch" /\ r2.nth = 0 /\ r2.from = 8 /\ r2.size = 4
        /\ r3.name = "yaw" /\ r3.nth = 0 /\ r3.from = 12 /\ r3.size = 4
    BY DEF Wire!Read
  <2> HIDE DEF r1, r2, r3
  <2>4. Wire!Whole("ATTITUDE", r1)
    <3>1. 2 \in DOMAIN f /\ Wire!Offset("ATTITUDE", 2) = 4
      BY <1>3, <1>7 DEF Wire!Offset, E, f
    <3> QED  BY <1>2, <1>4, <2>3, <3>1 DEF Wire!Whole, f
  <2>5. Wire!Whole("ATTITUDE", r2)
    <3>1. 3 \in DOMAIN f /\ Wire!Offset("ATTITUDE", 3) = 8
      BY <1>3, <1>7 DEF Wire!Offset, E, f
    <3> QED  BY <1>2, <1>4, <2>3, <3>1 DEF Wire!Whole, f
  <2>6. Wire!Whole("ATTITUDE", r3)
    <3>1. 4 \in DOMAIN f /\ Wire!Offset("ATTITUDE", 4) = 12
      BY <1>3, <1>7 DEF Wire!Offset, E, f
    <3> QED  BY <1>2, <1>4, <2>3, <3>1 DEF Wire!Whole, f
  <2> QED  BY <2>2, <2>4, <2>5, <2>6
<1> QED  BY <1>5, <1>8, <1>9, <1>10 DEF Laid, f

LEMMA GpsRawIntLaid == Laid("GPS_RAW_INT")
<1> DEFINE f == Wire!Messages["GPS_RAW_INT"].fields
           E == Wire!Ends(f)
           a1 == Wire!Field("time_usec", 8)
           a2 == Wire!Field("lat", 4)
           a3 == Wire!Field("lon", 4)
           a4 == Wire!Field("alt", 4)
           a5 == Wire!Field("eph", 2)
           a6 == Wire!Field("epv", 2)
           a7 == Wire!Field("vel", 2)
           a8 == Wire!Field("cog", 2)
           a9 == Wire!Field("fix_type", 1)
           a10 == Wire!Field("satellites_visible", 1)
<1>1. f = <<a1, a2, a3, a4, a5, a6, a7, a8, a9, a10>>
  BY DEF Wire!Messages, Wire!GpsRawInt
<1>2. /\ a1.name = "time_usec" /\ a1.nth = 0 /\ a1.size = 8
      /\ a2.name = "lat" /\ a2.nth = 0 /\ a2.size = 4
      /\ a3.name = "lon" /\ a3.nth = 0 /\ a3.size = 4
      /\ a4.name = "alt" /\ a4.nth = 0 /\ a4.size = 4
      /\ a5.name = "eph" /\ a5.nth = 0 /\ a5.size = 2
      /\ a6.name = "epv" /\ a6.nth = 0 /\ a6.size = 2
      /\ a7.name = "vel" /\ a7.nth = 0 /\ a7.size = 2
      /\ a8.name = "cog" /\ a8.nth = 0 /\ a8.size = 2
      /\ a9.name = "fix_type" /\ a9.nth = 0 /\ a9.size = 1
      /\ a10.name = "satellites_visible" /\ a10.nth = 0 /\ a10.size = 1
  BY DEF Wire!Field
<1> HIDE DEF f, a1, a2, a3, a4, a5, a6, a7, a8, a9, a10
<1>3. Len(f) = 10 /\ DOMAIN f = 1..10
  BY <1>1
<1>4. f[1] = a1 /\ f[2] = a2 /\ f[3] = a3 /\ f[4] = a4 /\ f[5] = a5 /\ f[6] = a6 /\ f[7] = a7 /\ f[8] = a8 /\ f[9] = a9 /\ f[10] = a10
  BY <1>1
<1>5. Measured(f)
  <2>1. Len(f) \in Nat /\ DOMAIN f = 1..Len(f)  BY <1>3
  <2>2. \A i \in 1..10 : i = 1 \/ i = 2 \/ i = 3 \/ i = 4 \/ i = 5 \/ i = 6 \/ i = 7 \/ i = 8 \/ i = 9 \/ i = 10  OBVIOUS
  <2> QED  BY <1>2, <1>3, <1>4, <2>1, <2>2 DEF Measured
<1>6. E[0] = 0 /\ \A i \in 1..10 : E[i] = E[i - 1] + f[i].size
  BY <1>5, <1>3, EndsIs
<1> HIDE DEF E
<1>7. E[0] = 0 /\ E[1] = 8 /\ E[2] = 12 /\ E[3] = 16 /\ E[4] = 20 /\ E[5] = 22 /\ E[6] = 24 /\ E[7] = 26 /\ E[8] = 28 /\ E[9] = 29 /\ E[10] = 30
  BY <1>2, <1>4, <1>6
<1>8. Wire!Length["GPS_RAW_INT"] = Wire!Table["GPS_RAW_INT"].length
  <2>1. "GPS_RAW_INT" \in Wire!Names  BY DEF Wire!Names, Wire!Messages
  <2>2. Wire!Table["GPS_RAW_INT"].length = 30  BY DEF Wire!Table, Wire!Entry
  <2> QED  BY <1>3, <1>7, <2>1, <2>2 DEF Wire!Length, E, f
<1>9. Wire!Messages["GPS_RAW_INT"].crc = Wire!Table["GPS_RAW_INT"].magic
  BY DEF Wire!Messages, Wire!GpsRawInt, Wire!Table, Wire!Entry
<1>10. ASSUME NEW r \in Wire!ReadsOf("GPS_RAW_INT", Excepted) PROVE Wire!Whole("GPS_RAW_INT", r)
  <2> DEFINE r1 == Wire!Read("satellites_visible", 29, 1)
             r2 == Wire!Read("fix_type", 28, 1)
             r3 == Wire!Read("cog", 26, 2)
             r4 == Wire!Read("lat", 8, 4)
             r5 == Wire!Read("lon", 12, 4)
             r6 == Wire!Read("eph", 20, 2)
  <2>1. r \in Wire!Reads("GPS_RAW_INT")
    BY DEF Wire!ReadsOf
  <2>2. r = r1 \/ r = r2 \/ r = r3 \/ r = r4 \/ r = r5 \/ r = r6
    BY <2>1 DEF Wire!Reads
  <2>3. /\ r1.name = "satellites_visible" /\ r1.nth = 0 /\ r1.from = 29 /\ r1.size = 1
        /\ r2.name = "fix_type" /\ r2.nth = 0 /\ r2.from = 28 /\ r2.size = 1
        /\ r3.name = "cog" /\ r3.nth = 0 /\ r3.from = 26 /\ r3.size = 2
        /\ r4.name = "lat" /\ r4.nth = 0 /\ r4.from = 8 /\ r4.size = 4
        /\ r5.name = "lon" /\ r5.nth = 0 /\ r5.from = 12 /\ r5.size = 4
        /\ r6.name = "eph" /\ r6.nth = 0 /\ r6.from = 20 /\ r6.size = 2
    BY DEF Wire!Read
  <2> HIDE DEF r1, r2, r3, r4, r5, r6
  <2>4. Wire!Whole("GPS_RAW_INT", r1)
    <3>1. 10 \in DOMAIN f /\ Wire!Offset("GPS_RAW_INT", 10) = 29
      BY <1>3, <1>7 DEF Wire!Offset, E, f
    <3> QED  BY <1>2, <1>4, <2>3, <3>1 DEF Wire!Whole, f
  <2>5. Wire!Whole("GPS_RAW_INT", r2)
    <3>1. 9 \in DOMAIN f /\ Wire!Offset("GPS_RAW_INT", 9) = 28
      BY <1>3, <1>7 DEF Wire!Offset, E, f
    <3> QED  BY <1>2, <1>4, <2>3, <3>1 DEF Wire!Whole, f
  <2>6. Wire!Whole("GPS_RAW_INT", r3)
    <3>1. 8 \in DOMAIN f /\ Wire!Offset("GPS_RAW_INT", 8) = 26
      BY <1>3, <1>7 DEF Wire!Offset, E, f
    <3> QED  BY <1>2, <1>4, <2>3, <3>1 DEF Wire!Whole, f
  <2>7. Wire!Whole("GPS_RAW_INT", r4)
    <3>1. 2 \in DOMAIN f /\ Wire!Offset("GPS_RAW_INT", 2) = 8
      BY <1>3, <1>7 DEF Wire!Offset, E, f
    <3> QED  BY <1>2, <1>4, <2>3, <3>1 DEF Wire!Whole, f
  <2>8. Wire!Whole("GPS_RAW_INT", r5)
    <3>1. 3 \in DOMAIN f /\ Wire!Offset("GPS_RAW_INT", 3) = 12
      BY <1>3, <1>7 DEF Wire!Offset, E, f
    <3> QED  BY <1>2, <1>4, <2>3, <3>1 DEF Wire!Whole, f
  <2>9. Wire!Whole("GPS_RAW_INT", r6)
    <3>1. 5 \in DOMAIN f /\ Wire!Offset("GPS_RAW_INT", 5) = 20
      BY <1>3, <1>7 DEF Wire!Offset, E, f
    <3> QED  BY <1>2, <1>4, <2>3, <3>1 DEF Wire!Whole, f
  <2> QED  BY <2>2, <2>4, <2>5, <2>6, <2>7, <2>8, <2>9
<1> QED  BY <1>5, <1>8, <1>9, <1>10 DEF Laid, f

LEMMA SysStatusLaid == Laid("SYS_STATUS")
<1> DEFINE f == Wire!Messages["SYS_STATUS"].fields
           E == Wire!Ends(f)
           a1 == Wire!Field("present", 4)
           a2 == Wire!Field("enabled", 4)
           a3 == Wire!Field("health", 4)
           a4 == Wire!Field("load", 2)
           a5 == Wire!Field("voltage_battery", 2)
           a6 == Wire!Field("current_battery", 2)
           a7 == Wire!Field("drop_rate_comm", 2)
           a8 == Wire!Field("errors_comm", 2)
           a9 == Wire!Field("errors_count1", 2)
           a10 == Wire!Field("errors_count2", 2)
           a11 == Wire!Field("errors_count3", 2)
           a12 == Wire!Field("errors_count4", 2)
           a13 == Wire!Field("battery_remaining", 1)
<1>1. f = <<a1, a2, a3, a4, a5, a6, a7, a8, a9, a10, a11, a12, a13>>
  BY DEF Wire!Messages, Wire!SysStatus
<1>2. /\ a1.name = "present" /\ a1.nth = 0 /\ a1.size = 4
      /\ a2.name = "enabled" /\ a2.nth = 0 /\ a2.size = 4
      /\ a3.name = "health" /\ a3.nth = 0 /\ a3.size = 4
      /\ a4.name = "load" /\ a4.nth = 0 /\ a4.size = 2
      /\ a5.name = "voltage_battery" /\ a5.nth = 0 /\ a5.size = 2
      /\ a6.name = "current_battery" /\ a6.nth = 0 /\ a6.size = 2
      /\ a7.name = "drop_rate_comm" /\ a7.nth = 0 /\ a7.size = 2
      /\ a8.name = "errors_comm" /\ a8.nth = 0 /\ a8.size = 2
      /\ a9.name = "errors_count1" /\ a9.nth = 0 /\ a9.size = 2
      /\ a10.name = "errors_count2" /\ a10.nth = 0 /\ a10.size = 2
      /\ a11.name = "errors_count3" /\ a11.nth = 0 /\ a11.size = 2
      /\ a12.name = "errors_count4" /\ a12.nth = 0 /\ a12.size = 2
      /\ a13.name = "battery_remaining" /\ a13.nth = 0 /\ a13.size = 1
  BY DEF Wire!Field
<1> HIDE DEF f, a1, a2, a3, a4, a5, a6, a7, a8, a9, a10, a11, a12, a13
<1>3. Len(f) = 13 /\ DOMAIN f = 1..13
  BY <1>1
<1>4. f[1] = a1 /\ f[2] = a2 /\ f[3] = a3 /\ f[4] = a4 /\ f[5] = a5 /\ f[6] = a6 /\ f[7] = a7 /\ f[8] = a8 /\ f[9] = a9 /\ f[10] = a10 /\ f[11] = a11 /\ f[12] = a12 /\ f[13] = a13
  BY <1>1
<1>5. Measured(f)
  <2>1. Len(f) \in Nat /\ DOMAIN f = 1..Len(f)  BY <1>3
  <2>2. \A i \in 1..13 : i = 1 \/ i = 2 \/ i = 3 \/ i = 4 \/ i = 5 \/ i = 6 \/ i = 7 \/ i = 8 \/ i = 9 \/ i = 10 \/ i = 11 \/ i = 12 \/ i = 13  OBVIOUS
  <2> QED  BY <1>2, <1>3, <1>4, <2>1, <2>2 DEF Measured
<1>6. E[0] = 0 /\ \A i \in 1..13 : E[i] = E[i - 1] + f[i].size
  BY <1>5, <1>3, EndsIs
<1> HIDE DEF E
<1>7. E[0] = 0 /\ E[1] = 4 /\ E[2] = 8 /\ E[3] = 12 /\ E[4] = 14 /\ E[5] = 16 /\ E[6] = 18 /\ E[7] = 20 /\ E[8] = 22 /\ E[9] = 24 /\ E[10] = 26 /\ E[11] = 28 /\ E[12] = 30 /\ E[13] = 31
  BY <1>2, <1>4, <1>6
<1>8. Wire!Length["SYS_STATUS"] = Wire!Table["SYS_STATUS"].length
  <2>1. "SYS_STATUS" \in Wire!Names  BY DEF Wire!Names, Wire!Messages
  <2>2. Wire!Table["SYS_STATUS"].length = 31  BY DEF Wire!Table, Wire!Entry
  <2> QED  BY <1>3, <1>7, <2>1, <2>2 DEF Wire!Length, E, f
<1>9. Wire!Messages["SYS_STATUS"].crc = Wire!Table["SYS_STATUS"].magic
  BY DEF Wire!Messages, Wire!SysStatus, Wire!Table, Wire!Entry
<1>10. ASSUME NEW r \in Wire!ReadsOf("SYS_STATUS", Excepted) PROVE Wire!Whole("SYS_STATUS", r)
  <2> DEFINE r1 == Wire!Read("enabled", 4, 4)
             r2 == Wire!Read("voltage_battery", 14, 2)
             r3 == Wire!Read("current_battery", 16, 2)
             r4 == Wire!Read("battery_remaining", 30, 1)
  <2>1. r \in Wire!Reads("SYS_STATUS")
    BY DEF Wire!ReadsOf
  <2>2. r = r1 \/ r = r2 \/ r = r3 \/ r = r4
    BY <2>1 DEF Wire!Reads
  <2>3. /\ r1.name = "enabled" /\ r1.nth = 0 /\ r1.from = 4 /\ r1.size = 4
        /\ r2.name = "voltage_battery" /\ r2.nth = 0 /\ r2.from = 14 /\ r2.size = 2
        /\ r3.name = "current_battery" /\ r3.nth = 0 /\ r3.from = 16 /\ r3.size = 2
        /\ r4.name = "battery_remaining" /\ r4.nth = 0 /\ r4.from = 30 /\ r4.size = 1
    BY DEF Wire!Read
  <2> HIDE DEF r1, r2, r3, r4
  <2>4. Wire!Whole("SYS_STATUS", r1)
    <3>1. 2 \in DOMAIN f /\ Wire!Offset("SYS_STATUS", 2) = 4
      BY <1>3, <1>7 DEF Wire!Offset, E, f
    <3> QED  BY <1>2, <1>4, <2>3, <3>1 DEF Wire!Whole, f
  <2>5. Wire!Whole("SYS_STATUS", r2)
    <3>1. 5 \in DOMAIN f /\ Wire!Offset("SYS_STATUS", 5) = 14
      BY <1>3, <1>7 DEF Wire!Offset, E, f
    <3> QED  BY <1>2, <1>4, <2>3, <3>1 DEF Wire!Whole, f
  <2>6. Wire!Whole("SYS_STATUS", r3)
    <3>1. 6 \in DOMAIN f /\ Wire!Offset("SYS_STATUS", 6) = 16
      BY <1>3, <1>7 DEF Wire!Offset, E, f
    <3> QED  BY <1>2, <1>4, <2>3, <3>1 DEF Wire!Whole, f
  <2>7. Wire!Whole("SYS_STATUS", r4)
    <3>1. 13 \in DOMAIN f /\ Wire!Offset("SYS_STATUS", 13) = 30
      BY <1>3, <1>7 DEF Wire!Offset, E, f
    <3> QED  BY <1>2, <1>4, <2>3, <3>1 DEF Wire!Whole, f
  <2> QED  BY <2>2, <2>4, <2>5, <2>6, <2>7
<1> QED  BY <1>5, <1>8, <1>9, <1>10 DEF Laid, f

LEMMA NavControllerOutputLaid == Laid("NAV_CONTROLLER_OUTPUT")
<1> DEFINE f == Wire!Messages["NAV_CONTROLLER_OUTPUT"].fields
           E == Wire!Ends(f)
           a1 == Wire!Field("nav_roll", 4)
           a2 == Wire!Field("nav_pitch", 4)
           a3 == Wire!Field("alt_error", 4)
           a4 == Wire!Field("aspd_error", 4)
           a5 == Wire!Field("xtrack_error", 4)
           a6 == Wire!Field("nav_bearing", 2)
           a7 == Wire!Field("target_bearing", 2)
           a8 == Wire!Field("wp_dist", 2)
<1>1. f = <<a1, a2, a3, a4, a5, a6, a7, a8>>
  BY DEF Wire!Messages, Wire!NavControllerOutput
<1>2. /\ a1.name = "nav_roll" /\ a1.nth = 0 /\ a1.size = 4
      /\ a2.name = "nav_pitch" /\ a2.nth = 0 /\ a2.size = 4
      /\ a3.name = "alt_error" /\ a3.nth = 0 /\ a3.size = 4
      /\ a4.name = "aspd_error" /\ a4.nth = 0 /\ a4.size = 4
      /\ a5.name = "xtrack_error" /\ a5.nth = 0 /\ a5.size = 4
      /\ a6.name = "nav_bearing" /\ a6.nth = 0 /\ a6.size = 2
      /\ a7.name = "target_bearing" /\ a7.nth = 0 /\ a7.size = 2
      /\ a8.name = "wp_dist" /\ a8.nth = 0 /\ a8.size = 2
  BY DEF Wire!Field
<1> HIDE DEF f, a1, a2, a3, a4, a5, a6, a7, a8
<1>3. Len(f) = 8 /\ DOMAIN f = 1..8
  BY <1>1
<1>4. f[1] = a1 /\ f[2] = a2 /\ f[3] = a3 /\ f[4] = a4 /\ f[5] = a5 /\ f[6] = a6 /\ f[7] = a7 /\ f[8] = a8
  BY <1>1
<1>5. Measured(f)
  <2>1. Len(f) \in Nat /\ DOMAIN f = 1..Len(f)  BY <1>3
  <2>2. \A i \in 1..8 : i = 1 \/ i = 2 \/ i = 3 \/ i = 4 \/ i = 5 \/ i = 6 \/ i = 7 \/ i = 8  OBVIOUS
  <2> QED  BY <1>2, <1>3, <1>4, <2>1, <2>2 DEF Measured
<1>6. E[0] = 0 /\ \A i \in 1..8 : E[i] = E[i - 1] + f[i].size
  BY <1>5, <1>3, EndsIs
<1> HIDE DEF E
<1>7. E[0] = 0 /\ E[1] = 4 /\ E[2] = 8 /\ E[3] = 12 /\ E[4] = 16 /\ E[5] = 20 /\ E[6] = 22 /\ E[7] = 24 /\ E[8] = 26
  BY <1>2, <1>4, <1>6
<1>8. Wire!Length["NAV_CONTROLLER_OUTPUT"] = Wire!Table["NAV_CONTROLLER_OUTPUT"].length
  <2>1. "NAV_CONTROLLER_OUTPUT" \in Wire!Names  BY DEF Wire!Names, Wire!Messages
  <2>2. Wire!Table["NAV_CONTROLLER_OUTPUT"].length = 26  BY DEF Wire!Table, Wire!Entry
  <2> QED  BY <1>3, <1>7, <2>1, <2>2 DEF Wire!Length, E, f
<1>9. Wire!Messages["NAV_CONTROLLER_OUTPUT"].crc = Wire!Table["NAV_CONTROLLER_OUTPUT"].magic
  BY DEF Wire!Messages, Wire!NavControllerOutput, Wire!Table, Wire!Entry
<1>10. ASSUME NEW r \in Wire!ReadsOf("NAV_CONTROLLER_OUTPUT", Excepted) PROVE Wire!Whole("NAV_CONTROLLER_OUTPUT", r)
  <2> DEFINE r1 == Wire!Read("wp_dist", 24, 2)
  <2>1. r \in Wire!Reads("NAV_CONTROLLER_OUTPUT")
    BY DEF Wire!ReadsOf
  <2>2. r = r1
    BY <2>1 DEF Wire!Reads
  <2>3. /\ r1.name = "wp_dist" /\ r1.nth = 0 /\ r1.from = 24 /\ r1.size = 2
    BY DEF Wire!Read
  <2> HIDE DEF r1
  <2>4. Wire!Whole("NAV_CONTROLLER_OUTPUT", r1)
    <3>1. 8 \in DOMAIN f /\ Wire!Offset("NAV_CONTROLLER_OUTPUT", 8) = 24
      BY <1>3, <1>7 DEF Wire!Offset, E, f
    <3> QED  BY <1>2, <1>4, <2>3, <3>1 DEF Wire!Whole, f
  <2> QED  BY <2>2, <2>4
<1> QED  BY <1>5, <1>8, <1>9, <1>10 DEF Laid, f

LEMMA MissionCurrentLaid == Laid("MISSION_CURRENT")
<1> DEFINE f == Wire!Messages["MISSION_CURRENT"].fields
           E == Wire!Ends(f)
           a1 == Wire!Field("seq", 2)
<1>1. f = <<a1>>
  BY DEF Wire!Messages, Wire!MissionCurrent
<1>2. /\ a1.name = "seq" /\ a1.nth = 0 /\ a1.size = 2
  BY DEF Wire!Field
<1> HIDE DEF f, a1
<1>3. Len(f) = 1 /\ DOMAIN f = 1..1
  BY <1>1
<1>4. f[1] = a1
  BY <1>1
<1>5. Measured(f)
  <2>1. Len(f) \in Nat /\ DOMAIN f = 1..Len(f)  BY <1>3
  <2>2. \A i \in 1..1 : i = 1  OBVIOUS
  <2> QED  BY <1>2, <1>3, <1>4, <2>1, <2>2 DEF Measured
<1>6. E[0] = 0 /\ \A i \in 1..1 : E[i] = E[i - 1] + f[i].size
  BY <1>5, <1>3, EndsIs
<1> HIDE DEF E
<1>7. E[0] = 0 /\ E[1] = 2
  BY <1>2, <1>4, <1>6
<1>8. Wire!Length["MISSION_CURRENT"] = Wire!Table["MISSION_CURRENT"].length
  <2>1. "MISSION_CURRENT" \in Wire!Names  BY DEF Wire!Names, Wire!Messages
  <2>2. Wire!Table["MISSION_CURRENT"].length = 2  BY DEF Wire!Table, Wire!Entry
  <2> QED  BY <1>3, <1>7, <2>1, <2>2 DEF Wire!Length, E, f
<1>9. Wire!Messages["MISSION_CURRENT"].crc = Wire!Table["MISSION_CURRENT"].magic
  BY DEF Wire!Messages, Wire!MissionCurrent, Wire!Table, Wire!Entry
<1>10. ASSUME NEW r \in Wire!ReadsOf("MISSION_CURRENT", Excepted) PROVE Wire!Whole("MISSION_CURRENT", r)
  <2> DEFINE r1 == Wire!Read("seq", 0, 2)
  <2>1. r \in Wire!Reads("MISSION_CURRENT")
    BY DEF Wire!ReadsOf
  <2>2. r = r1
    BY <2>1 DEF Wire!Reads
  <2>3. /\ r1.name = "seq" /\ r1.nth = 0 /\ r1.from = 0 /\ r1.size = 2
    BY DEF Wire!Read
  <2> HIDE DEF r1
  <2>4. Wire!Whole("MISSION_CURRENT", r1)
    <3>1. 1 \in DOMAIN f /\ Wire!Offset("MISSION_CURRENT", 1) = 0
      BY <1>3, <1>7 DEF Wire!Offset, E, f
    <3> QED  BY <1>2, <1>4, <2>3, <3>1 DEF Wire!Whole, f
  <2> QED  BY <2>2, <2>4
<1> QED  BY <1>5, <1>8, <1>9, <1>10 DEF Laid, f

LEMMA ScaledPressureLaid == Laid("SCALED_PRESSURE")
<1> DEFINE f == Wire!Messages["SCALED_PRESSURE"].fields
           E == Wire!Ends(f)
           a1 == Wire!Field("time_boot_ms", 4)
           a2 == Wire!Field("press_abs", 4)
           a3 == Wire!Field("press_diff", 4)
           a4 == Wire!Field("temperature", 2)
<1>1. f = <<a1, a2, a3, a4>>
  BY DEF Wire!Messages, Wire!ScaledPressure, Wire!TimeBootMs, Wire!Pressure
<1>2. /\ a1.name = "time_boot_ms" /\ a1.nth = 0 /\ a1.size = 4
      /\ a2.name = "press_abs" /\ a2.nth = 0 /\ a2.size = 4
      /\ a3.name = "press_diff" /\ a3.nth = 0 /\ a3.size = 4
      /\ a4.name = "temperature" /\ a4.nth = 0 /\ a4.size = 2
  BY DEF Wire!Field
<1> HIDE DEF f, a1, a2, a3, a4
<1>3. Len(f) = 4 /\ DOMAIN f = 1..4
  BY <1>1
<1>4. f[1] = a1 /\ f[2] = a2 /\ f[3] = a3 /\ f[4] = a4
  BY <1>1
<1>5. Measured(f)
  <2>1. Len(f) \in Nat /\ DOMAIN f = 1..Len(f)  BY <1>3
  <2>2. \A i \in 1..4 : i = 1 \/ i = 2 \/ i = 3 \/ i = 4  OBVIOUS
  <2> QED  BY <1>2, <1>3, <1>4, <2>1, <2>2 DEF Measured
<1>6. E[0] = 0 /\ \A i \in 1..4 : E[i] = E[i - 1] + f[i].size
  BY <1>5, <1>3, EndsIs
<1> HIDE DEF E
<1>7. E[0] = 0 /\ E[1] = 4 /\ E[2] = 8 /\ E[3] = 12 /\ E[4] = 14
  BY <1>2, <1>4, <1>6
<1>8. Wire!Length["SCALED_PRESSURE"] = Wire!Table["SCALED_PRESSURE"].length
  <2>1. "SCALED_PRESSURE" \in Wire!Names  BY DEF Wire!Names, Wire!Messages
  <2>2. Wire!Table["SCALED_PRESSURE"].length = 14  BY DEF Wire!Table, Wire!Entry
  <2> QED  BY <1>3, <1>7, <2>1, <2>2 DEF Wire!Length, E, f
<1>9. Wire!Messages["SCALED_PRESSURE"].crc = Wire!Table["SCALED_PRESSURE"].magic
  BY DEF Wire!Messages, Wire!ScaledPressure, Wire!Table, Wire!Entry
<1>10. ASSUME NEW r \in Wire!ReadsOf("SCALED_PRESSURE", Excepted) PROVE Wire!Whole("SCALED_PRESSURE", r)
  <2> DEFINE r1 == Wire!Read("temperature", 12, 2)
  <2>1. r \in Wire!Reads("SCALED_PRESSURE")
    BY DEF Wire!ReadsOf
  <2>2. r = r1
    BY <2>1 DEF Wire!Reads
  <2>3. /\ r1.name = "temperature" /\ r1.nth = 0 /\ r1.from = 12 /\ r1.size = 2
    BY DEF Wire!Read
  <2> HIDE DEF r1
  <2>4. Wire!Whole("SCALED_PRESSURE", r1)
    <3>1. 4 \in DOMAIN f /\ Wire!Offset("SCALED_PRESSURE", 4) = 12
      BY <1>3, <1>7 DEF Wire!Offset, E, f
    <3> QED  BY <1>2, <1>4, <2>3, <3>1 DEF Wire!Whole, f
  <2> QED  BY <2>2, <2>4
<1> QED  BY <1>5, <1>8, <1>9, <1>10 DEF Laid, f

LEMMA ScaledPressure2Laid == Laid("SCALED_PRESSURE2")
<1> DEFINE f == Wire!Messages["SCALED_PRESSURE2"].fields
           E == Wire!Ends(f)
           a1 == Wire!Field("time_boot_ms", 4)
           a2 == Wire!Field("press_abs", 4)
           a3 == Wire!Field("press_diff", 4)
           a4 == Wire!Field("temperature", 2)
<1>1. f = <<a1, a2, a3, a4>>
  BY DEF Wire!Messages, Wire!ScaledPressure2, Wire!TimeBootMs, Wire!Pressure
<1>2. /\ a1.name = "time_boot_ms" /\ a1.nth = 0 /\ a1.size = 4
      /\ a2.name = "press_abs" /\ a2.nth = 0 /\ a2.size = 4
      /\ a3.name = "press_diff" /\ a3.nth = 0 /\ a3.size = 4
      /\ a4.name = "temperature" /\ a4.nth = 0 /\ a4.size = 2
  BY DEF Wire!Field
<1> HIDE DEF f, a1, a2, a3, a4
<1>3. Len(f) = 4 /\ DOMAIN f = 1..4
  BY <1>1
<1>4. f[1] = a1 /\ f[2] = a2 /\ f[3] = a3 /\ f[4] = a4
  BY <1>1
<1>5. Measured(f)
  <2>1. Len(f) \in Nat /\ DOMAIN f = 1..Len(f)  BY <1>3
  <2>2. \A i \in 1..4 : i = 1 \/ i = 2 \/ i = 3 \/ i = 4  OBVIOUS
  <2> QED  BY <1>2, <1>3, <1>4, <2>1, <2>2 DEF Measured
<1>6. E[0] = 0 /\ \A i \in 1..4 : E[i] = E[i - 1] + f[i].size
  BY <1>5, <1>3, EndsIs
<1> HIDE DEF E
<1>7. E[0] = 0 /\ E[1] = 4 /\ E[2] = 8 /\ E[3] = 12 /\ E[4] = 14
  BY <1>2, <1>4, <1>6
<1>8. Wire!Length["SCALED_PRESSURE2"] = Wire!Table["SCALED_PRESSURE2"].length
  <2>1. "SCALED_PRESSURE2" \in Wire!Names  BY DEF Wire!Names, Wire!Messages
  <2>2. Wire!Table["SCALED_PRESSURE2"].length = 14  BY DEF Wire!Table, Wire!Entry
  <2> QED  BY <1>3, <1>7, <2>1, <2>2 DEF Wire!Length, E, f
<1>9. ASSUME NEW r \in Wire!ReadsOf("SCALED_PRESSURE2", Excepted) PROVE Wire!Whole("SCALED_PRESSURE2", r)
  <2> DEFINE r1 == Wire!Read("temperature", 12, 2)
  <2>1. r \in Wire!Reads("SCALED_PRESSURE2")
    BY DEF Wire!ReadsOf
  <2>2. r = r1
    BY <2>1 DEF Wire!Reads
  <2>3. /\ r1.name = "temperature" /\ r1.nth = 0 /\ r1.from = 12 /\ r1.size = 2
    BY DEF Wire!Read
  <2> HIDE DEF r1
  <2>4. Wire!Whole("SCALED_PRESSURE2", r1)
    <3>1. 4 \in DOMAIN f /\ Wire!Offset("SCALED_PRESSURE2", 4) = 12
      BY <1>3, <1>7 DEF Wire!Offset, E, f
    <3> QED  BY <1>2, <1>4, <2>3, <3>1 DEF Wire!Whole, f
  <2> QED  BY <2>2, <2>4
<1> QED  BY <1>5, <1>8, <1>9 DEF Laid, f

LEMMA NamedValueIntLaid == Laid("NAMED_VALUE_INT")
<1> DEFINE f == Wire!Messages["NAMED_VALUE_INT"].fields
           E == Wire!Ends(f)
           a1 == Wire!Field("time_boot_ms", 4)
           a2 == Wire!Field("value", 4)
           a3 == Wire!Field("name", 10)
<1>1. f = <<a1, a2, a3>>
  BY DEF Wire!Messages, Wire!NamedValueInt, Wire!TimeBootMs
<1>2. /\ a1.name = "time_boot_ms" /\ a1.nth = 0 /\ a1.size = 4
      /\ a2.name = "value" /\ a2.nth = 0 /\ a2.size = 4
      /\ a3.name = "name" /\ a3.nth = 0 /\ a3.size = 10
  BY DEF Wire!Field
<1> HIDE DEF f, a1, a2, a3
<1>3. Len(f) = 3 /\ DOMAIN f = 1..3
  BY <1>1
<1>4. f[1] = a1 /\ f[2] = a2 /\ f[3] = a3
  BY <1>1
<1>5. Measured(f)
  <2>1. Len(f) \in Nat /\ DOMAIN f = 1..Len(f)  BY <1>3
  <2>2. \A i \in 1..3 : i = 1 \/ i = 2 \/ i = 3  OBVIOUS
  <2> QED  BY <1>2, <1>3, <1>4, <2>1, <2>2 DEF Measured
<1>6. E[0] = 0 /\ \A i \in 1..3 : E[i] = E[i - 1] + f[i].size
  BY <1>5, <1>3, EndsIs
<1> HIDE DEF E
<1>7. E[0] = 0 /\ E[1] = 4 /\ E[2] = 8 /\ E[3] = 18
  BY <1>2, <1>4, <1>6
<1>8. Wire!Length["NAMED_VALUE_INT"] = Wire!Table["NAMED_VALUE_INT"].length
  <2>1. "NAMED_VALUE_INT" \in Wire!Names  BY DEF Wire!Names, Wire!Messages
  <2>2. Wire!Table["NAMED_VALUE_INT"].length = 18  BY DEF Wire!Table, Wire!Entry
  <2> QED  BY <1>3, <1>7, <2>1, <2>2 DEF Wire!Length, E, f
<1>9. Wire!Messages["NAMED_VALUE_INT"].crc = Wire!Table["NAMED_VALUE_INT"].magic
  BY DEF Wire!Messages, Wire!NamedValueInt, Wire!Table, Wire!Entry
<1>10. ASSUME NEW r \in Wire!ReadsOf("NAMED_VALUE_INT", Excepted) PROVE Wire!Whole("NAMED_VALUE_INT", r)
  <2> DEFINE r1 == Wire!Read("time_boot_ms", 0, 4)
             r2 == Wire!Read("value", 4, 4)
             r3 == Wire!Read("name", 8, 10)
  <2>1. r \in Wire!Reads("NAMED_VALUE_INT")
    BY DEF Wire!ReadsOf
  <2>2. r = r1 \/ r = r2 \/ r = r3
    BY <2>1 DEF Wire!Reads
  <2>3. /\ r1.name = "time_boot_ms" /\ r1.nth = 0 /\ r1.from = 0 /\ r1.size = 4
        /\ r2.name = "value" /\ r2.nth = 0 /\ r2.from = 4 /\ r2.size = 4
        /\ r3.name = "name" /\ r3.nth = 0 /\ r3.from = 8 /\ r3.size = 10
    BY DEF Wire!Read
  <2> HIDE DEF r1, r2, r3
  <2>4. Wire!Whole("NAMED_VALUE_INT", r1)
    <3>1. 1 \in DOMAIN f /\ Wire!Offset("NAMED_VALUE_INT", 1) = 0
      BY <1>3, <1>7 DEF Wire!Offset, E, f
    <3> QED  BY <1>2, <1>4, <2>3, <3>1 DEF Wire!Whole, f
  <2>5. Wire!Whole("NAMED_VALUE_INT", r2)
    <3>1. 2 \in DOMAIN f /\ Wire!Offset("NAMED_VALUE_INT", 2) = 4
      BY <1>3, <1>7 DEF Wire!Offset, E, f
    <3> QED  BY <1>2, <1>4, <2>3, <3>1 DEF Wire!Whole, f
  <2>6. Wire!Whole("NAMED_VALUE_INT", r3)
    <3>1. 3 \in DOMAIN f /\ Wire!Offset("NAMED_VALUE_INT", 3) = 8
      BY <1>3, <1>7 DEF Wire!Offset, E, f
    <3> QED  BY <1>2, <1>4, <2>3, <3>1 DEF Wire!Whole, f
  <2> QED  BY <2>2, <2>4, <2>5, <2>6
<1> QED  BY <1>5, <1>8, <1>9, <1>10 DEF Laid, f

LEMMA EncapsulatedDataLaid == Laid("ENCAPSULATED_DATA")
<1> DEFINE f == Wire!Messages["ENCAPSULATED_DATA"].fields
           E == Wire!Ends(f)
           a1 == Wire!Field("seqnr", 2)
           a2 == Wire!Field("data", 253)
<1>1. f = <<a1, a2>>
  BY DEF Wire!Messages, Wire!EncapsulatedData
<1>2. /\ a1.name = "seqnr" /\ a1.nth = 0 /\ a1.size = 2
      /\ a2.name = "data" /\ a2.nth = 0 /\ a2.size = 253
  BY DEF Wire!Field
<1> HIDE DEF f, a1, a2
<1>3. Len(f) = 2 /\ DOMAIN f = 1..2
  BY <1>1
<1>4. f[1] = a1 /\ f[2] = a2
  BY <1>1
<1>5. Measured(f)
  <2>1. Len(f) \in Nat /\ DOMAIN f = 1..Len(f)  BY <1>3
  <2>2. \A i \in 1..2 : i = 1 \/ i = 2  OBVIOUS
  <2> QED  BY <1>2, <1>3, <1>4, <2>1, <2>2 DEF Measured
<1>6. E[0] = 0 /\ \A i \in 1..2 : E[i] = E[i - 1] + f[i].size
  BY <1>5, <1>3, EndsIs
<1> HIDE DEF E
<1>7. E[0] = 0 /\ E[1] = 2 /\ E[2] = 255
  BY <1>2, <1>4, <1>6
<1>8. Wire!Length["ENCAPSULATED_DATA"] = Wire!Table["ENCAPSULATED_DATA"].length
  <2>1. "ENCAPSULATED_DATA" \in Wire!Names  BY DEF Wire!Names, Wire!Messages
  <2>2. Wire!Table["ENCAPSULATED_DATA"].length = 255  BY DEF Wire!Table, Wire!Entry
  <2> QED  BY <1>3, <1>7, <2>1, <2>2 DEF Wire!Length, E, f
<1>9. Wire!Messages["ENCAPSULATED_DATA"].crc = Wire!Table["ENCAPSULATED_DATA"].magic
  BY DEF Wire!Messages, Wire!EncapsulatedData, Wire!Table, Wire!Entry
<1>10. ASSUME NEW r \in Wire!ReadsOf("ENCAPSULATED_DATA", Excepted) PROVE Wire!Whole("ENCAPSULATED_DATA", r)
  BY DEF Wire!ReadsOf, Wire!Reads
<1> QED  BY <1>5, <1>8, <1>9, <1>10 DEF Laid, f

LEMMA StatusTextLaid == Laid("STATUSTEXT")
<1> DEFINE f == Wire!Messages["STATUSTEXT"].fields
           E == Wire!Ends(f)
           a1 == Wire!Field("severity", 1)
           a2 == Wire!Field("text", 50)
<1>1. f = <<a1, a2>>
  BY DEF Wire!Messages, Wire!StatusText
<1>2. /\ a1.name = "severity" /\ a1.nth = 0 /\ a1.size = 1
      /\ a2.name = "text" /\ a2.nth = 0 /\ a2.size = 50
  BY DEF Wire!Field
<1> HIDE DEF f, a1, a2
<1>3. Len(f) = 2 /\ DOMAIN f = 1..2
  BY <1>1
<1>4. f[1] = a1 /\ f[2] = a2
  BY <1>1
<1>5. Measured(f)
  <2>1. Len(f) \in Nat /\ DOMAIN f = 1..Len(f)  BY <1>3
  <2>2. \A i \in 1..2 : i = 1 \/ i = 2  OBVIOUS
  <2> QED  BY <1>2, <1>3, <1>4, <2>1, <2>2 DEF Measured
<1>6. E[0] = 0 /\ \A i \in 1..2 : E[i] = E[i - 1] + f[i].size
  BY <1>5, <1>3, EndsIs
<1> HIDE DEF E
<1>7. E[0] = 0 /\ E[1] = 1 /\ E[2] = 51
  BY <1>2, <1>4, <1>6
<1>8. Wire!Length["STATUSTEXT"] = Wire!Table["STATUSTEXT"].length
  <2>1. "STATUSTEXT" \in Wire!Names  BY DEF Wire!Names, Wire!Messages
  <2>2. Wire!Table["STATUSTEXT"].length = 51  BY DEF Wire!Table, Wire!Entry
  <2> QED  BY <1>3, <1>7, <2>1, <2>2 DEF Wire!Length, E, f
<1>9. Wire!Messages["STATUSTEXT"].crc = Wire!Table["STATUSTEXT"].magic
  BY DEF Wire!Messages, Wire!StatusText, Wire!Table, Wire!Entry
<1>10. ASSUME NEW r \in Wire!ReadsOf("STATUSTEXT", Excepted) PROVE Wire!Whole("STATUSTEXT", r)
  BY DEF Wire!ReadsOf, Wire!Reads
<1> QED  BY <1>5, <1>8, <1>9, <1>10 DEF Laid, f

LEMMA SystemTimeLaid == Laid("SYSTEM_TIME")
<1> DEFINE f == Wire!Messages["SYSTEM_TIME"].fields
           E == Wire!Ends(f)
           a1 == Wire!Field("time_unix_usec", 8)
           a2 == Wire!Field("time_boot_ms", 4)
<1>1. f = <<a1, a2>>
  BY DEF Wire!Messages, Wire!SystemTime, Wire!TimeBootMs
<1>2. /\ a1.name = "time_unix_usec" /\ a1.nth = 0 /\ a1.size = 8
      /\ a2.name = "time_boot_ms" /\ a2.nth = 0 /\ a2.size = 4
  BY DEF Wire!Field
<1> HIDE DEF f, a1, a2
<1>3. Len(f) = 2 /\ DOMAIN f = 1..2
  BY <1>1
<1>4. f[1] = a1 /\ f[2] = a2
  BY <1>1
<1>5. Measured(f)
  <2>1. Len(f) \in Nat /\ DOMAIN f = 1..Len(f)  BY <1>3
  <2>2. \A i \in 1..2 : i = 1 \/ i = 2  OBVIOUS
  <2> QED  BY <1>2, <1>3, <1>4, <2>1, <2>2 DEF Measured
<1>6. E[0] = 0 /\ \A i \in 1..2 : E[i] = E[i - 1] + f[i].size
  BY <1>5, <1>3, EndsIs
<1> HIDE DEF E
<1>7. E[0] = 0 /\ E[1] = 8 /\ E[2] = 12
  BY <1>2, <1>4, <1>6
<1>8. Wire!Length["SYSTEM_TIME"] = Wire!Table["SYSTEM_TIME"].length
  <2>1. "SYSTEM_TIME" \in Wire!Names  BY DEF Wire!Names, Wire!Messages
  <2>2. Wire!Table["SYSTEM_TIME"].length = 12  BY DEF Wire!Table, Wire!Entry
  <2> QED  BY <1>3, <1>7, <2>1, <2>2 DEF Wire!Length, E, f
<1>9. Wire!Messages["SYSTEM_TIME"].crc = Wire!Table["SYSTEM_TIME"].magic
  BY DEF Wire!Messages, Wire!SystemTime, Wire!Table, Wire!Entry
<1>10. ASSUME NEW r \in Wire!ReadsOf("SYSTEM_TIME", Excepted) PROVE Wire!Whole("SYSTEM_TIME", r)
  <2> DEFINE r1 == Wire!Read("time_unix_usec", 0, 8)
  <2>1. r \in Wire!Reads("SYSTEM_TIME")
    BY DEF Wire!ReadsOf
  <2>2. r = r1
    BY <2>1 DEF Wire!Reads
  <2>3. /\ r1.name = "time_unix_usec" /\ r1.nth = 0 /\ r1.from = 0 /\ r1.size = 8
    BY DEF Wire!Read
  <2> HIDE DEF r1
  <2>4. Wire!Whole("SYSTEM_TIME", r1)
    <3>1. 1 \in DOMAIN f /\ Wire!Offset("SYSTEM_TIME", 1) = 0
      BY <1>3, <1>7 DEF Wire!Offset, E, f
    <3> QED  BY <1>2, <1>4, <2>3, <3>1 DEF Wire!Whole, f
  <2> QED  BY <2>2, <2>4
<1> QED  BY <1>5, <1>8, <1>9, <1>10 DEF Laid, f

LEMMA WindLaid == Laid("WIND")
<1> DEFINE f == Wire!Messages["WIND"].fields
           E == Wire!Ends(f)
           a1 == Wire!Field("direction", 4)
           a2 == Wire!Field("speed", 4)
           a3 == Wire!Field("speed_z", 4)
<1>1. f = <<a1, a2, a3>>
  BY DEF Wire!Messages, Wire!Wind
<1>2. /\ a1.name = "direction" /\ a1.nth = 0 /\ a1.size = 4
      /\ a2.name = "speed" /\ a2.nth = 0 /\ a2.size = 4
      /\ a3.name = "speed_z" /\ a3.nth = 0 /\ a3.size = 4
  BY DEF Wire!Field
<1> HIDE DEF f, a1, a2, a3
<1>3. Len(f) = 3 /\ DOMAIN f = 1..3
  BY <1>1
<1>4. f[1] = a1 /\ f[2] = a2 /\ f[3] = a3
  BY <1>1
<1>5. Measured(f)
  <2>1. Len(f) \in Nat /\ DOMAIN f = 1..Len(f)  BY <1>3
  <2>2. \A i \in 1..3 : i = 1 \/ i = 2 \/ i = 3  OBVIOUS
  <2> QED  BY <1>2, <1>3, <1>4, <2>1, <2>2 DEF Measured
<1>6. E[0] = 0 /\ \A i \in 1..3 : E[i] = E[i - 1] + f[i].size
  BY <1>5, <1>3, EndsIs
<1> HIDE DEF E
<1>7. E[0] = 0 /\ E[1] = 4 /\ E[2] = 8 /\ E[3] = 12
  BY <1>2, <1>4, <1>6
<1>8. Wire!Length["WIND"] = Wire!Table["WIND"].length
  <2>1. "WIND" \in Wire!Names  BY DEF Wire!Names, Wire!Messages
  <2>2. Wire!Table["WIND"].length = 12  BY DEF Wire!Table, Wire!Entry
  <2> QED  BY <1>3, <1>7, <2>1, <2>2 DEF Wire!Length, E, f
<1>9. Wire!Messages["WIND"].crc = Wire!Table["WIND"].magic
  BY DEF Wire!Messages, Wire!Wind, Wire!Table, Wire!Entry
<1>10. ASSUME NEW r \in Wire!ReadsOf("WIND", Excepted) PROVE Wire!Whole("WIND", r)
  <2> DEFINE r1 == Wire!Read("direction", 0, 4)
             r2 == Wire!Read("speed", 4, 4)
  <2>1. r \in Wire!Reads("WIND")
    BY DEF Wire!ReadsOf
  <2>2. r = r1 \/ r = r2
    BY <2>1 DEF Wire!Reads
  <2>3. /\ r1.name = "direction" /\ r1.nth = 0 /\ r1.from = 0 /\ r1.size = 4
        /\ r2.name = "speed" /\ r2.nth = 0 /\ r2.from = 4 /\ r2.size = 4
    BY DEF Wire!Read
  <2> HIDE DEF r1, r2
  <2>4. Wire!Whole("WIND", r1)
    <3>1. 1 \in DOMAIN f /\ Wire!Offset("WIND", 1) = 0
      BY <1>3, <1>7 DEF Wire!Offset, E, f
    <3> QED  BY <1>2, <1>4, <2>3, <3>1 DEF Wire!Whole, f
  <2>5. Wire!Whole("WIND", r2)
    <3>1. 2 \in DOMAIN f /\ Wire!Offset("WIND", 2) = 4
      BY <1>3, <1>7 DEF Wire!Offset, E, f
    <3> QED  BY <1>2, <1>4, <2>3, <3>1 DEF Wire!Whole, f
  <2> QED  BY <2>2, <2>4, <2>5
<1> QED  BY <1>5, <1>8, <1>9, <1>10 DEF Laid, f

(* The two messages with channels between other fields: a channel every two bytes from the
   fifth byte on. *)
WithChannels(n, p, q) == (<<Wire!TimeBootMs>> \o Wire!Chans(n)) \o <<p, q>>
ChannelsAt(f, n, p, q) ==
  /\ Measured(f) /\ Len(f) = n + 3
  /\ f[n + 2] = p /\ f[n + 3] = q /\ \A i \in 1..n : f[i + 1] = Wire!Chan(i)
  /\ \A i \in 0..n : Wire!Ends(f)[i + 1] = 4 + 2 * i
  /\ Wire!Ends(f)[n + 2] = 5 + 2 * n /\ Wire!Ends(f)[n + 3] = 6 + 2 * n

LEMMA Channels ==
  ASSUME NEW n \in Nat, NEW p, NEW q, p.size = 1, q.size = 1,
         NEW f, f = WithChannels(n, p, q)
  PROVE ChannelsAt(f, n, p, q)
<1> DEFINE t == Wire!TimeBootMs
           c == Wire!Chans(n)
           E == Wire!Ends(f)
<1>1. c \in Seq({Wire!Chan(i) : i \in 1..n}) /\ Len(c) = n /\ \A i \in 1..n : c[i] = Wire!Chan(i)
  <2> DEFINE C == {Wire!Chan(i) : i \in 1..n}
  <2>1. \A i \in 1..n : Wire!Chan(i) \in C  OBVIOUS
  <2>2. c = [i \in 1..n |-> Wire!Chan(i)]  BY DEF Wire!Chans
  <2> HIDE DEF c, C
  <2>3. c \in [1..n -> C]  BY <2>1, <2>2
  <2>4. \A i \in 1..n : c[i] = Wire!Chan(i)  BY <2>2
  <2>5. DOMAIN c = 1..n /\ c \in Seq(C)  BY <2>3
  <2>6. Len(c) = n  BY <2>5
  <2> QED  BY <2>4, <2>5, <2>6 DEF C
<1>2. t.size = 4 /\ \A i \in 1..n : Wire!Chan(i).size = 2
  BY DEF Wire!TimeBootMs, Wire!Field, Wire!Chan
<1>3. f = (<<t>> \o c) \o <<p, q>>  BY DEF WithChannels
<1> HIDE DEF t, c
<1> DEFINE h == <<t>> \o c
           All == {t, p, q} \cup {Wire!Chan(i) : i \in 1..n}
<1>4. c \in Seq(All) /\ <<t>> \in Seq(All) /\ <<p, q>> \in Seq(All)  BY <1>1
<1> HIDE DEF All
<1>5. h \in Seq(All) /\ Len(h) = n + 1 /\ h[1] = t /\ \A i \in 1..n : h[i + 1] = c[i]
  BY <1>1, <1>4
<1> HIDE DEF h
<1>6. f = h \o <<p, q>>  BY <1>3 DEF h
<1>7. Len(f) = n + 3 /\ f[1] = t /\ f[n + 2] = p /\ f[n + 3] = q
  BY <1>4, <1>5, <1>6
<1>8. \A i \in 1..n : f[i + 1] = Wire!Chan(i)
  <2> TAKE i \in 1..n
  <2>1. i + 1 \in 1..Len(h)  BY <1>5
  <2>2. f[i + 1] = h[i + 1]  BY <1>4, <1>5, <1>6, <2>1
  <2> QED  BY <1>1, <1>5, <2>2
<1>9. Measured(f)
  <2>1. \A i \in 1..(n + 3) : i = 1 \/ (i - 1 \in 1..n /\ i = (i - 1) + 1) \/ i = n + 2 \/ i = n + 3
    OBVIOUS
  <2>2. p.size \in Nat /\ q.size \in Nat /\ t.size \in Nat /\ \A i \in 1..n : f[i + 1].size \in Nat
    BY <1>2, <1>8
  <2>3. ASSUME NEW i \in 1..(n + 3) PROVE f[i].size \in Nat
    <3>1. CASE i - 1 \in 1..n
      <4> DEFINE k == i - 1
      <4>1. k \in 1..n /\ i = k + 1  BY <3>1
      <4> HIDE DEF k
      <4> QED  BY <2>2, <4>1
    <3> QED  BY <1>7, <2>1, <2>2, <3>1
  <2>4. Len(f) \in Nat /\ Len(f) = n + 3 /\ DOMAIN f = 1..Len(f)  BY <1>4, <1>5, <1>6, <1>7
  <2> QED  BY <2>3, <2>4 DEF Measured
<1>10. E[0] = 0 /\ \A i \in 1..(n + 3) : E[i] = E[i - 1] + f[i].size
  BY <1>7, <1>9, EndsIs
<1> HIDE DEF E
<1> DEFINE S == {i \in Nat : i <= n => E[i + 1] = 4 + 2 * i}
<1>11. Nat \subseteq S
  <2>1. 0 \in S  BY <1>2, <1>7, <1>10
  <2>2. ASSUME NEW i \in Nat, i \in S PROVE i + 1 \in S
    <3> SUFFICES ASSUME i + 1 <= n PROVE E[(i + 1) + 1] = 4 + 2 * (i + 1)  OBVIOUS
    <3>1. i + 1 \in 1..n /\ (i + 1) + 1 \in 1..(n + 3) /\ ((i + 1) + 1) - 1 = i + 1  OBVIOUS
    <3>2. f[(i + 1) + 1].size = 2  BY <1>2, <1>8, <3>1
    <3>3. E[(i + 1) + 1] = E[i + 1] + f[(i + 1) + 1].size  BY <1>10, <3>1
    <3> QED  BY <2>2, <3>1, <3>2, <3>3
  <2> HIDE DEF S
  <2> QED  BY <2>1, <2>2, Induction
<1>12. \A i \in 0..n : E[i + 1] = 4 + 2 * i  BY <1>11
<1>13. E[n + 2] = 5 + 2 * n
  <2>1. n + 2 \in 1..(n + 3) /\ (n + 2) - 1 = n + 1 /\ n \in 0..n  OBVIOUS
  <2>2. E[n + 1] = 4 + 2 * n  BY <1>12, <2>1
  <2>3. E[n + 2] = E[n + 1] + f[n + 2].size  BY <1>10, <2>1
  <2>4. f[n + 2].size = 1  BY <1>7
  <2>5. (4 + 2 * n) + 1 = 5 + 2 * n  OBVIOUS
  <2> QED  BY Zenon, <2>2, <2>3, <2>4, <2>5
<1>14. E[n + 3] = 6 + 2 * n
  <2>1. n + 3 \in 1..(n + 3) /\ (n + 3) - 1 = n + 2  OBVIOUS
  <2>2. E[n + 3] = E[n + 2] + f[n + 3].size  BY <1>10, <2>1
  <2>3. f[n + 3].size = 1  BY <1>7
  <2>4. (5 + 2 * n) + 1 = 6 + 2 * n  OBVIOUS
  <2> QED  BY Zenon, <1>13, <2>2, <2>3, <2>4
<1> QED  BY <1>7, <1>8, <1>9, <1>12, <1>13, <1>14 DEF ChannelsAt, E

(* A read of a channel is of the whole channel. *)
LEMMA ChannelWhole ==
  ASSUME NEW m, NEW n \in Nat, NEW f, f = Wire!Messages[m].fields, DOMAIN f = 1..(n + 3),
         \A i \in 1..n : f[i + 1] = Wire!Chan(i),
         \A i \in 0..n : Wire!Ends(f)[i + 1] = 4 + 2 * i,
         NEW k \in 1..n, NEW r \in Wire!ReadChans(k)
  PROVE Wire!Whole(m, r)
<1>1. PICK i \in 1..k : r = [name |-> "chan", nth |-> i, from |-> 2 + 2 * i, size |-> 2]
  BY DEF Wire!ReadChans
<1>2. i \in 1..n /\ i \in Nat /\ i - 1 \in 0..n /\ (i - 1) + 1 = i /\ i + 1 \in 1..(n + 3)
      /\ (i + 1) - 1 = i
  BY <1>1
<1>3. f[i + 1] = Wire!Chan(i)  BY <1>2
<1>4. Wire!Ends(f)[i] = 4 + 2 * (i - 1)  BY <1>2
<1>5. Wire!Offset(m, i + 1) = 2 + 2 * i  BY <1>2, <1>4 DEF Wire!Offset
<1>6. f[i + 1].name = "chan" /\ f[i + 1].nth = i /\ f[i + 1].size = 2  BY <1>3 DEF Wire!Chan
<1>7. r.name = "chan" /\ r.nth = i /\ r.from = 2 + 2 * i /\ r.size = 2  BY <1>1
<1> QED  BY <1>2, <1>5, <1>6, <1>7 DEF Wire!Whole

(* The last two of the messages. *)
LEMMA RcChannelsRawLaid == Laid("RC_CHANNELS_RAW")
<1> DEFINE f == Wire!Messages["RC_CHANNELS_RAW"].fields
           E == Wire!Ends(f)
           p == Wire!Field("port", 1)
           q == Wire!Field("rssi", 1)
<1>1. f = WithChannels(8, p, q)
  BY DEF WithChannels, Wire!Messages, Wire!RcChannelsRaw
<1>2. /\ p.name = "port" /\ p.nth = 0 /\ p.size = 1
      /\ q.name = "rssi" /\ q.nth = 0 /\ q.size = 1
  BY DEF Wire!Field
<1> HIDE DEF f, p, q
<1>3. /\ Measured(f) /\ Len(f) = 8 + 3
      /\ f[8 + 2] = p /\ f[8 + 3] = q /\ \A i \in 1..8 : f[i + 1] = Wire!Chan(i)
      /\ \A i \in 0..8 : E[i + 1] = 4 + 2 * i
      /\ E[8 + 2] = 5 + 2 * 8 /\ E[8 + 3] = 6 + 2 * 8
  <2>1. 8 \in Nat  OBVIOUS
  <2>2. ChannelsAt(f, 8, p, q)  BY Zenon, <1>1, <1>2, <2>1, Channels
  <2> QED  BY <2>2 DEF ChannelsAt
<1> HIDE DEF E
<1>4. DOMAIN f = 1..11 /\ f[10] = p /\ f[11] = q /\ E[9] = 20 /\ E[10] = 21 /\ E[11] = 22 /\ Len(f) = 11
  <2>1. E[8 + 1] = 4 + 2 * 8  BY <1>3
  <2>2. DOMAIN f = 1..Len(f)  BY <1>3 DEF Measured
  <2> QED  BY <1>3, <2>1, <2>2
<1>5. Wire!Length["RC_CHANNELS_RAW"] = Wire!Table["RC_CHANNELS_RAW"].length
  <2>1. "RC_CHANNELS_RAW" \in Wire!Names  BY DEF Wire!Names, Wire!Messages
  <2>2. Wire!Table["RC_CHANNELS_RAW"].length = 22  BY DEF Wire!Table, Wire!Entry
  <2> QED  BY <1>4, <2>1, <2>2 DEF Wire!Length, E, f
<1>6. Wire!Messages["RC_CHANNELS_RAW"].crc = Wire!Table["RC_CHANNELS_RAW"].magic
  BY DEF Wire!Messages, Wire!RcChannelsRaw, Wire!Table, Wire!Entry
<1>7. ASSUME NEW r \in Wire!ReadsOf("RC_CHANNELS_RAW", Excepted)
      PROVE Wire!Whole("RC_CHANNELS_RAW", r)
  <2> DEFINE r1 == Wire!Read("port", 20, 1)
             r2 == Wire!Read("rssi", 21, 1)
  <2>1. r \in Wire!ReadChans(8) \/ r = r1 \/ r = r2
    BY DEF Wire!ReadsOf, Wire!Reads
  <2>2. /\ r1.name = "port" /\ r1.nth = 0 /\ r1.from = 20 /\ r1.size = 1
        /\ r2.name = "rssi" /\ r2.nth = 0 /\ r2.from = 21 /\ r2.size = 1
    BY DEF Wire!Read
  <2> HIDE DEF r1, r2
  <2>3. Wire!Whole("RC_CHANNELS_RAW", r1)
    <3>1. 10 \in DOMAIN f /\ Wire!Offset("RC_CHANNELS_RAW", 10) = 20
      BY <1>4 DEF Wire!Offset, E, f
    <3> QED  BY <1>2, <1>4, <2>2, <3>1 DEF Wire!Whole, f
  <2>4. Wire!Whole("RC_CHANNELS_RAW", r2)
    <3>1. 11 \in DOMAIN f /\ Wire!Offset("RC_CHANNELS_RAW", 11) = 21
      BY <1>4 DEF Wire!Offset, E, f
    <3> QED  BY <1>2, <1>4, <2>2, <3>1 DEF Wire!Whole, f
  <2>5. CASE r \in Wire!ReadChans(8)
    <3>1. 8 \in Nat /\ 8 \in 1..8 /\ DOMAIN f = 1..(8 + 3)  BY <1>4
    <3>2. f = Wire!Messages["RC_CHANNELS_RAW"].fields  BY DEF f
    <3>3. \A i \in 1..8 : f[i + 1] = Wire!Chan(i)  BY <1>3
    <3>4. \A i \in 0..8 : Wire!Ends(f)[i + 1] = 4 + 2 * i  BY <1>3 DEF E
    <3> QED  BY Zenon, <2>5, <3>1, <3>2, <3>3, <3>4, ChannelWhole
  <2> QED  BY <2>1, <2>3, <2>4, <2>5
<1> QED  BY <1>3, <1>5, <1>6, <1>7 DEF Laid, f

LEMMA RcChannelsLaid == Laid("RC_CHANNELS")
<1> DEFINE f == Wire!Messages["RC_CHANNELS"].fields
           E == Wire!Ends(f)
           p == Wire!Field("chancount", 1)
           q == Wire!Field("rssi", 1)
<1>1. f = WithChannels(18, p, q)
  BY DEF WithChannels, Wire!Messages, Wire!RcChannels
<1>2. /\ p.name = "chancount" /\ p.nth = 0 /\ p.size = 1
      /\ q.name = "rssi" /\ q.nth = 0 /\ q.size = 1
  BY DEF Wire!Field
<1> HIDE DEF f, p, q
<1>3. /\ Measured(f) /\ Len(f) = 18 + 3
      /\ f[18 + 2] = p /\ f[18 + 3] = q /\ \A i \in 1..18 : f[i + 1] = Wire!Chan(i)
      /\ \A i \in 0..18 : E[i + 1] = 4 + 2 * i
      /\ E[18 + 2] = 5 + 2 * 18 /\ E[18 + 3] = 6 + 2 * 18
  <2>1. 18 \in Nat  OBVIOUS
  <2>2. ChannelsAt(f, 18, p, q)  BY Zenon, <1>1, <1>2, <2>1, Channels
  <2> QED  BY <2>2 DEF ChannelsAt
<1> HIDE DEF E
<1>4. DOMAIN f = 1..21 /\ f[20] = p /\ f[21] = q /\ E[19] = 40 /\ E[20] = 41 /\ E[21] = 42 /\ Len(f) = 21
  <2>1. E[18 + 1] = 4 + 2 * 18  BY <1>3
  <2>2. DOMAIN f = 1..Len(f)  BY <1>3 DEF Measured
  <2> QED  BY <1>3, <2>1, <2>2
<1>5. Wire!Length["RC_CHANNELS"] = Wire!Table["RC_CHANNELS"].length
  <2>1. "RC_CHANNELS" \in Wire!Names  BY DEF Wire!Names, Wire!Messages
  <2>2. Wire!Table["RC_CHANNELS"].length = 42  BY DEF Wire!Table, Wire!Entry
  <2> QED  BY <1>4, <2>1, <2>2 DEF Wire!Length, E, f
<1>6. Wire!Messages["RC_CHANNELS"].crc = Wire!Table["RC_CHANNELS"].magic
  BY DEF Wire!Messages, Wire!RcChannels, Wire!Table, Wire!Entry
<1>7. ASSUME NEW r \in Wire!ReadsOf("RC_CHANNELS", Excepted)
      PROVE Wire!Whole("RC_CHANNELS", r)
  <2> DEFINE r1 == Wire!Read("rssi", 41, 1)
  <2>1. r \in Wire!ReadChans(16) \/ r = r1
    BY DEF Wire!ReadsOf, Wire!Reads
  <2>2. r1.name = "rssi" /\ r1.nth = 0 /\ r1.from = 41 /\ r1.size = 1
    BY DEF Wire!Read
  <2> HIDE DEF r1
  <2>3. Wire!Whole("RC_CHANNELS", r1)
    <3>1. 21 \in DOMAIN f /\ Wire!Offset("RC_CHANNELS", 21) = 41
      BY <1>4 DEF Wire!Offset, E, f
    <3> QED  BY <1>2, <1>4, <2>2, <3>1 DEF Wire!Whole, f
  <2>4. CASE r \in Wire!ReadChans(16)
    <3>1. 18 \in Nat /\ 16 \in 1..18 /\ DOMAIN f = 1..(18 + 3)  BY <1>4
    <3>2. f = Wire!Messages["RC_CHANNELS"].fields  BY DEF f
    <3>3. \A i \in 1..18 : f[i + 1] = Wire!Chan(i)  BY <1>3
    <3>4. \A i \in 0..18 : Wire!Ends(f)[i + 1] = 4 + 2 * i  BY <1>3 DEF E
    <3> QED  BY Zenon, <2>4, <3>1, <3>2, <3>3, <3>4, ChannelWhole
  <2> QED  BY <2>1, <2>3, <2>4
<1> QED  BY <1>3, <1>5, <1>6, <1>7 DEF Laid, f

(* Of every message the OSD knows: its table has the length and the checksum's seed the
   sender has, and every read is of a whole field. *)
LEMMA AllLaid ==
  ASSUME NEW m \in Wire!Names
  PROVE Laid(m)
<1>1. m \in {"HEARTBEAT", "VFR_HUD", "ATTITUDE", "GPS_RAW_INT", "RC_CHANNELS_RAW", "RC_CHANNELS",
             "SYS_STATUS", "NAV_CONTROLLER_OUTPUT", "MISSION_CURRENT", "SCALED_PRESSURE",
             "SCALED_PRESSURE2", "NAMED_VALUE_INT", "ENCAPSULATED_DATA", "STATUSTEXT",
             "SYSTEM_TIME", "WIND"}
  BY DEF Wire!Names, Wire!Messages
<1> QED
  BY Zenon, <1>1, HeartbeatLaid, VfrHudLaid, AttitudeLaid, GpsRawIntLaid, RcChannelsRawLaid,
     RcChannelsLaid, SysStatusLaid, NavControllerOutputLaid, MissionCurrentLaid,
     ScaledPressureLaid, ScaledPressure2Laid, NamedValueIntLaid, EncapsulatedDataLaid,
     StatusTextLaid, SystemTimeLaid, WindLaid

(* No message but the tunnel's is longer than the text, which the buffer can take. *)
LEMMA TableFits ==
  ASSUME NEW m \in Wire!Names, m # "ENCAPSULATED_DATA"
  PROVE Wire!Table[m].length \in 0..51
<1>1. m \in {"HEARTBEAT", "VFR_HUD", "ATTITUDE", "GPS_RAW_INT", "RC_CHANNELS_RAW", "RC_CHANNELS",
             "SYS_STATUS", "NAV_CONTROLLER_OUTPUT", "MISSION_CURRENT", "SCALED_PRESSURE",
             "SCALED_PRESSURE2", "NAMED_VALUE_INT", "STATUSTEXT", "SYSTEM_TIME", "WIND"}
  BY DEF Wire!Names, Wire!Messages
<1> QED  BY <1>1 DEF Wire!Table, Wire!Entry

(* Nothing is received, or the buffer holds the bytes of the message received last that it
   has room for, and no others. *)
WireInv ==
  /\ DOMAIN serialBuffer = 0..(WireBuffer - 1)
  /\ \/ received = Wire!None /\ ~handled
     \/ /\ received \in Wire!Names
        /\ handled <=> Wire!Taken(received)
                         /\ Wire!Messages[received].crc = Wire!Table[received].magic
        /\ serialBuffer = [k \in 0..(WireBuffer - 1) |-> Wire!Stored(received, k)]

(* The OSD takes every message the senders pack. *)
LEMMA ReceivedIsTaken ==
  ASSUME Wire!WireAssumption, NEW m \in Wire!Names
  PROVE Wire!Taken(m)
<1>1. Laid(m)  BY AllLaid
<1>2. Wire!Length[m] = Wire!Table[m].length  BY <1>1 DEF Laid
<1>3. CASE m = "ENCAPSULATED_DATA"  BY <1>2, <1>3 DEF Wire!Taken, Wire!Fits
<1>4. CASE m # "ENCAPSULATED_DATA"
  <2>1. Wire!Table[m].length \in 0..51  BY <1>4, TableFits
  <2>2. WireBuffer \in Nat /\ WireBuffer > 51  BY DEF Wire!WireAssumption
  <2>3. Wire!Length[m] < WireBuffer  BY <1>2, <2>1, <2>2
  <2> QED  BY <1>2, <2>3 DEF Wire!Taken, Wire!Fits
<1> QED  BY <1>3, <1>4

(* A field that is read whole came with the message: it ends where the message does at the
   latest. *)
LEMMA WholeIsOwn ==
  ASSUME Wire!WireAssumption, WireInv, handled,
         NEW r \in Wire!ReadsOf(received, Excepted)
  PROVE Wire!Own(r)
<1> DEFINE f == Wire!Messages[received].fields
           E == Wire!Ends(f)
<1>1. received \in Wire!Names /\ serialBuffer = [k \in 0..(WireBuffer - 1) |-> Wire!Stored(received, k)]
  BY DEF WireInv
<1>2. Laid(received) /\ Wire!Taken(received)  BY <1>1, AllLaid, ReceivedIsTaken
<1>3. received # "ENCAPSULATED_DATA"  BY DEF Wire!ReadsOf, Wire!Reads
<1>4. PICK i \in DOMAIN f : Wire!Offset(received, i) = r.from /\ f[i].size = r.size
  BY <1>2 DEF Laid, Wire!Whole
<1>5. Measured(f)  BY <1>2 DEF Laid
<1>6. Wire!Length[received] = E[Len(f)]  BY <1>1 DEF Wire!Length
<1>7. r.from = E[i - 1]  BY <1>4 DEF Wire!Offset
<1>8. Wire!Length[received] \in Nat /\ Wire!Length[received] < WireBuffer
  <2>1. Wire!Table[received].length \in 0..51  BY <1>1, <1>3, TableFits
  <2>2. WireBuffer \in Nat /\ WireBuffer > 51  BY DEF Wire!WireAssumption
  <2> QED  BY <1>2, <2>1, <2>2 DEF Laid
<1>9. DOMAIN f = 1..Len(f)  BY <1>5 DEF Measured
<1> HIDE DEF f, E
<1>10. E[i] = E[i - 1] + f[i].size  BY <1>4, <1>5, <1>9, EndsIs DEF E
<1>11. E[i - 1] \in Nat /\ E[i] \in Nat /\ E[i] <= E[Len(f)]
  <2>1. i \in 0..Len(f) /\ i - 1 \in 0..Len(f)  BY <1>4, <1>5, <1>9 DEF Measured
  <2> QED  BY <1>5, <2>1, EndsGrow DEF E
<1>12. ASSUME NEW k \in r.from..(r.from + r.size - 1) PROVE serialBuffer[k]
  <2>1. f[i].size \in Nat  BY <1>4, <1>5, <1>9 DEF Measured
  <2>2. k \in Int /\ E[i - 1] <= k /\ k < E[i]  BY <1>4, <1>7, <1>10, <1>11, <2>1
  <2>3. k \in 0..(WireBuffer - 1) /\ k < Wire!Length[received]
    <3>1. WireBuffer \in Nat  BY DEF Wire!WireAssumption
    <3> QED  BY <1>6, <1>8, <1>11, <2>2, <3>1
  <2>4. Wire!Stored(received, k)  BY <1>2, <1>3, <2>3 DEF Wire!Stored, Wire!Buffered
  <2> QED  BY <1>1, <2>3, <2>4
<1> QED  BY <1>12 DEF Wire!Own

(* Every message the senders pack is handled, and its handler reads whole fields, and bytes
   of that message only (SerialMAVLINK.ino:165-685). *)
THEOREM MessagesAreRead ==
  ASSUME Wire!WireAssumption
  PROVE Wire!Spec => []MessagesRead
<1>1. Wire!Init => WireInv  BY DEF Wire!Init, WireInv
<1>2. WireInv /\ [Wire!Next]_(Wire!vars) => WireInv'
  <2> SUFFICES ASSUME WireInv, [Wire!Next]_(Wire!vars) PROVE WireInv'  OBVIOUS
  <2>1. ASSUME NEW m \in WireMessages, Wire!Receive(m) PROVE WireInv'
    <3>1. m \in Wire!Names  BY DEF Wire!WireAssumption
    <3>2. DOMAIN serialBuffer = 0..(WireBuffer - 1)  BY DEF WireInv
    <3> QED  BY <2>1, <3>1, <3>2 DEF Wire!Receive, WireInv
  <2>2. CASE UNCHANGED Wire!vars  BY <2>2 DEF WireInv, Wire!vars
  <2> QED  BY <2>1, <2>2 DEF Wire!Next
<1>3. WireInv => MessagesRead
  <2> SUFFICES ASSUME WireInv PROVE MessagesRead  OBVIOUS
  <2>1. Wire!EveryKindHandled
    <3> SUFFICES ASSUME received \notin {Wire!None, "SCALED_PRESSURE2"} PROVE handled
      BY DEF Wire!EveryKindHandled
    <3>1. received \in Wire!Names  BY DEF WireInv
    <3>2. Wire!Taken(received) /\ Laid(received)  BY <3>1, ReceivedIsTaken, AllLaid
    <3> QED  BY <3>2 DEF WireInv, Laid
  <2>2. Wire!ReadsOwnMessage  BY WholeIsOwn DEF Wire!ReadsOwnMessage, Excepted
  <2>3. Wire!ReadsWholeFields
    <3> SUFFICES ASSUME handled, NEW r \in Wire!ReadsOf(received, Excepted)
                 PROVE Wire!Whole(received, r)
      BY DEF Wire!ReadsWholeFields, Excepted
    <3>1. Laid(received)  BY AllLaid DEF WireInv
    <3> QED  BY <3>1 DEF Laid
  <2> QED  BY <2>1, <2>2, <2>3 DEF MessagesRead
<1> QED  BY <1>1, <1>2, <1>3, PTL DEF Wire!Spec
=============================================================================
