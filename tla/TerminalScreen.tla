---------------------------- MODULE TerminalScreen ----------------------------
(* The terminal frontend's screen (TuiVideo.cpp): every frame is laid out in a  *)
(* buffer of cells, and only the cells that differ from the last frame's are     *)
(* written to the terminal, all of them every refresh_full_divisor frames.       *)
EXTENDS Integers, Sequences, FiniteSets, SequencesExt

CONSTANTS
  Measures,        \* the numbers of the layout, at the size of this instance
  ScreenSizes,     \* [w, h] a terminal may have
  Views,           \* [mode, overlay, fullscreen, wide, alt, smart, content]: what is drawn
  Contents,        \* [content -> code]: what the Apple's text page holds throughout
  HostText,        \* the bytes of a host's name: one, or the lead and the tails of a character
  BranchRows,      \* [row -> "down" or "back"]: the debugger's rows that show a branch's arrow
  FirstLost,       \* the row at which a write may fail
  RefreshEvery,    \* refresh_full_divisor
  FlashEvery,      \* flash_divisor
  LargestWidth, LargestHeight      \* of the sizes whose layout is looked at

ASSUME ScreenAssumption ==
  /\ ScreenSizes \subseteq [w : Nat, h : Nat]
  /\ {FirstLost, LargestWidth, LargestHeight} \subseteq Nat
  /\ {RefreshEvery, FlashEvery} \subseteq Nat \ {0}

VARIABLES
  size,            \* term_width, term_height
  nextBuffer, backBuffer,  \* [cell -> what it holds]
  shown,           \* what the terminal shows there
  frameCount,      \* modulo what the refresh and the flash have in common
  picture,         \* picture_box, and for which view it was drawn
  inDoubt,         \* rows that may not show what was drawn last
  displaced        \* cells something landed in, or nothing did, behind a byte that is no character

screenVars == <<size, nextBuffer, backBuffer, shown, frameCount, picture, inDoubt, displaced>>

(* The source's own numbers, and the bytes of its footer.                       *)
Arrow == <<"lead", "tail", "tail">>
TuiMeasures ==
  [textRows |-> 24, narrow |-> 40, wide |-> 80, mixedLines |-> 4, status |-> 24,
   helpWidth |-> 66, helpLeast |-> 20, helpHeader |-> 3, helpBody |-> 23, separators |-> 4, compactBelow |-> 28,
   pickerInner |-> 66, pickerLeast |-> 40, pickerRows |-> 14, pickerFew |-> 4, pickerSmall |-> 24, pickerTall |-> 30, pickerHead |-> 5, pickerFoot |-> 3,
   debugWidth |-> 80, branchColumn |-> 48, disasmRows |-> 32, promptRow |-> 39,
   footer |-> Arrow \o <<"one">> \o Arrow \o [i \in 1 .. 48 |-> "one"]]

----------------------------------------------------------------------------
(* The layout. A box is clipped the way the loops that fill it are.             *)
AtLeast(n, least) == IF n < least THEN least ELSE n
AtMost(n, most) == IF n > most THEN most ELSE n
Centred(room, extent) == AtLeast((room - extent) \div 2, 0)
Box(part, x, y, w, h) == [part |-> part, x |-> x, y |-> y, w |-> w, h |-> h]
Clipped(box, s, rows) ==
  [box EXCEPT !.w = AtLeast(AtMost(@, s.w - box.x), 0), !.h = AtLeast(AtMost(@, rows - box.y), 0)]
ClippedBelow(box, s) == [box EXCEPT !.h = AtLeast(AtMost(@, s.h - box.y), 0)]

ShowsStatus(m, s, v) == s.h > m.status /\ ~v.fullscreen
AvailRows(m, s, v) == IF ShowsStatus(m, s, v) THEN s.h - 1 ELSE s.h
Columns(m, v) == IF v.wide THEN m.wide ELSE m.narrow

TextBox(m, s, v) ==
  Box("text", Centred(s.w, Columns(m, v)), Centred(AvailRows(m, s, v), m.textRows), Columns(m, v), m.textRows)
(* A picture of 4 by 3 in cells twice as high as wide, in the rows given.       *)
FittedHeight(s, rows) == IF (rows * 8) \div 3 > s.w THEN (s.w * 3) \div 8 ELSE rows
FittedWidth(s, rows) == AtMost((rows * 8) \div 3, s.w)
MixedRows(m, s, v) == AtLeast(AvailRows(m, s, v) - m.mixedLines, 0)
MixedTop(m, s, v) == Centred(AvailRows(m, s, v), FittedHeight(s, MixedRows(m, s, v)) + m.mixedLines)
MixedBox(m, s, v) ==
  Box("graphics", Centred(s.w, FittedWidth(s, MixedRows(m, s, v))), MixedTop(m, s, v),
      FittedWidth(s, MixedRows(m, s, v)), FittedHeight(s, MixedRows(m, s, v)))
MixedText(m, s, v) ==
  Box("text", Centred(s.w, Columns(m, v)), MixedTop(m, s, v) + FittedHeight(s, MixedRows(m, s, v)),
      Columns(m, v), m.mixedLines)
GraphicsBox(m, s, v) ==
  LET rows == AvailRows(m, s, v)
  IN  Box("graphics", Centred(s.w, FittedWidth(s, rows)), Centred(rows, FittedHeight(s, rows)),
          FittedWidth(s, rows), FittedHeight(s, rows))

(* The debugger's rows: the views from the top, the console from the bottom.    *)
ConsoleRows(m, rows) == CASE rows < 16 -> 2 [] rows >= 40 -> rows - m.disasmRows [] OTHER -> 4
TopRows(m, rows) == AtLeast(AtMost(rows - ConsoleRows(m, rows), m.disasmRows), 0)
DebuggerSourceRow(m, rows, row) ==
  IF row < TopRows(m, rows) THEN row
  ELSE IF m.promptRow - (rows - 1 - row) < m.disasmRows /\ row < rows - 1 THEN -1
  ELSE m.promptRow - (rows - 1 - row)
DebuggerBox(m, s, v) == Box("debugger", Centred(s.w, m.debugWidth), 0, m.debugWidth, AvailRows(m, s, v))

HelpLines(m, s) == m.helpHeader + m.helpBody - (IF s.h < m.compactBelow THEN m.separators ELSE 0)
BoxTop(s, height) == IF s.h > height THEN (s.h - 1 - height) \div 2 ELSE 0
HelpBoxes(m, s) ==
  IF s.w < m.helpWidth \/ s.h < m.helpLeast THEN {}
  ELSE {ClippedBelow(Box("help", (s.w - m.helpWidth) \div 2, BoxTop(s, HelpLines(m, s) + 3),
                         m.helpWidth, HelpLines(m, s) + 3), s)}

PickerInner(m, s) == AtMost(m.pickerInner, s.w - 4)
PickerRows(m, s) ==
  CASE s.h < m.pickerSmall -> AtLeast(s.h - 10, m.pickerFew)
    [] s.h > m.pickerTall -> s.h - 12
    [] OTHER -> m.pickerRows
PickerHeight(m, s) == PickerRows(m, s) + m.pickerHead + m.pickerFoot
PickerFits(m, s) == PickerInner(m, s) >= m.pickerLeast /\ s.h >= PickerHeight(m, s)
PickerTop(m, s) == BoxTop(s, PickerHeight(m, s))
PickerPart(m, s, part, row, rows) ==
  Box(part, (s.w - PickerInner(m, s) - 2) \div 2, PickerTop(m, s) + row, PickerInner(m, s) + 2, rows)
PickerHeader(m, s) == PickerPart(m, s, "header", 0, m.pickerHead)
PickerList(m, s) == PickerPart(m, s, "list", m.pickerHead, PickerRows(m, s))
PickerFoot(m, s) == PickerPart(m, s, "foot", m.pickerHead + PickerRows(m, s), m.pickerFoot)
PickerBoxes(m, s) == IF PickerFits(m, s) THEN {PickerHeader(m, s), PickerList(m, s), PickerFoot(m, s)} ELSE {}

(* What a frame puts where; an overlay over what is under it.                   *)
Under(m, s, v) ==
  LET rows == AvailRows(m, s, v)
  IN  CASE v.mode = "debugger" -> {Clipped(DebuggerBox(m, s, v), s, rows)}
        [] v.mode = "text" -> {Clipped(TextBox(m, s, v), s, rows)}
        [] v.mode = "mixed" -> {Clipped(MixedBox(m, s, v), s, rows), Clipped(MixedText(m, s, v), s, rows)}
        [] v.mode = "graphics" -> {Clipped(GraphicsBox(m, s, v), s, rows)}
Over(m, s, v) ==
  CASE v.overlay = "help" -> HelpBoxes(m, s) [] v.overlay = "picker" -> PickerBoxes(m, s) [] OTHER -> {}
(* Where a report of the mouse is looked for.                                   *)
record_picture_box(m, s, v) ==
  CASE v.mode = "text" -> TextBox(m, s, v)
    [] v.mode = "mixed" -> [MixedBox(m, s, v) EXCEPT !.h = @ + m.mixedLines]
    [] v.mode = "graphics" -> GraphicsBox(m, s, v)

----------------------------------------------------------------------------
(* The cells. A code of the text page with its attribute, in the flash's phase. *)
Attribute(code, alt) ==
  CASE code >= 128 -> "normal" [] code < 64 -> "inverse" [] OTHER -> IF alt THEN "normal" ELSE "flash"
Letter(code, alt) ==
  LET ascii == CASE code >= 128 -> code - 128 [] code \in 64 .. 127 /\ ~alt -> code - 64 [] OTHER -> code
      shifted == IF ascii < 32 THEN ascii + 64 ELSE ascii
  IN  IF shifted > 126 THEN 32 ELSE shifted
render_text_cell(code, alt, flashOn, atCursor) ==
  IF atCursor /\ flashOn THEN [glyph |-> "cursor", code |-> 0, inverse |-> FALSE]
  ELSE [glyph |-> "letter", code |-> Letter(code, alt),
        inverse |-> Attribute(code, alt) = "inverse" \/ (Attribute(code, alt) = "flash" /\ ~flashOn)]
Piece(glyph, code) == [glyph |-> glyph, code |-> code, inverse |-> FALSE]
empty_cell == Piece("black", 0)
Letterbox == Piece("letterbox", 0)
(* Black pixels leave the shape detector as a blank in black on black; without  *)
(* pixels a cell stays as it was cleared.                                       *)
NoPixels == -1
render_gfx_cell(v) ==
  CASE v.content = NoPixels -> Letterbox [] v.content = 0 /\ v.smart -> empty_cell
    [] OTHER -> Piece("pixels", v.content)
(* The chooser's texts, a byte a cell: the folder's name, the entries', the keys. *)
PickerText(m, part, line) ==
  CASE part = "header" /\ line = 1 -> HostText
    [] part = "list" -> HostText
    [] part = "foot" /\ line = 1 -> m.footer
    [] OTHER -> << >>
PickerCell(m, s, box, cell, v) ==
  LET text == PickerText(m, box.part, cell[2] - box.y)
      left == IF box.part = "list" THEN 3 ELSE Centred(PickerInner(m, s), Len(text))
      column == cell[1] - box.x - 1
  IN  IF column \in 0 .. PickerInner(m, s) - 1 /\ column - left + 1 \in DOMAIN text
      THEN Piece(text[column - left + 1], column) ELSE Piece(box.part, v.content)

Inside(box, cell) ==
  cell[1] \in box.x .. box.x + box.w - 1 /\ cell[2] \in box.y .. box.y + box.h - 1
(* The arrow of a branch is a line feed, a vertical tab or a backspace: fancy   *)
(* indicators of a font of the original's, cut to 7 bits.                       *)
DebuggerCell(m, box, cell, v) ==
  LET row == cell[2] - box.y
  IN  IF cell[1] - box.x = m.branchColumn /\ row \in DOMAIN BranchRows
      THEN Piece(BranchRows[row], 0) ELSE Piece("debugger", v.content)
CellHolds(m, s, box, cell, v, flashOn) ==
  CASE box.part = "text" ->
         render_text_cell(Contents[v.content], v.alt, flashOn, cell = <<box.x, box.y>>)
    [] box.part = "graphics" -> render_gfx_cell(v)
    [] box.part \in {"header", "list", "foot"} -> PickerCell(m, s, box, cell, v)
    [] box.part = "debugger" -> DebuggerCell(m, box, cell, v)
    [] OTHER -> Piece(box.part, v.content)
Cells(s) == (0 .. s.w - 1) \X (0 .. s.h - 1)
NextOf(m, s, v, flashOn) ==
  LET over == Over(m, s, v)
      under == Under(m, s, v)
  IN  [cell \in Cells(s) |->
         IF \E box \in over : Inside(box, cell)
         THEN CellHolds(m, s, CHOOSE box \in over : Inside(box, cell), cell, v, flashOn)
         ELSE IF \E box \in under : Inside(box, cell)
         THEN CellHolds(m, s, CHOOSE box \in under : Inside(box, cell), cell, v, flashOn)
         ELSE Letterbox]

----------------------------------------------------------------------------
(* A frame. The last cell is never written, the status row never compared.      *)
Emitted_changes_only(next, back, frame) == next # back      \* a broken Emitted: without the refresh
Emitted(next, back, frame) == next # back \/ frame % RefreshEvery = 0
LastCell(s) == <<s.w - 1, s.h - 1>>
Compared(s, v) == {c \in Cells(s) : c # LastCell(s) /\ ~(ShowsStatus(Measures, s, v) /\ c[2] = s.h - 1)}
FramePeriod == 2 * RefreshEvery * FlashEvery
(* Cells that follow each other are written in one go, placed at the first;     *)
(* each sends its bytes, and the terminal counts on. A part of a character takes *)
(* no column or another, a "back" goes one back and a "down" a row down: all     *)
(* that follows in one go lands elsewhere.                                       *)
Uncounted == {"lead", "tail", "down", "back"}
StruckBy(next, told, c) ==
  LET run == {x \in c[1] .. size.w - 1 : \A k \in c[1] .. x : <<k, c[2]>> \in told}
      before == IF next[c].glyph = "back" THEN {c[1] - 1} ELSE {}
      below == IF \E x \in run : next[<<x, c[2]>>].glyph = "down" THEN {<<x, c[2] + 1>> : x \in run} \ told ELSE {}
  IN  {<<x, c[2]>> : x \in run \cup before} \cup below
Struck(v, next, told) ==
  IF v.overlay = "picker" \/ v.mode = "debugger"
  THEN UNION {StruckBy(next, told, c) : c \in {d \in told : next[d].glyph \in Uncounted}} ELSE {}
(* The write that fails midway has reached the rows above: the rest is lost.    *)
RowsLost(s, reached) == reached .. s.h - 1
WriteFrame(v, reached, frame, next, told, struck) ==
  LET status == IF ShowsStatus(Measures, size, v) THEN {size.h - 1} ELSE {}
      afresh == IF frame % RefreshEvery = 0 THEN (0 .. size.h - 1) \ status ELSE {}
  IN  /\ backBuffer' = [c \in Cells(size) |-> IF c \in told THEN next[c] ELSE backBuffer[c]]
      /\ shown' = [c \in Cells(size) |->
                     IF c \in struck /\ c[2] <= reached THEN Piece("displaced", 0)
                     ELSE CASE c[2] >= reached -> shown[c]
                            [] c[2] < reached /\ c \in told -> next[c]
                            [] c[2] < reached /\ c[2] \in status -> Piece("status", 0)
                            [] OTHER -> shown[c]]
      /\ inDoubt' = (inDoubt \ afresh) \cup status \cup RowsLost(size, reached)
      /\ displaced' = (displaced \ told) \cup struck
(* With frame_count; what the terminal has not been told remains to be seen.    *)
tui_video_render_frame ==
  \E v \in Views, reached \in {FirstLost, size.h}, frame \in {(frameCount + 1) % FramePeriod} :
  \E next \in {NextOf(Measures, size, v, (frame \div FlashEvery) % 2 = 0)} :
  \E told \in {{c \in Compared(size, v) : Emitted(next[c], backBuffer[c], frame)}} :
    /\ size.w > 1 /\ size.h > 1
    /\ frameCount' = frame /\ nextBuffer' = next
    /\ \E struck \in {Struck(v, next, told)} : WriteFrame(v, reached, frame, next, told, struck)
    /\ picture' = IF v.mode = "debugger" THEN picture
                  ELSE [drawn |-> TRUE, box |-> record_picture_box(Measures, size, v), view |-> v]
    /\ UNCHANGED size

Blank(s) == [c \in Cells(s) |-> empty_cell]
NoPicture == [drawn |-> FALSE, box |-> Box("none", 0, 0, 0, 0), view |-> << >>]
tui_video_picture_box == IF picture.drawn THEN picture.box ELSE Box("none", 0, 0, size.w, size.h)
(* The terminal keeps what it showed, where its new size puts it.               *)
tui_video_on_resize ==
  \E s \in ScreenSizes :
    /\ s # size /\ size' = s
    /\ backBuffer' = Blank(s) /\ nextBuffer' = Blank(s) /\ picture' = NoPicture
    /\ shown' = [c \in Cells(s) |-> Piece("stale", 0)]
    /\ inDoubt' = 0 .. s.h - 1 /\ displaced' = {}
    /\ UNCHANGED frameCount

ScreenInit ==
  /\ size \in ScreenSizes
  /\ nextBuffer = Blank(size) /\ backBuffer = Blank(size) /\ picture = NoPicture
  /\ shown = [c \in Cells(size) |-> Piece("stale", 0)]
  /\ frameCount = 0 /\ inDoubt = 0 .. size.h - 1 /\ displaced = {}
ScreenNext == tui_video_render_frame \/ tui_video_on_resize
ScreenSpec == ScreenInit /\ [][ScreenNext]_screenVars

----------------------------------------------------------------------------
InScreen(box, s) ==
  box.w = 0 \/ box.h = 0 \/ (box.x >= 0 /\ box.y >= 0 /\ box.x + box.w <= s.w /\ box.y + box.h <= s.h)
LayoutSizes == [w : 2 .. LargestWidth, h : 2 .. LargestHeight]
LayoutViews ==
  [mode : {"text", "mixed", "graphics", "debugger"}, overlay : {"help", "picker"}, fullscreen : BOOLEAN, wide : BOOLEAN]
(* The debugger's rows keep their order, the prompt is the last, and the rows   *)
(* of the views come from the views.                                            *)
PromptIsLast(rows) ==
  /\ DebuggerSourceRow(TuiMeasures, rows, rows - 1) = TuiMeasures.promptRow
  /\ \A i, j \in 0 .. rows - 1 :
       i < j /\ DebuggerSourceRow(TuiMeasures, rows, j) >= 0 =>
         DebuggerSourceRow(TuiMeasures, rows, i) < DebuggerSourceRow(TuiMeasures, rows, j)
EveryLayoutFits ==
  /\ \A s \in LayoutSizes, v \in LayoutViews :
       \A box \in Under(TuiMeasures, s, v) \cup Over(TuiMeasures, s, v) : InScreen(box, s)
  /\ \A rows \in 3 .. LargestHeight : PromptIsLast(rows)
  /\ \A h \in 24 .. LargestHeight : PickerRows(TuiMeasures, [w |-> 80, h |-> h]) >= TuiMeasures.pickerRows

(* Whatever frames differ in, the terminal shows the last one in every row that *)
(* was not lost, uncovered or resized since all of it was last written, but for *)
(* the cells that a byte which is no character displaced, in its own row and the *)
(* one below, and that were not written again without one; every box of every   *)
(* layout lies in the terminal, for a cell beyond its buffers is a crash; and   *)
(* the mouse is looked for where the picture of this size is                    *)
(* (tui_video_render_frame, tui_video_on_resize).                               *)
ScreenIsWhatWasDrawn ==
  /\ \A c \in Cells(size) \ {LastCell(size)} :
       c[2] \notin inDoubt /\ c \notin displaced => shown[c] = nextBuffer[c]
  /\ picture.drawn => tui_video_picture_box = record_picture_box(Measures, size, picture.view)
  /\ EveryLayoutFits
=============================================================================
