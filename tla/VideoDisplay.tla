--------------------------- MODULE VideoDisplay ---------------------------
(* Video.cpp: the display switches, the refresh that redraws only the cells   *)
(* whose bytes differ from the copy it kept of the memory drawn last, and the *)
(* scanner, which says what byte the beam reads at a cycle of the frame.      *)
(*                                                                            *)
(* A cell is a column of the screen in its upper part or in the four text     *)
(* rows of a mixed screen. Of the eight lines a cell has in a hi-res page two *)
(* are kept: those whose bytes share a place of the copy with a text page.    *)
(* What is drawn is named by what the drawing depends on: the bytes, the bits *)
(* of the neighbours that colour the edges, the character set, the flash. The *)
(* worker thread is left out: "singlethreaded" is never cleared.              *)
(*                                                                            *)
(* The second half has the colours Video.cpp gives the dots of its source     *)
(* bitmap, and the mixing of lines under VT_COLOR_TVEMU, which each drawn     *)
(* line does for itself and for the line above and below. Lo-res, hi-res and  *)
(* double hi-res colours are drawn once for every value of a byte and of the  *)
(* bits at its edges; a cell then copies the part that fits its column. A dot *)
(* of a double hi-res line is named by the set of phases it lights, out of    *)
(* 0 .. 3, a dot of a hi-res line by its colour.                              *)
EXTENDS Integers, FiniteSets

CONSTANTS
  VideoColumns,     \* the last column; the first is 0
  VideoPlaces,      \* the places of memory a program writes: see Places
  VideoBytes,       \* what it writes there
  VideoModes,       \* the switches a behaviour may begin with
  FlashFrames,      \* 60 / 6: frames between two turns of the flash
  ScanCycles,       \* cycles of the frame at which the scanner is looked at
  MaxVideoSteps     \* bound: writes, switches and loads

ASSUME DisplayAssumption ==
  /\ VideoColumns \in Nat /\ ScanCycles \subseteq Nat
  /\ \A mode \in VideoModes : ~ {"mask2", "page2"} \subseteq mode

VARIABLES
  video_mode,       \* the set of VF_ flags
  alt_char_set,     \* alt_char_set_offset # 0
  displaypage2,
  redrawfull,
  vidlastmem,       \* the copy: the two bytes of a cell below 0x2000, two above
  videoMemory,      \* bytes of the display pages that are not zero
  screen,           \* what is drawn in the two parts of each cell
  flash,            \* [count, state, flag]: text_flash_cnt, _state, _flag
  scan,             \* [ntsc, cycle]: the scanner's position
  videoApple2,      \* is_apple2()
  drawn,            \* the screen shows memory as it stands: nothing written since
  videoSteps

displayVars == <<video_mode, alt_char_set, displaypage2, redrawfull, vidlastmem, videoMemory,
                 screen, flash, scan, videoApple2, drawn, videoSteps>>

Cells == (0 .. VideoColumns) \X {"upper", "lower"}
Places == [bank : {"main", "aux"}, kind : {"text", "hires"}, page2 : BOOLEAN,
           cell : Cells, line : {0, 1}]
VideoFlags == {"80col", "dhires", "hires", "mask2", "mixed", "page2", "text"}

VideoByte(bank, kind, page2, cell, line) ==
  LET place == [bank |-> bank, kind |-> kind, page2 |-> page2, cell |-> cell, line |-> line]
  IN  IF place \in DOMAIN videoMemory THEN videoMemory[place] ELSE 0

----------------------------------------------------------------------------
(* What a cell shows under a mode: the choice of video_perform_refresh.      *)
CellKind(mode, row) ==
  CASE "text" \in mode \/ (row = "lower" /\ "mixed" \in mode) ->
         IF "80col" \in mode THEN "text80" ELSE "text40"
    [] OTHER ->
         CASE "hires" \in mode -> IF {"dhires", "80col"} \subseteq mode THEN "dhires" ELSE "hires"
           [] OTHER -> IF {"dhires", "80col"} \subseteq mode THEN "dlores" ELSE "lores"

Flashing(alt, ch) == ~alt /\ ch \in 64 .. 127
Glyph(alt, ch) == <<"glyph", ch, alt, Flashing(alt, ch) /\ flash.state>>

\* The bits of the neighbours that a hi-res and a double hi-res line show.
High2(b) == (b \div 32) % 4
Low2(b)  == b % 4
High3(b) == (b \div 16) % 8
Low3(b)  == b % 8

LeftOf(cell) == <<cell[1] - 1, cell[2]>>
RightOf(cell) == <<cell[1] + 1, cell[2]>>
Beside(cell, page2, bank, line, left) ==
  CASE left /\ cell[1] > 0 -> VideoByte(bank, "hires", page2, LeftOf(cell), line)
    [] ~left /\ cell[1] < VideoColumns -> VideoByte(bank, "hires", page2, RightOf(cell), line)
    [] OTHER -> 0

\* What the update functions draw in a part of a cell: a half of an 80-column
\* cell, a line of a hi-res one, either part of the others.
Drawing(kind, alt, page2, cell, part) ==
  LET text(bank)  == VideoByte(bank, "text", page2, cell, 0)
      hires(bank) == VideoByte(bank, "hires", page2, cell, part)
      side(bank, left) == Beside(cell, page2, bank, part, left)
  IN  CASE kind = "text40" -> Glyph(alt, text("main"))
        [] kind = "text80" -> Glyph(alt, text(IF part = 0 THEN "aux" ELSE "main"))
        [] kind = "lores"  -> <<"lores", text("main")>>
        [] kind = "dlores" -> <<"dlores", text("aux"), text("main")>>
        [] kind = "hires"  -> <<"hires", High2(side("main", TRUE)), hires("main"),
                                Low2(side("main", FALSE))>>
        [] kind = "dhires" -> <<"dhires", High3(side("main", TRUE)), hires("aux") % 128,
                                hires("main") % 128, Low3(side("aux", FALSE))>>

\* The copy's bytes for a cell: "low" is memory below 0x2000, where the text
\* pages' copies lie 0x400 apart, as two lines of a hi-res page do.
Copied(region, line, cell) == vidlastmem[<<region, line, cell>>]
CopyDiffers(region, line, cell, masked(_), now) == masked(now) # masked(Copied(region, line, cell))

Changed_narrow(kind, page2, cell, part) ==       \* a broken Changed: a neighbour forgotten
  LET text(bank)  == VideoByte(bank, "text", page2, cell, 0)
      hires(bank) == VideoByte(bank, "hires", page2, cell, part)
  IN  CASE kind = "text40" -> text("main") # Copied("low", 1, cell)
        [] kind = "text80" -> IF part = 0 THEN text("aux") # Copied("low", 0, cell)
                              ELSE text("main") # Copied("low", 1, cell)
        [] kind = "lores"  -> text("main") # Copied("low", 1, cell)
        [] kind = "dlores" -> text("aux") # Copied("low", 0, cell) \/ text("main") # Copied("low", 1, cell)
        [] kind = "hires"  -> hires("main") # Copied("high", part, cell)
        [] kind = "dhires" -> hires("aux") # Copied("low", part, cell)
                              \/ hires("main") # Copied("high", part, cell)
Changed(kind, page2, cell, part) ==
  LET text(bank)  == VideoByte(bank, "text", page2, cell, 0)
      hires(bank) == VideoByte(bank, "hires", page2, cell, part)
      left(masked(_)) == cell[1] > 0 /\ CopyDiffers("high", part, LeftOf(cell), masked,
                                                    Beside(cell, page2, "main", part, TRUE))
      right(region, bank, masked(_)) ==
        cell[1] < VideoColumns /\ CopyDiffers(region, part, RightOf(cell), masked,
                                              Beside(cell, page2, bank, part, FALSE))
  IN  CASE kind = "text40" -> text("main") # Copied("low", 1, cell)
        [] kind = "text80" -> IF part = 0 THEN text("aux") # Copied("low", 0, cell)
                              ELSE text("main") # Copied("low", 1, cell)
        [] kind = "lores"  -> text("main") # Copied("low", 1, cell)
        [] kind = "dlores" -> text("aux") # Copied("low", 0, cell) \/ text("main") # Copied("low", 1, cell)
        [] kind = "hires"  -> \/ hires("main") # Copied("high", part, cell)
                              \/ left(High2) \/ right("high", "main", Low2)
        [] kind = "dhires" -> \/ hires("aux") # Copied("low", part, cell)
                              \/ hires("main") # Copied("high", part, cell)
                              \/ left(High3) \/ right("low", "aux", Low3)

\* A flashing character is redrawn when the flash has turned.
Turned(kind, page2, cell, part) ==
  /\ kind \in {"text40", "text80"} /\ flash.flag
  /\ Flashing(alt_char_set,
              VideoByte(IF kind = "text80" /\ part = 0 THEN "aux" ELSE "main", "text", page2, cell, 0))

\* set_last_drawn_image: the text page always, over it or beside it the pages
\* of the mode.
LastDrawn(mode, page2) ==
  [place \in {"low", "high"} \X {0, 1} \X Cells |->
     LET line == place[2]
         cell == place[3]
     IN  CASE place[1] = "high" ->
                IF "hires" \in mode THEN VideoByte("main", "hires", page2, cell, line) ELSE vidlastmem[place]
           [] place[1] = "low" /\ {"dhires", "hires"} \subseteq mode ->
                VideoByte("aux", "hires", page2, cell, line)
           [] place[1] = "low" /\ ~({"dhires", "hires"} \subseteq mode) ->
                CASE line = 1 -> VideoByte("main", "text", page2, cell, 0)
                  [] OTHER -> IF "80col" \in mode THEN VideoByte("aux", "text", page2, cell, 0)
                              ELSE vidlastmem[place]]

\* video_perform_refresh: redrawing everything, or what has changed or flashed.
RefreshAll(mode, alt, page2) ==
  [part \in Cells \X {0, 1} |->
     Drawing(CellKind(mode, part[1][2]), alt, page2, part[1], part[2])]
RefreshChanged ==
  [part \in Cells \X {0, 1} |->
     LET kind == CellKind(video_mode, part[1][2])
     IN  IF \/ Changed(kind, displaypage2, part[1], part[2])
            \/ Turned(kind, displaypage2, part[1], part[2])
         THEN Drawing(kind, alt_char_set, displaypage2, part[1], part[2]) ELSE screen[part]]
Settled == [flash EXCEPT !.flag = FALSE]

----------------------------------------------------------------------------
HClocks == 65
HPeClock == 40
ScanLines(ntsc) == IF ntsc THEN 262 ELSE 312

DisplayInit ==
  /\ \E apple2 \in BOOLEAN, mode \in VideoModes :
       /\ apple2 => mode \cap {"80col", "dhires"} = {}
       /\ videoApple2 = apple2 /\ video_mode = mode
       /\ displaypage2 = ("page2" \in mode)
  /\ scan \in {[ntsc |-> TRUE, cycle |-> 0]} \cup
              {[ntsc |-> ntsc, cycle |-> c % (HClocks * ScanLines(ntsc))] :
                 ntsc \in BOOLEAN, c \in ScanCycles}
  /\ alt_char_set = FALSE /\ redrawfull = TRUE
  /\ vidlastmem = [place \in {"low", "high"} \X {0, 1} \X Cells |-> 0]
  /\ videoMemory = << >>
  /\ screen = [part \in Cells \X {0, 1} |-> <<"blank">>]
  /\ flash = [count |-> 0, state |-> FALSE, flag |-> FALSE]
  /\ drawn = FALSE /\ videoSteps = 0

VideoStep == videoSteps < MaxVideoSteps /\ videoSteps' = videoSteps + 1

\* The program writes a byte of a display page.
WriteDisplay ==
  /\ VideoStep
  /\ \E place \in VideoPlaces, b \in VideoBytes :
       videoMemory' = [p \in DOMAIN videoMemory \cup {place} |->
                         IF p = place THEN b ELSE videoMemory[p]]
  /\ drawn' = FALSE
  /\ UNCHANGED <<video_mode, alt_char_set, displaypage2, redrawfull, vidlastmem, screen, flash,
                 scan, videoApple2>>

Set(flag, on) == IF on THEN video_mode \cup {flag} ELSE video_mode \ {flag}
\* The switches: $C000/1, $C00C/D, $C050 to $C057, $C05E/F; the auxiliary ones
\* are not there on an Apple ][. 80STORE takes the second page away.
Switched(flag, on) ==
  LET set == IF videoApple2 /\ flag \in {"80col", "dhires"} THEN video_mode ELSE Set(flag, on)
  IN  IF "mask2" \in set THEN set \ {"page2"} ELSE set

Redraws(mode, alt) ==
  \/ video_mode \ {"mask2", "page2"} # mode \ {"mask2", "page2"} \/ alt # alt_char_set
  \/ displaypage2 # ("page2" \in mode)
\* video_set_mode, with the refreshes it makes at once when the picture has
\* changed and when the page has flipped.
SetMode(mode, alt) ==
  /\ VideoStep
  /\ video_mode' = mode /\ alt_char_set' = alt
  /\ displaypage2' = ("page2" \in mode)
  /\ \/ /\ Redraws(mode, alt)
        /\ screen' = RefreshAll(mode, alt, "page2" \in mode)
        /\ vidlastmem' = LastDrawn(mode, "page2" \in mode)
        /\ redrawfull' = FALSE /\ flash' = Settled /\ drawn' = TRUE
     \/ ~Redraws(mode, alt) /\ UNCHANGED <<screen, vidlastmem, redrawfull, flash, drawn>>
  /\ UNCHANGED <<videoMemory, scan, videoApple2>>
video_set_mode ==
  \/ \E flag \in VideoFlags, on \in BOOLEAN : SetMode(Switched(flag, on), alt_char_set)
  \/ \E on \in BOOLEAN : SetMode(video_mode, IF videoApple2 THEN alt_char_set ELSE on)

\* video_update_flash, called after the refresh of a frame.
TurnedFlash ==
  LET turns == flash.count + 1 = FlashFrames
  IN  [count |-> IF turns THEN 0 ELSE flash.count + 1,
       state |-> IF turns THEN ~flash.state ELSE flash.state,
       flag  |-> turns /\ ({"text", "mixed"} \cap video_mode # {})]
Refresh ==
  /\ screen' = IF redrawfull THEN RefreshAll(video_mode, alt_char_set, displaypage2) ELSE RefreshChanged
  /\ vidlastmem' = LastDrawn(video_mode, displaypage2)
  /\ redrawfull' = FALSE
  /\ UNCHANGED <<video_mode, alt_char_set, displaypage2, videoMemory, scan, videoApple2, videoSteps>>
\* The frame is over: video_update_vbl refreshes and moves the flash.
video_update_vbl == Refresh /\ flash' = TurnedFlash /\ drawn' = (flash.state = TurnedFlash.state)
\* A frame of which the host asks a redraw: redrawfull is set and used up.
video_redraw_screen ==
  /\ screen' = RefreshAll(video_mode, alt_char_set, displaypage2)
  /\ vidlastmem' = LastDrawn(video_mode, displaypage2)
  /\ redrawfull' = FALSE /\ flash' = Settled /\ drawn' = TRUE
  /\ UNCHANGED <<video_mode, alt_char_set, displaypage2, videoMemory, scan, videoApple2, videoSteps>>
\* video_reset_state, and video_set_snapshot after it when a state is loaded.
video_set_snapshot(mode, alt) ==
  /\ VideoStep
  /\ video_mode' = mode /\ alt_char_set' = alt
  /\ displaypage2' = ("page2" \in mode)
  /\ redrawfull' = TRUE /\ flash' = [count |-> 0, state |-> FALSE, flag |-> FALSE]
  /\ drawn' = FALSE
  /\ UNCHANGED <<vidlastmem, videoMemory, screen, scan, videoApple2>>

DisplayNext ==
  /\ scan.cycle = 0
  /\ \/ WriteDisplay \/ video_set_mode \/ video_update_vbl \/ video_redraw_screen
     \/ video_set_snapshot({"text"}, FALSE)
     \/ \E mode \in VideoModes : ~videoApple2 /\ video_set_snapshot(mode, TRUE)
DisplaySpec == DisplayInit /\ [][DisplayNext]_displayVars

----------------------------------------------------------------------------
(* The scanner: counters H (6 bits) and V (9 bits) at a cycle of the frame,  *)
(* and the address they form. A bit is 0 or 1, and named by its place.       *)
BitOf(v, place) == (v \div place) % 2
HState(cycle) == LET clock == (cycle + HPeClock) % HClocks
                 IN  24 + clock - (IF clock >= 41 THEN 1 ELSE 0)
VState(ntsc, cycle) == LET line == cycle \div HClocks
                       IN  256 + line - (IF line >= 256 THEN ScanLines(ntsc) ELSE 0)

SumBits(h, v) ==
  104 + 8 * ((h \div 8) % 8) + 8 * BitOf(v, 64) + 16 * BitOf(v, 128) + 32 * BitOf(v, 64) + 64 * BitOf(v, 128)
video_get_scanner_address(mode, apple2, ntsc, cycle) ==
  LET h == HState(cycle)
      v == VState(ntsc, cycle)
      page2 == "page2" \in mode /\ ~("mask2" \in mode)
      below == "mixed" \in mode /\ BitOf(v, 128) = 1 /\ BitOf(v, 32) = 1
      hires == "hires" \in mode /\ ~("text" \in mode) /\ ~below
      column == (h % 8) + (((SumBits(h, v) \div 8) % 16) * 8)
      row == 128 * ((v \div 8) % 8)
  IN  column + row
      + (IF hires
         THEN 1024 * (v % 8) + (IF page2 THEN 16384 ELSE 8192)
         ELSE (IF page2 THEN 2048 ELSE 1024)
              + (IF apple2 /\ (cycle + HPeClock) % HClocks >= HPeClock THEN 4096 ELSE 0))
VblBar(ntsc, cycle) == LET v == VState(ntsc, cycle) IN BitOf(v, 128) = 0 \/ BitOf(v, 64) = 0
video_get_vbl(cycle) == cycle >= 12480

----------------------------------------------------------------------------
(* Once a frame has been drawn and until the program writes again, every     *)
(* cell shows its bytes under the switches as they are, with the edges its   *)
(* neighbours colour and the flash where it stands, though the refresh draws *)
(* only what its copy says has changed (video_perform_refresh, the update_   *)
(* functions, set_last_drawn_image, video_set_mode). The one exception is a  *)
(* text cell while HIRES and DHIRES are on: the copy of the auxiliary hi-res *)
(* page lies over its own, and a character equal to the byte there is taken  *)
(* for drawn.                                                                *)
CopyLiesOver(cell) ==
  /\ {"dhires", "hires"} \subseteq video_mode
  /\ CellKind(video_mode, cell[2]) \in {"text40", "text80"}
ScreenShowsMemory ==
  drawn => \A cell \in Cells, part \in {0, 1} :
             \/ screen[<<cell, part>>] = Drawing(CellKind(video_mode, cell[2]), alt_char_set, displaypage2, cell, part)
             \/ CopyLiesOver(cell)

(* The byte the beam reads in a visible column of a line is one the refresh  *)
(* draws there: of the same page, kind of memory, row and column; and the    *)
(* scanner and the clock of the frame agree on when the beam is blanked      *)
(* (video_get_scanner_address, video_get_vbl, video_perform_refresh).        *)
TextOffset(y, x) == 128 * (y % 8) + 40 * (y \div 8) + x
BeamReads(mode, line, x) ==
  LET y == line \div 8
      hires == CellKind(mode, IF y >= 20 THEN "lower" ELSE "upper") \in {"hires", "dhires"}
      second == "page2" \in mode
  IN  TextOffset(y, x) + (IF hires THEN (IF second THEN 16384 ELSE 8192) + 1024 * (line % 8)
                          ELSE IF second THEN 2048 ELSE 1024)
BeamReadsWhatIsShown ==
  scan.cycle # 0 =>
    LET clock == (scan.cycle + HPeClock) % HClocks
        line  == scan.cycle \div HClocks
    IN  /\ VblBar(scan.ntsc, scan.cycle) = ~video_get_vbl(scan.cycle)
        /\ line < 192 /\ clock < HPeClock =>
             video_get_scanner_address(video_mode, videoApple2, scan.ntsc, scan.cycle)
               = BeamReads(video_mode, line, clock)

DisplayIsTrue == ScreenShowsMemory /\ BeamReadsWhatIsShown

----------------------------------------------------------------------------
(* The colours, a machine of its own: it shares no variable with the display. *)
CONSTANTS
  MixLines,      \* the lines of the screen; the text of a mixed one begins at
  MixTop,        \* this line (160)
  LineColours,   \* the colours of a dot a program shows
  MaxMixSteps    \* bound: lines drawn and switches

VARIABLES
  mixMemory,     \* what each line holds in memory: the colour of its dot
  hgrpixelmatrix,\* what was drawn of it, with two dark lines at either end
  mixOutput,     \* the first of the line's two rows on the host's screen
  mixMixed,      \* sw_mixed()
  mixSteps

colourVars == <<mixMemory, hgrpixelmatrix, mixOutput, mixMixed, mixSteps>>

Dot(pattern, k) == (pattern \div 2 ^ k) % 2 = 1

----------------------------------------------------------------------------
(* draw_hires_source: the seven dots of a byte with the two dots on either   *)
(* side. Colours 0 to 3 are magenta, blue, green and orange.                 *)
CM_Black == 4
CM_White == 5
HiresDots(left, byte, right) ==
  [k \in 0 .. 10 |-> CASE k < 2 -> Dot(left, k + 5)
                       [] k \in 2 .. 8 -> Dot(byte, k - 2)
                       [] k > 8 -> Dot(right, k - 9)]
HiresColour(odd, k, hibit) == 2 * ((odd + k) % 2) + hibit
\* An unlit dot between two lit ones takes their colour; the types that keep
\* white text clean want one of the next dots dark for that.
HiresDot(left, byte, right, odd, k, fringes) ==
  LET dots  == HiresDots(left, byte, right)
      hibit == byte \div 128
  IN  CASE dots[k] /\ (dots[k - 1] \/ dots[k + 1]) -> CM_White
        [] dots[k] /\ ~(dots[k - 1] \/ dots[k + 1]) -> HiresColour(odd, k, hibit)
        [] ~dots[k] /\ dots[k - 1] /\ dots[k + 1] /\ (fringes \/ ~(dots[k - 2] /\ dots[k + 2])) ->
             HiresColour(odd, k + 1, hibit)
        [] OTHER -> CM_Black

\* draw_dhires_source: the dot at place x of a pattern of sixteen, and the lit
\* dots near it that lend it their phase when another beyond it is lit too.
DhiresDot(pattern, x) ==
  LET at == x + 3
      lit(lo, hi) == \E k \in lo .. hi : Dot(pattern, k)
      lends(p) ==
        /\ p \in 1 .. 14 /\ Dot(pattern, p)
        /\ CASE p = at     -> TRUE
             [] p = at + 2 -> lit(p - 4, p - 2)
             [] p = at + 1 -> lit(p - 4, p - 1)
             [] p = at - 1 -> lit(p + 1, p + 4)
             [] p = at - 2 -> lit(p + 2, p + 4)
             [] OTHER -> FALSE
  IN  {(p - 3) % 4 : p \in {q \in at - 2 .. at + 2 : lends(q)}}

\* update_dhires_cell: the dots of the column's two bytes and three dots on
\* either side, and the pattern a half of it picks by where it stands.
DhiresWindow(left, aux, main, right) ==
  16 * ((left \div 16) % 8) + 128 * (aux % 128) + 16384 * (main % 128) + 2097152 * (right % 8)
DhiresCellDot(left, aux, main, right, column, dot) ==
  LET half   == IF dot < 7 THEN 0 ELSE 7
      colour == (14 * column + half) % 4
      value  == DhiresWindow(left, aux, main, right) \div 2 ^ (4 + half - colour)
  IN  DhiresDot(value % 65536, colour + dot - half)

----------------------------------------------------------------------------
(* video_create_color_mix_map: a coloured line between others. 0 black,      *)
(* 1 white, 2 blue, 3 red, 4 green, 5 magenta; a mixture is the pair.        *)
MixColours(c1, c2) == {c1, c2}
MixMap(above, middle, below) ==
  CASE middle < 2 -> {middle}
    [] middle >= 2 /\ above >= 2 -> MixColours(middle, above)
    [] middle >= 2 /\ above < 2 /\ below >= 2 -> MixColours(middle, below)
    [] OTHER -> {middle}

ColoursInit ==
  /\ mixMemory = [l \in 0 .. MixLines - 1 |-> 0]
  /\ hgrpixelmatrix = [l \in -2 .. MixLines + 1 |-> 0]
  /\ mixOutput = [l \in 0 .. MixLines - 1 |-> {0}]
  /\ mixMixed = FALSE /\ mixSteps = 0

\* copy_mixed_source: the dot enters the matrix and the rows of its line and of
\* its neighbours are mixed anew, but for the rows of a mixed screen's text.
LastLine(mixed) == IF mixed THEN MixTop - 1 ELSE MixLines - 1
DrawnLine_alone(m, line, colour, mixed) ==             \* a broken DrawnLine: the lines beside it stay
  LET matrix == [m.matrix EXCEPT ![line] = colour]
  IN  [matrix |-> matrix,
       output |-> [m.output EXCEPT ![line] = MixMap(matrix[line - 1], colour,
                                               IF line = LastLine(mixed) THEN 0 ELSE matrix[line + 1])]]
DrawnLine(m, line, colour, mixed) ==
  LET matrix == [m.matrix EXCEPT ![line] = colour]
      below1 == IF mixed /\ line >= MixTop - 1 THEN 0 ELSE matrix[line + 1]
      below2 == IF mixed /\ line >= MixTop - 2 THEN 0 ELSE matrix[line + 2]
  IN  [matrix |-> matrix,
       output |-> [l \in DOMAIN m.output |->
         CASE l = line - 1 -> MixMap(matrix[line - 2], matrix[line - 1], colour)
           [] l = line -> MixMap(matrix[line - 1], colour, below1)
           [] l = line + 1 /\ line < LastLine(mixed) -> MixMap(colour, below1, below2)
           [] OTHER -> m.output[l]]]

Redrawn[k \in 0 .. MixLines, mixed \in BOOLEAN] ==
  IF k = 0 THEN [matrix |-> hgrpixelmatrix, output |-> mixOutput]
  ELSE DrawnLine(Redrawn[k - 1, mixed], k - 1, mixMemory[k - 1], mixed)

MixStep == mixSteps < MaxMixSteps /\ mixSteps' = mixSteps + 1
\* A line's byte changes; a line that shows text is not drawn.
WriteLine ==
  /\ MixStep
  /\ \E line \in DOMAIN mixMemory, colour \in LineColours :
       /\ mixMemory' = [mixMemory EXCEPT ![line] = colour]
       /\ \/ /\ line <= LastLine(mixMixed)
             /\ \E m \in {DrawnLine([matrix |-> hgrpixelmatrix, output |-> mixOutput],
                                    line, colour, mixMixed)} :
                  hgrpixelmatrix' = m.matrix /\ mixOutput' = m.output
          \/ line > LastLine(mixMixed) /\ UNCHANGED <<hgrpixelmatrix, mixOutput>>
  /\ UNCHANGED mixMixed
\* The switch redraws every line that shows graphics, from the top.
SwitchMixed ==
  /\ MixStep
  /\ mixMixed' = ~mixMixed
  /\ \E m \in {Redrawn[LastLine(~mixMixed) + 1, ~mixMixed]} :
       hgrpixelmatrix' = m.matrix /\ mixOutput' = m.output
  /\ UNCHANGED mixMemory

ColoursNext == WriteLine \/ SwitchMixed

----------------------------------------------------------------------------
(* A colour that fills a line is drawn without a seam, whatever column and   *)
(* half of a cell a dot is in: the sixteen patterns of double hi-res and the *)
(* four of hi-res (draw_dhires_source, draw_hires_source and the cells that  *)
(* pick from them). And under VT_COLOR_TVEMU the rows on the screen are, in  *)
(* whatever order lines were drawn and across changes of the mixed switch,   *)
(* the mixture of the lines as they stand in memory (copy_mixed_source,      *)
(* mix_colors_vertical).                                                     *)
Repeated(k, from, len) == [n \in 0 .. len - 1 |-> IF Dot(k, (from + n) % 4) THEN 2 ^ n ELSE 0]
SumOf(f) == LET sum[n \in -1 .. 6] == IF n < 0 THEN 0 ELSE f[n] + sum[n - 1] IN sum[6]
Fill(k, from) == SumOf(Repeated(k, from, 7))
DhiresIsSeamless ==
  \A k \in 0 .. 15, column \in {2, 3}, dot \in 0 .. 13 :
    DhiresCellDot(Fill(k, 14 * column - 7), Fill(k, 14 * column), Fill(k, 14 * column + 7),
                  Fill(k, 14 * column + 14), column, dot)
      = {p \in 0 .. 3 : Dot(k, p)}
Stripe(odd) == IF odd = 0 THEN 85 ELSE 42
HiresIsSeamless ==
  \A parity \in {0, 1}, odd \in {0, 1}, hibit \in {0, 1}, k \in 2 .. 8, fringes \in BOOLEAN :
    LET byte(o) == 128 * hibit + Stripe((o + parity) % 2)
    IN  HiresDot(byte(1 - odd), byte(odd), byte(1 - odd), odd, k, fringes)
          = HiresColour(0, parity, hibit)
RowsFollowMemory ==
  \A l \in 0 .. LastLine(mixMixed) :
    LET at(line) == IF line \in 0 .. LastLine(mixMixed) THEN mixMemory[line] ELSE 0
    IN  mixOutput[l] = MixMap(at(l - 1), at(l), at(l + 1))
ColoursMatchTheDots ==
  /\ mixSteps = 0 => DhiresIsSeamless /\ HiresIsSeamless
  /\ RowsFollowMemory
===========================================================================
