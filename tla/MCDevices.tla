---------------------------- MODULE MCDevices ----------------------------
(* The cards in the slots, what the machine writes to and reads from       *)
(* outside itself, and what the user has before him, for TLC.  None of     *)
(* them touches another: a behaviour is one machine's, and the choice of   *)
(* the machine is made in its first state, so that their states add up     *)
(* instead of multiplying.                                                 *)
EXTENDS
  CardSlots, Mockingboard, MouseCard, ExpansionRom, Keyboard, GamePort,
  BlockDevice, TrackEncoding, FloppyImages, SerialFarEnd, PrinterPath,
  VideoDisplay, BasicSync

VARIABLE machine   \* the machine the behaviour is about

CardMachines == {"slots", "via", "psg", "pia", "mouse", "rom", "keyboard", "port"}

MCBuilt == {"printer", "ssc", "mouse", "mockingboard", "disk", "harddisk", "clock"}

\* Configurations: the two keys that name a card without its slot, slots left
\* to the defaults, emptied or given to a card whose own slot is another.
MCTable(four, five, seven) ==
  [s \in 1 .. 7 |-> CASE s = 4 -> four [] s = 5 -> five [] s = 6 -> "disk"
                      [] s = 7 -> seven [] OTHER -> Absent]

MCSettings ==
  {[table |-> MCTable(four, five, seven), mouse_key |-> mk, harddisk_key |-> hk,
    request |-> "harddisk", apple2e |-> e] :
      four \in {Absent, None, "mouse"}, five \in {None, "mockingboard"},
      seven \in {Absent, "clock"}, mk \in BOOLEAN, hk \in BOOLEAN, e \in BOOLEAN}

MCWrites ==
  {<<0, "t1c_h", 0>>, <<0, "t1c_h", 1>>, <<0, "t1l_h", 1>>,
   <<0, "acr", {"free_run", "pb7"}>>, <<0, "ier_set", {1}>>, <<0, "ifr", {1}>>,
   <<1, "t2c_h", 0>>, <<1, "ier_set", {2}>>}
MCReads == {<<0, "t1c_l">>, <<1, "t2c_l">>}
MCShapes == [cont : BOOLEAN, attack : BOOLEAN, alt : BOOLEAN, hold : BOOLEAN]

\* Every mode of the two interrupt lines of a side, with the data register selected.
MCControls ==
  {{"ddr"}, {"ddr", "c1_en"}, {"ddr", "c2_out"}, {"ddr", "c2_out", "c2_lvl"},
   {"ddr", "c2_out", "c2_sel"}, {"ddr", "c2_lvl", "c2_sel", "c1_sel", "c1_en"},
   {"ddr", "c2_lvl"}, {"c2_out", "c1_sel"}}
\* SETMOUSE to the mode with every source, READMOUSE,
\* SERVEMOUSE, INITMOUSE, CLAMPMOUSE with its four bytes, TIMEDATA.
MCCalls == {<<15>>, <<16>>, <<32>>, <<80>>, <<96, 255, 5, 255, 0>>, <<145>>}
\* One move beyond the clamps and one within them.
MCMoves == {<<40000, -1>>, <<-3, 2>>}

\* The variables of the machines that a behaviour is not about stay at one of
\* their initial states.
CardsStill ==
  /\ \/ machine = "slots"
     \/ machine # "slots" /\ setting = CHOOSE c \in Settings : TRUE
  /\ \/ machine = "keyboard"
     \/ machine # "keyboard" /\ keyboardModel = "apple2" /\ keypadIsStick = FALSE
  /\ \/ machine = "port"
     \/ /\ machine # "port" /\ joyType = [stick \in 0 .. 1 |-> "none"]
        /\ gameSwitches = [keyboard |-> NoSwitch, connector |-> NoSwitch,
                           plug |-> PulldownMask(joyType), mod |-> FALSE, apple2e |-> TRUE]

CardsInit ==
  /\ CardsStill
  /\ SlotsInit /\ ViaInit /\ PsgInit /\ PiaInit /\ MouseInit /\ RomInit
  /\ KeyboardInit /\ PortInit

\* Of the cards' variables those of one card may change.
CardsBut(name) ==
  /\ name = "slots" \/ UNCHANGED slotVars
  /\ name = "via" \/ UNCHANGED viaVars
  /\ name = "psg" \/ UNCHANGED psgVars
  /\ name = "pia" \/ UNCHANGED piaVars
  /\ name = "mouse" \/ UNCHANGED mouseVars
  /\ name = "rom" \/ UNCHANGED romVars
  /\ name = "keyboard" \/ UNCHANGED keyboardVars
  /\ name = "port" \/ UNCHANGED portVars

CardStep ==
  \/ machine = "slots" /\ SlotsNext
  \/ machine = "via" /\ ViaNext
  \/ machine = "psg" /\ PsgNext
  \/ machine = "pia" /\ PiaNext
  \/ machine = "mouse" /\ MouseNext
  \/ machine = "rom" /\ RomNext
  \/ machine = "keyboard" /\ KeyboardNext
  \/ machine = "port" /\ PortNext

cardsVars == <<slotVars, viaVars, psgVars, piaVars, mouseVars, romVars, keyboardVars, portVars>>

----------------------------------------------------------------------------
MediaMachines == {"block", "track", "images", "serial", "printer"}

----------------------------------------------------------------------------
(* Block images: each order, one that reads in both, 2IMG wrappers with    *)
(* the comment behind the data and inside it, and one no driver takes.     *)
NoChunk == [offset |-> 0, length |-> 0]
Plain(name, ext, reads) ==
  [name |-> name, ext |-> ext, magic |-> "none", size |-> DosSize, reads |-> reads,
   packed |-> FALSE, writable |-> TRUE, header |-> <<>>]
Wrapped(name, comment) ==
  [name |-> name, ext |-> "2mg", magic |-> "2IMG", size |-> 64 + 4 * 512 + 100, reads |-> {},
   packed |-> FALSE, writable |-> TRUE,
   header |-> [header_size |-> 64, format |-> "prodos", block_count |-> 4, data_offset |-> 0,
               data_length |-> 0, comment |-> comment, creator |-> NoChunk, locked |-> FALSE]]
MCImages ==
  {Plain("either", "do", {"prodos", "dos"}),
   [Plain("dos", "po", {"dos"}) EXCEPT !.packed = TRUE],
   Wrapped("wrapped", [offset |-> 64 + 4 * 512, length |-> 100]),
   Wrapped("overlapping", [offset |-> 64 + 3 * 512, length |-> 100]),
   [Plain("flux", "woz", {}) EXCEPT !.magic = "WOZ"]}

\* Two payloads of a sector: zeros, and bytes with every pair of low bits.
MCContents == {<<0, 0, 0, 0>>, <<5, 130, 255, 7>>}

----------------------------------------------------------------------------
(* Floppy images: one of each format, in a MacBinary wrapper or an archive *)
(* or damaged, with the record that lies at each offset.                   *)
NoTable == <<>>
MCQuarterTracks == {0, 3, 4, 139, 140, 160}

File(name, ext, size, holds, cells, layout) ==
  [name |-> name, ext |-> ext, size |-> size, holds |-> holds, surface |-> cells,
   layout |-> layout, archive |-> "no", expands |-> 0, packed |-> 0, intact |-> TRUE,
   writable |-> TRUE, macbinary |-> FALSE, magic |-> "none", reads |-> {}, whole |-> TRUE,
   version |-> 2, disk |-> "5.25", crc |-> TRUE, tmap |-> NoTable, records |-> 0,
   bits |-> NoTable, blocks |-> NoTable, variant |-> 0, counts |-> NoTable]

MacBinary(file) ==
  [file EXCEPT !.macbinary = TRUE, !.size = @ + 128,
               !.layout = [o \in {x + 128 : x \in DOMAIN file.layout} |-> file.layout[o - 128]]]
Packed(file, kind, expands, packed) ==
  [file EXCEPT !.archive = kind, !.expands = expands, !.packed = packed]

\* A file of whole tracks: three of them, at the places "places" gives.
Tracks == [q \in MCQuarterTracks |->
             CASE q < 4 -> "t0" [] q = 4 -> "t1" [] q = 139 -> "t34" [] OTHER -> "blank"]
Laid(places) ==
  [o \in {places[i] : i \in 1 .. 3} |->
     CASE o = places[1] -> "t0" [] o = places[2] -> "t1" [] o = places[3] -> "t34"]

Sector(name, ext, reads, holds) ==
  [File(name, ext, 143360, holds, Tracks, Laid(<<0, 4096, 34 * 4096>>)) EXCEPT !.reads = reads]
Nib(name, ext, track, holds) ==
  File(name, ext, 35 * track, holds, Tracks, Laid(<<0, track, 34 * track>>))

\* Flux images: a track at 0 and one at 1, nothing recorded at 0.75, a damaged
\* record at 34.75 and an entry of the map that is beyond the records at 35.
Tmap == [q \in 0 .. 159 |->
           CASE q = 0 -> 0 [] q = 4 -> 1 [] q = 139 -> 2 [] q = 140 -> 7 [] OTHER -> 255]
Recorded == [q \in MCQuarterTracks |->
               CASE q = 0 -> "r0" [] q = 3 -> "blank" [] q = 4 -> "r1" [] OTHER -> "error"]
Woz1 ==
  [File("woz1", "woz", 256 + 2 * 6656 + 6655, "WOZ 1", Recorded,
        [o \in {256, 256 + 6656} |-> IF o = 256 THEN "r0" ELSE "r1"])
   EXCEPT !.magic = "WOZ1", !.version = 1, !.tmap = Tmap, !.records = 3,
          !.bits = [i \in 0 .. 7 |-> 50000]]
Woz2 ==
  [File("woz2", "woz", 512 * 16, "WOZ 2", Recorded,
        [o \in {1536, 4096} |-> IF o = 1536 THEN "r0" ELSE "r1"])
   EXCEPT !.magic = "WOZ2", !.version = 3, !.tmap = Tmap, !.records = 160,
          !.bits = [i \in 0 .. 7 |-> IF i = 7 THEN 0 ELSE 8000],
          !.blocks = [i \in 0 .. 7 |->
                        CASE i = 0 -> <<3, 5>> [] i = 1 -> <<8, 8>> [] OTHER -> <<15, 2>>]]
Iie(variant) ==
  LET at == IF variant = 3 THEN <<88, 88 + 4000, 88 + 34 * 4000>>
            ELSE <<30, 30 + 4096, 30 + 34 * 4096>>
  IN  [File("iie", "iie", 150000, "IIE", Tracks, Laid(at))
       EXCEPT !.magic = "IIE", !.variant = variant, !.counts = [t \in 0 .. 34 |-> 4000]]

MCFloppyFiles ==
  {Sector("dos", "dsk", {"dos"}, "DOS Order"),
   Sector("prodos", "dsk", {"prodos"}, "ProDOS Order"),
   Sector("blank", "po", {}, "ProDOS Order"),
   MacBinary(Sector("wrapped", "do", {"dos"}, "DOS Order")),
   Packed(Sector("packed", "dsk", {"prodos"}, "ProDOS Order"), "zip", 3, 1),
   Packed(Sector("bomb", "dsk", {"dos"}, "DOS Order"), "gzip", 9, 2),
   [Packed(Sector("cut", "dsk", {"dos"}, "DOS Order"), "gzip", 2, 1) EXCEPT !.intact = FALSE],
   Nib("nib", "nib", 6656, "NIB (6656-nibble)"),
   MacBinary(Nib("nb2", "nb2", 6384, "NB2 (6384-nibble)")),
   [Nib("locked", "dsk", 6656, "NIB (6656-nibble)") EXCEPT !.writable = FALSE],
   Woz1, MacBinary(Woz1), Woz2, MacBinary(Woz2), Packed(MacBinary(Woz2), "gzip", 4, 3),
   [Woz2 EXCEPT !.disk = "3.5", !.holds = "none"],
   [Woz1 EXCEPT !.crc = FALSE, !.holds = "none"],
   Iie(1), Iie(3), MacBinary(Iie(3)),
   [Iie(3) EXCEPT !.counts[5] = 7000, !.holds = "none"]}

----------------------------------------------------------------------------
MediaStill ==
  /\ \/ machine = "block"
     \/ /\ machine # "block"
        /\ volumes = [d \in Volumes |->
                        IF d = 0 THEN InsertedVolume(Plain("either", "do", {"prodos", "dos"}), FALSE)
                        ELSE EmptyVolume]
  /\ \/ machine = "track"
     \/ machine # "track" /\ image = create("dos", FALSE, TRUE)
  /\ \/ machine = "images"
     \/ machine # "images" /\ created = [path \in {"new.dsk", "new.nib.gz"} |-> "absent"]
  /\ \/ machine = "serial"
     \/ machine # "serial" /\ port = Closed("pty")
  /\ \/ machine = "printer"
     \/ machine # "printer" /\ append = TRUE

MediaInit ==
  /\ MediaStill
  /\ BlockInit /\ TrackInit /\ ImagesInit /\ SerialInit /\ PrinterInit

MediaBut(name) ==
  /\ name = "block" \/ UNCHANGED blockVars
  /\ name = "track" \/ UNCHANGED trackVars
  /\ name = "images" \/ UNCHANGED imageVars
  /\ name = "serial" \/ UNCHANGED serialVars
  /\ name = "printer" \/ UNCHANGED printerVars

MediaStep ==
  \/ machine = "block" /\ BlockNext
  \/ machine = "track" /\ TrackNext
  \/ machine = "images" /\ ImagesNext
  \/ machine = "serial" /\ SerialNext
  \/ machine = "printer" /\ PrinterNext

mediaVars == <<blockVars, trackVars, imageVars, serialVars, printerVars>>

----------------------------------------------------------------------------
FrontMachines == {"video", "colours", "basic"}

(* Places whose cells are neighbours or share a place of the copy, on    *)
(* both pages, and switches of every kind of cell.                       *)
Spot(bank, kind, page2, x, row, line) ==
  [bank |-> bank, kind |-> kind, page2 |-> page2, cell |-> <<x, row>>, line |-> line]
MCPlaces ==
  {Spot(bank, "hires", FALSE, x, "upper", 0) : bank \in {"main", "aux"}, x \in {0, 1}}
  \cup {Spot(bank, "text", FALSE, 0, "upper", 0) : bank \in {"main", "aux"}}
  \cup {Spot("main", "text", TRUE, 0, "upper", 0)}
MCModes ==
  {{"text"}, {"text", "80col"}, {"hires", "mixed"}, {"dhires", "80col"}, {"hires", "dhires", "80col"}}
(* Cycles of the lines at which the rows of text, the thirds of the      *)
(* screen and the counters turn.                                         *)
MCScan == {65 * line + h : line \in {0, 7, 8, 63, 64, 127, 128, 159, 160, 191, 192, 255, 256, 261, 262, 311},
                           h \in {0, 1, 24, 25, 26, 57, 64}}

(* Keywords of which one begins another, and the one after which nothing *)
(* is a keyword; texts with numbers out of order, twice, too large,       *)
(* missing, behind spaces or their own places, a statement that begins    *)
(* with its place again, a control character, quotes and too much for the *)
(* memory: as characters, "2 ATN^G", "1 at" and so on.                     *)
MCKeywords == (193 :> <<84, 79>>) @@ (197 :> <<65, 84>>) @@ (225 :> <<65, 84, 78>>) @@ (178 :> <<82, 69, 77>>)
MCTexts ==
  {<< >>,
   <<<<50, 32, 65, 84, 78, 7>>, <<32, 49, 32, 97, 116>>>>,
   <<<< >>, <<82, 69, 77, 65, 84>>, <<51, 32, 51, 32, 34, 65, 84, 34>>, <<49, 32, 84, 79>>>>,
   <<<<49, 65>>, <<49, 32, 32, 66>>, <<57, 32, 67, 67, 67, 67>>>>}
MCTyped == {[num |-> 1, bytes |-> <<197, 78>>], [num |-> 3, bytes |-> <<193>>], [num |-> 0, bytes |-> <<32, 65>>]}

----------------------------------------------------------------------------
FrontStill ==
  /\ machine # "video" => video_mode = {"text"} /\ ~videoApple2 /\ scan = [ntsc |-> TRUE, cycle |-> 0]
  /\ machine # "basic" => syncSetup = [positional |-> FALSE, inotify |-> FALSE, upper |-> FALSE]

FrontInit == DisplayInit /\ ColoursInit /\ SyncInit /\ FrontStill

FrontBut(name) ==
  /\ name = "video" \/ UNCHANGED displayVars
  /\ name = "colours" \/ UNCHANGED colourVars
  /\ name = "basic" \/ UNCHANGED syncVars

FrontStep ==
  \/ machine = "video" /\ DisplayNext
  \/ machine = "colours" /\ ColoursNext
  \/ machine = "basic" /\ SyncNext

frontVars == <<displayVars, colourVars, syncVars>>

----------------------------------------------------------------------------
Init ==
  /\ machine \in CardMachines \cup MediaMachines \cup FrontMachines
  /\ CardsInit /\ MediaInit /\ FrontInit

Next ==
  /\ UNCHANGED machine
  /\ \/ CardStep /\ CardsBut(machine) /\ UNCHANGED <<mediaVars, frontVars>>
     \/ MediaStep /\ MediaBut(machine) /\ UNCHANGED <<cardsVars, frontVars>>
     \/ FrontStep /\ FrontBut(machine) /\ UNCHANGED <<cardsVars, mediaVars>>

Spec == Init /\ [][Next]_<<machine, cardsVars, mediaVars, frontVars>>
==========================================================================
