----------------------------- MODULE MCDebugger -----------------------------
(* The processor; the debugger beside it: its session, its lists, its writes   *)
(* to memory and its assembler; and the terminal both are used from: its keys  *)
(* and its screen. Each is a machine of its own that a behaviour chooses at    *)
(* the start.                                                                  *)
EXTENDS DebuggerTargets, DebuggerSession, DebuggerLists, DebuggerMemory, DebuggerAssembler,
        TerminalInput, TerminalScreen

VARIABLE machine

----------------------------------------------------------------------------
(* The processor: single instructions over chosen operands, decimal arithmetic *)
(* over every pair of digits that matters, and a program under interrupts.     *)
Base == [a |-> 90, x |-> 1, y |-> 2, sp |-> 511, pc |-> 800,
         c |-> 0, z |-> 0, n |-> 0, v |-> 0, d |-> 0, i |-> 0]
(* Pointers in the zero page, vectors, a return address on the stack, and two  *)
(* words a jump can go through, one of them across a page.                     *)
BaseRam == [addr \in {16, 17, 18, 255, 0, 257, 258, 259, 511, 512, 767, 768,
                      65530, 65531, 65532, 65533, 65534, 65535} |->
              CASE addr = 16 -> 240 [] addr = 17 -> 2 [] addr = 18 -> 144
                [] addr = 255 -> 17 [] addr = 0 -> 3 [] addr = 257 -> 51
                [] addr = 258 -> 68 [] addr = 259 -> 5 [] addr = 511 -> 7
                [] addr = 512 -> 129 [] addr = 767 -> 200 [] addr = 768 -> 6
                [] addr \in {65530, 65532, 65534} -> 0
                [] addr = 65531 -> 32 [] addr = 65533 -> 48 [] addr = 65535 -> 64]
State(part, q, prog, n, k) ==
  [model |-> part, r |-> q, ram |-> BaseRam, program |-> prog, budget |-> n, events |-> k]

(* Every opcode over operands that cross a page, wrap in the zero page or run  *)
(* through a pointer, with the stack at either end of its page.                *)
Sweep ==
  {State(part, [Base EXCEPT !.x = c[1], !.y = 255 - c[1], !.sp = c[2], !.pc = c[3],
                            !.c = c[4], !.z = 1 - c[4], !.n = c[4], !.v = 1 - c[4]],
         {<<op, low, 2>> : low \in {0, 16, 128, 255}}, 1, 0) :
     part \in {"nmos", "cmos"}, op \in 0..255,
     c \in {<<1, 256, 800, 0>>, <<255, 257, 1018, 1>>, <<255, 511, 800, 0>>, <<1, 511, 1018, 1>>}}

(* Decimal addition and subtraction of the digits at the edges of every carry. *)
Digits == {0, 1, 5, 8, 9}
Decimal ==
  {State(part, [Base EXCEPT !.a = 16 * h + l, !.d = 1, !.c = f],
         {<<op, 16 * k + m, 0>> : k \in Digits, m \in Digits}, 1, 0) :
     part \in {"nmos", "cmos"}, op \in {105, 233}, h \in Digits, l \in Digits, f \in {0, 1}}

(* A program that masks, nests, returns and breaks, under both lines. *)
Interrupted ==
  {State(part, [Base EXCEPT !.sp = c[1], !.d = c[2], !.i = c[3]],
         {<<88, 0, 0>>, <<64, 0, 0>>, <<0, 0, 0>>, <<72, 0, 0>>, <<104, 0, 0>>}, c[5], c[4]) :
     part \in {"nmos", "cmos"}, c \in {<<257, 1, 0, 2, 3>>, <<511, 0, 1, 1, 4>>}}

(* Jumps through a word whose address with X is the last that memory has, or    *)
(* the second last, and a branch across the end of memory.                     *)
Edges ==
  {State(part, [Base EXCEPT !.x = 255, !.pc = 65480],
         {<<124, 254, 254>>, <<124, 255, 254>>, <<208, 100, 0>>}, 1, 0) : part \in {"nmos", "cmos"}}

MCStarts == Sweep \cup Decimal \cup Interrupted \cup Edges
MCSaved == {[Base EXCEPT !.sp = 496, !.i = 1]}

CONSTANTS card, mouse
MCDevices == {card, mouse}
Lines == Permutations(MCDevices)

----------------------------------------------------------------------------
(* A program with a subroutine that strays through I/O addresses, a BRK, and   *)
(* the address a JSR of the debugger comes back to from a page's first byte.   *)
(* What a line's words say in numbers reaches every command as 0 (ParseInput). *)
Does(op, next, to) == [op |-> op, next |-> next, to |-> to]
MCCode == (0 :> Does("jsr", 1, 49153)) @@ (49153 :> Does("io", 49154, 49154)) @@ (49154 :> Does("io", 4, 4))
          @@ (4 :> Does("rts", 0, 0)) @@ (1 :> Does("brk", 2, 3)) @@ (3 :> Does("nop", 0, 0))
          @@ (2 :> Does("jmp", 0, 0)) @@ (256 :> Does("jmp", 1, 1))
GoTo(form) == [op |-> "go", form |-> form, start |-> 0, arg |-> 0]
Only(op) == [op |-> op]
MCCommands ==
  {GoTo(form) : form \in {"none", "comma", "colon", "help"}}
  \cup {[op |-> op, n |-> n] : op \in {"trace", "over"}, n \in {0, 1}}
  \cup {[op |-> "jsr", to |-> 0], [op |-> "pc", to |-> 0], [op |-> "brkop", break |-> "none"]}
  \cup {[op |-> "list", lines |-> 2], [op |-> "list", lines |-> 5]}
  \cup {Only(op) : op \in {"word", "out", "brk", "tf", "view"}}
MCPage == [narrow |-> 1, full |-> 2]

(* Arguments of commands: those a line brings, and for fills and entries one    *)
(* more, across pages, that would reach them if arguments were cooked; files of *)
(* which one ends within a page, and one is of all of memory and more.          *)
MCArguments == {<< >>, <<0>>, <<0, 0>>, <<0, 0, 0>>}
MCSpans == {[start |-> 0, end |-> 0, value |-> 0], [start |-> 3, end |-> 4, value |-> 1]}
MCRanges == {[first |-> 0, sep |-> sep, second |-> 0, value |-> 0] : sep \in {"comma", "colon"}}
MCEntries == {[start |-> 0, data |-> <<0>>], [start |-> 5, data |-> <<1, 2>>]}
MCFiles == {<<1>>, <<1, 1, 1>>, <<1, 1, 1, 1>>, <<1, 1, 0, 1, 1, 0, 0, 1, 1>>}
MCKnown == [start |-> 4, len |-> 4]

(* Lines to assemble: forward and backward references, a name that begins with *)
(* a space, one in parentheses with an index, numbers in both bases, a missing *)
(* parenthesis, a label by itself.                                             *)
WordOf(name) == [kind |-> "word", name |-> name, digits |-> << >>]
NumberOf(name, digits) == [kind |-> "word", name |-> name, digits |-> digits]
Sign(s) == [kind |-> s, name |-> s, digits |-> << >>]
MCInstructions ==
  [NOP |-> [implied |-> 234], BNE |-> [R |-> 208], JMP |-> [A |-> 76, indirect |-> 108],
   LDA |-> [M |-> 169, Z |-> 165, A |-> 173, ZX |-> 181, AX |-> 189, AY |-> 185]]
Typed(label, mnemonic, tokens) == [label |-> label, mnemonic |-> mnemonic, tokens |-> tokens]
MCLines ==
  {Typed("LOOP", "NOP", << >>), Typed("HOP", "", << >>), Typed("", "BNE", <<WordOf("LOOP")>>),
   Typed("", "JMP", <<Sign("$"), WordOf("HOP")>>), Typed("", "JMP", <<Sign("("), WordOf("HOP")>>),
   Typed("", "LDA", <<Sign("("), WordOf("LOOP"), Sign(","), WordOf("X"), Sign(")"), Sign(";"), WordOf("LOOP")>>),
   Typed("", "LDA", <<Sign("#"), Sign("$"), NumberOf("0A", <<0, 10>>)>>),
   Typed("LOOP", "LDA", <<Sign("$"), NumberOf("10", <<1, 0>>), Sign(","), WordOf("Y")>>)}
MCSymbolFiles == {(768 :> "LOOP")}

----------------------------------------------------------------------------
(* The terminal: keystrokes in the encodings terminals send them in, cut by    *)
(* reads; then every function key; then the chooser; then the mouse.           *)
Stroke(bytes, means) == [bytes |-> bytes, means |-> means]
CsiStroke(token, final, means) ==
  Stroke(<<"esc", "[">> \o (IF token = "" THEN << >> ELSE <<token>>) \o <<final>>, means)
MCFinals == {"~", "^", "@", "[", "O", "y", "t", "M", "m", "letter"} \cup
            {"A", "B", "C", "D", "E", "F", "G", "H", "I", "J", "K", "L", "N", "P", "Q", "R", "S", "T", "U", "V", "W", "X"}
MCShifted == {"1;2", "12;2", "13;2", "14;2", "17;2", "19;2", "20;2", "23;2"}
CutKeys ==
  {Stroke(<<"letter">>, "key"), Stroke(<<"esc">>, "doubtful"), Stroke(<<"esc", "letter">>, "key"),
   Stroke(<<"hi">>, "key"), Stroke(<<"lead", "tail">>, "key"), Stroke(<<"lead">>, "doubtful"),
   CsiStroke("", "A", "key"), Stroke(<<"esc", "O", "P">>, "help"), Stroke(<<"esc", "[", "[", "G">>, "debugger"),
   CsiStroke("12;2", "~", "restart"), CsiStroke("12", "$", "doubtful"),
   Stroke(<<"esc", "[", "12", "12", "12", "12">>, "doubtful")}
FunctionKeys ==
  {Stroke(<<"esc", "O", "T">>, "swap"), Stroke(<<"esc", "[", "[", "C">>, "floppy1"), CsiStroke("14", "~", "floppy2"),
   CsiStroke("", "P", "pause"), CsiStroke("1;2", "R", "hard1"), CsiStroke("1;2", "S", "hard2"),
   CsiStroke("", "Q", "reset"), CsiStroke("1;2", "Q", "restart"), CsiStroke("21", "^", "soft reset"),
   CsiStroke("17", "@", "rocker"), CsiStroke("20;2", "~", "render"), CsiStroke("24", "~", "quit"),
   CsiStroke("18", "~", "debugger"), CsiStroke("11", "~", "help"), CsiStroke("29", "~", "key"),
   CsiStroke("3", "~", "key"), CsiStroke("", "~", "key"), Stroke(<<"del">>, "key"), Stroke(<<"letter">>, "key"),
   Stroke(<<"esc">>, "doubtful")}
PickerKeys ==
  {CsiStroke("", "A", "key"), CsiStroke("", "B", "key"), CsiStroke("5", "~", "key"), CsiStroke("6", "~", "key"),
   CsiStroke("1", "~", "key"), CsiStroke("4", "~", "key"), Stroke(<<"cr">>, "key"), Stroke(<<"letter">>, "key"),
   Stroke(<<"esc">>, "doubtful"), Stroke(<<"esc", "O", "R">>, "floppy1"), Stroke(<<"esc", "O", "T">>, "swap"),
   CsiStroke("1;2", "R", "hard1")}
MouseKeys ==
  {CsiStroke("<press", "M", "report"), CsiStroke("<release", "m", "report"),
   CsiStroke("21", "~", "load"), CsiStroke("12;2", "~", "restart"), CsiStroke("24", "~", "quit")}
NoCard == [present |-> FALSE, button |-> FALSE, fromSave |-> FALSE]
ACard == [NoCard EXCEPT !.present = TRUE]
MCLoaded == {[NoCard EXCEPT !.fromSave = TRUE], [present |-> TRUE, button |-> TRUE, fromSave |-> TRUE]}
PlainTerminal == [kind |-> "silent", size |-> "never", pixels |-> FALSE]
MCTerminals ==
  {PlainTerminal, [kind |-> "always", size |-> "reply", pixels |-> TRUE]}
  \cup {[kind |-> "either", size |-> t[1], pixels |-> t[2]] : t \in {<<"window", TRUE>>, <<"reply", FALSE>>, <<"never", TRUE>>}}
Scene(keys, count, split) ==
  [keys |-> keys, count |-> count, split |-> split, card |-> NoCard, capture |-> FALSE, terminals |-> {PlainTerminal}]
MCScenes ==
  [cut |-> Scene(CutKeys, 2, TRUE), keys |-> Scene(FunctionKeys, 2, FALSE), picker |-> Scene(PickerKeys, 5, FALSE),
   mouse |-> [keys |-> MouseKeys, count |-> 3, split |-> FALSE, card |-> ACard, capture |-> TRUE, terminals |-> MCTerminals]]

Root == Path(TRUE, << >>)
Games == Below(Root, "games")
FileEntry(kind, name, rank, ext) == [kind |-> kind, name |-> name, rank |-> rank, ext |-> ext, hidden |-> FALSE]
Full == (Root :> {FileEntry("dir", "games", 20, ""), FileEntry("file", "a.dsk", 11, "dsk"), FileEntry("file", "b.dsk", 12, "dsk"),
                  FileEntry("file", "c.hdv", 13, "hdv"), [FileEntry("file", ".d.dsk", 14, "dsk") EXCEPT !.hidden = TRUE]})
        @@ (Games :> {FileEntry("file", "e.dsk", 15, "dsk"), FileEntry("file", "f.dsk", 10, "dsk"), FileEntry("file", "g.hdv", 16, "hdv")})
MCHostDisks == {Full, (Root :> {FileEntry("file", "a.dsk", 11, "dsk")}) @@ (Games :> {})}
MCSlotCards == (6 :> "disk") @@ (7 :> "harddisk")
MCExtensions == [disk |-> {"dsk"}, harddisk |-> {"hdv"}, none |-> {}]

----------------------------------------------------------------------------
(* The screen: two columns of a page and a row of status, in a terminal that *)
(* turns from wide to high, and one that the chooser fits in.                  *)
MCMeasures ==
  [textRows |-> 2, narrow |-> 2, wide |-> 4, mixedLines |-> 1, status |-> 3,
   helpWidth |-> 2, helpLeast |-> 3, helpHeader |-> 0, helpBody |-> 1, separators |-> 1, compactBelow |-> 4,
   pickerInner |-> 4, pickerLeast |-> 2, pickerRows |-> 1, pickerFew |-> 1, pickerSmall |-> 3, pickerTall |-> 30, pickerHead |-> 2, pickerFoot |-> 2,
   debugWidth |-> 3, branchColumn |-> 1, disasmRows |-> 32, promptRow |-> 39, footer |-> <<"lead", "tail", "one">>]
MCSizes == {[w |-> 3, h |-> 3], [w |-> 2, h |-> 4], [w |-> 6, h |-> 5]}
MCBranches == (0 :> "down") @@ (1 :> "back")
MCHostText == <<"one", "lead", "tail">>
Showing(mode, overlay, content, smart) ==
  [mode |-> mode, overlay |-> overlay, fullscreen |-> FALSE, wide |-> FALSE, alt |-> FALSE, smart |-> smart, content |-> content]
MCViews ==
  {Showing("text", "none", 0, TRUE), Showing("graphics", "help", 0, TRUE), Showing("mixed", "picker", NoPixels, FALSE),
   [Showing("debugger", "none", 1, TRUE) EXCEPT !.fullscreen = TRUE]}
MCContents == (0 :> 65) @@ (1 :> 160) @@ (NoPixels :> 160)

----------------------------------------------------------------------------
(* The machine that is not chosen stands still, in one state. *)
OneCpu == State("nmos", Base, {<<234, 0, 0>>}, 0, 0)
MCAllStarts == MCStarts \cup {OneCpu}
CpuStill ==
  machine # "cpu" => model = OneCpu.model /\ r = OneCpu.r /\ ram = OneCpu.ram /\ program = OneCpu.program
                       /\ budget = OneCpu.budget /\ events = OneCpu.events
TerminalStill ==
  /\ machine = "terminal" => (scene # "picker" => hostDisk = Full /\ startDirs.floppy = Root)
  /\ machine # "terminal" => scene = "cut" /\ hostDisk = Full /\ startDirs.floppy = Root
ScreenStill == machine # "screen" => size.w = 3
ConsoleInit ==
  /\ machine \in {"cpu", "session", "lists", "memory", "assembler", "terminal", "screen"}
  /\ Init /\ CpuStill
  /\ SessionInit /\ ListsInit /\ MemoryInit /\ AsmInit
  /\ TerminalInit /\ TerminalStill /\ ScreenInit /\ ScreenStill
But(name) ==
  /\ name = "cpu" \/ UNCHANGED vars
  /\ name = "session" \/ UNCHANGED sessionVars
  /\ name = "lists" \/ UNCHANGED listVars
  /\ name = "memory" \/ UNCHANGED memoryVars
  /\ name = "assembler" \/ UNCHANGED asmVars
  /\ name = "terminal" \/ UNCHANGED terminalVars
  /\ name = "screen" \/ UNCHANGED screenVars
ConsoleNext ==
  /\ UNCHANGED machine /\ But(machine)
  /\ \/ machine = "cpu" /\ Next
     \/ machine = "session" /\ SessionNext
     \/ machine = "lists" /\ ListsNext
     \/ machine = "memory" /\ MemoryNext
     \/ machine = "assembler" /\ AsmNext
     \/ machine = "terminal" /\ TerminalNext
     \/ machine = "screen" /\ ScreenNext
ConsoleSpec ==
  ConsoleInit /\ [][ConsoleNext]_<<machine, vars, sessionVars, listVars, memoryVars, asmVars, terminalVars, screenVars>>
=============================================================================
