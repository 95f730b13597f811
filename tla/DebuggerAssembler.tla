------------------------- MODULE DebuggerAssembler -------------------------
(* The debugger's line assembler and its tables of symbols                    *)
(* (Debugger_Assembler.cpp, Debugger_Symbols.cpp). A line is assembled as it   *)
(* is read, in one pass: an operand that names a symbol still to come waits in *)
(* a list, and each line that follows fills one of those it can. Of the pages  *)
(* they are written to, the one of the first byte is marked dirty: left out.   *)
EXTENDS Integers, Sequences, SequencesExt

CONSTANTS
  Instructions,    \* [mnemonic -> [addressing mode -> opcode]]
  BranchOpcodes,        \* the opcodes of branches
  AsmLines,        \* [label, mnemonic, tokens]: lines typed; label "" when it begins with a space
  SymbolTables,    \* the tables, numbers; the last are searched first
  AssemblyTable,   \* SYMBOLS_ASSEMBLY
  ShownAtFirst,    \* display_symbol_tables
  SymbolFiles,     \* [address -> name]: the symbol files there are
  SymbolNames,     \* names the SYM commands give
  AsmTop,          \* addresses of the model's memory: 0 to AsmTop
  MaxAsmSteps      \* lines and commands: a bound of the model

VARIABLES
  asmInput,     \* [on, script]: assembler_input, and lines are read from a script
  asmAddress,   \* assembler_address
  asmBad,       \* asm_address_mode is NUM_OPMODES: the last branch went too far
  asmMemory,    \* [address -> byte]
  symbols,      \* [table -> [address -> name]]
  shownTables,  \* display_symbol_tables
  waiting,      \* delayed_targets: <<[base, name, opcode]>>
  placed,       \* history: [base -> [name, opcode]] the instructions that stand, "" for no name
  spoiled,      \* history: addresses filled for an instruction that stands no more
  had,          \* history: <<name, address>> the tables ever held
  asmSteps

asmVars == <<asmInput, asmAddress, asmBad, asmMemory, symbols, shownTables, waiting,
             placed, spoiled, had, asmSteps>>

NoEntries == [a \in {} |-> ""]
Without(f, keys) == [k \in DOMAIN f \ keys |-> f[k]]
With(f, k, v) == [j \in DOMAIN f \cup {k} |-> IF j = k THEN v ELSE f[j]]
LowestOf(S) == CHOOSE a \in S : \A b \in S : a <= b

----------------------------------------------------------------------------
(* FindAddressFromSymbol: the last shown table that has the name, and its      *)
(* lowest address there.                                                       *)
Holders(tables, name) == {t \in shownTables : \E a \in DOMAIN tables[t] : tables[t][a] = name}
FoundIn(tables, name) == CHOOSE t \in Holders(tables, name) : \A u \in Holders(tables, name) : u <= t
AddressesOf(table, name) == {a \in DOMAIN table : table[a] = name}
Known(tables, name) == Holders(tables, name) # {}
FindAddressFromSymbol(tables, name) == LowestOf(AddressesOf(tables[FoundIn(tables, name)], name))

(* SymbolUpdate: the name's last address goes if the table is the one it was   *)
(* found in, and another name's entry at the new address goes.                 *)
SymbolUpdate(tables, table, name, updates, address) ==
  LET found == Known(tables, name) /\ FoundIn(tables, name) = table
      rest == IF found THEN Without(tables[table], {FindAddressFromSymbol(tables, name)}) ELSE tables[table]
  IN  [tables EXCEPT ![table] = IF updates THEN With(rest, address, name) ELSE rest]

----------------------------------------------------------------------------
(* Opcodes: the bytes of an instruction, and the byte of a branch.             *)
InstructionModes ==
  [opcode \in UNION {{Instructions[m][mode] : mode \in DOMAIN Instructions[m]} : m \in DOMAIN Instructions} |->
     CHOOSE mode \in UNION {DOMAIN Instructions[m] : m \in DOMAIN Instructions} :
       \E m \in DOMAIN Instructions : mode \in DOMAIN Instructions[m] /\ Instructions[m][mode] = opcode]
PokedBytes(opcode) ==
  CASE opcode = 0 -> 0
    [] opcode # 0 /\ InstructionModes[opcode] = "implied" -> 0
    [] opcode # 0 /\ InstructionModes[opcode] \in {"A", "AX", "AY", "indirect"} -> 2
    [] OTHER -> 1
Distance(base, target) == target - base - 2
TooFar(base, target) == Distance(base, target) > 127 \/ Distance(base, target) < -128
TargetValue(opcode, base, target) ==
  IF opcode \in BranchOpcodes THEN Distance(base, target) % 256 ELSE target
\* AssemblerPokeAddress.
Poked(memory, base, opcode, value) ==
  [a \in DOMAIN memory |->
     CASE a = base + 1 /\ PokedBytes(opcode) > 0 -> value % 256
       [] a = base + 2 /\ PokedBytes(opcode) > 1 -> value \div 256
       [] OTHER -> memory[a]]
BytesOf(base, opcode) == base .. base + PokedBytes(opcode)

(* AssemblerProcessDelayedSymols: the first target that can be filled is. A    *)
(* branch cannot while the last one went too far, itself or one before it.     *)
DelayedPass(tables) ==
  FoldLeft(LAMBDA s, i :
    LET entry == waiting[i]
        bad == s.bad \/ (entry.opcode \in BranchOpcodes
                           /\ TooFar(entry.base, FindAddressFromSymbol(tables, entry.name)))
    IN  CASE s.fill # 0 \/ ~Known(tables, entry.name) -> s
          [] s.fill = 0 /\ Known(tables, entry.name) ->
               IF entry.opcode \in BranchOpcodes /\ bad THEN [s EXCEPT !.bad = TRUE] ELSE [s EXCEPT !.fill = i],
    [bad |-> asmBad, fill |-> 0], [i \in 1 .. Len(waiting) |-> i])
Filled_erasesFirst(tables, pass) ==      \* a broken Filled: another target leaves the list
  LET entry == waiting[pass.fill]
      value == TargetValue(entry.opcode, entry.base, FindAddressFromSymbol(tables, entry.name))
  IN  IF pass.fill = 0 THEN [memory |-> asmMemory, waiting |-> waiting, spoils |-> {}]
      ELSE [memory |-> Poked(asmMemory, entry.base, entry.opcode, value), waiting |-> Tail(waiting), spoils |-> {}]
Filled(tables, pass) ==
  LET entry == waiting[pass.fill]
      target == FindAddressFromSymbol(tables, entry.name)
      mine == entry.base \in DOMAIN placed /\ placed[entry.base] = [name |-> entry.name, opcode |-> entry.opcode]
  IN  IF pass.fill = 0 THEN [memory |-> asmMemory, waiting |-> waiting, spoils |-> {}]
      ELSE [memory |-> Poked(asmMemory, entry.base, entry.opcode,
                             TargetValue(entry.opcode, entry.base, target)),
            waiting |-> RemoveAt(waiting, pass.fill),
            spoils |-> IF mine THEN {} ELSE BytesOf(entry.base, entry.opcode)]

----------------------------------------------------------------------------
(* AssemblerGetArgs: the tokens after the mnemonic. A number is read in base   *)
(* 10, or 16 after a dollar, and counts as one only when its value is printed  *)
(* in hexadecimal as it is written; any other unknown word is a symbol to come *)
(* and the operand 0.                                                          *)
NumberIn(digits, base) == FoldLeft(LAMBDA v, d : v * base + d, 0, digits)
AsWritten(digits, base) ==
  /\ digits # << >> /\ (Len(digits) = 1 \/ Head(digits) # 0)
  /\ NumberIn(digits, base) = NumberIn(digits, 16)
FreshArgs == [mode |-> "implied", next |-> "parm", base |-> 10, target |-> 0, names |-> << >>,
              hash |-> FALSE, dollar |-> FALSE, left |-> FALSE, right |-> FALSE, comma |-> FALSE,
              x |-> FALSE, y |-> FALSE, wrong |-> FALSE, over |-> FALSE]
Wrong(g) == [g EXCEPT !.wrong = TRUE]
TakesTarget(tables, g, word) ==
  LET found == Known(tables, word.name)
      delays == ~found /\ ~AsWritten(word.digits, g.base)
      target == CASE found -> FindAddressFromSymbol(tables, word.name)
                  [] delays -> 0
                  [] OTHER -> NumberIn(word.digits, g.base)
      mode == IF found /\ g.mode = "implied" THEN "A" ELSE g.mode
      names == IF delays THEN Append(g.names, word.name) ELSE g.names
  IN  [g EXCEPT !.next = "target", !.target = target, !.names = names,
                !.mode = IF mode \notin {"M", "implied"} /\ names = << >> /\ target <= 255 THEN "Z" ELSE mode]
GetArg(tables, g, t) ==
  IF g.wrong \/ g.over THEN g
  ELSE CASE t.kind = "#" ->
         IF g.next # "parm" THEN Wrong(g) ELSE [g EXCEPT !.hash = TRUE, !.mode = "M", !.next = "target"]
    [] t.kind = "$" -> IF g.dollar THEN Wrong(g)
                       ELSE [g EXCEPT !.base = 16, !.next = "target", !.dollar = ~g.hash,
                                      !.mode = IF g.hash THEN @ ELSE "A"]
    [] t.kind = "(" -> IF g.left THEN Wrong(g) ELSE [g EXCEPT !.left = TRUE, !.mode = "indirect"]
    [] t.kind = ")" -> IF g.right THEN Wrong(g) ELSE [g EXCEPT !.right = TRUE, !.mode = "indirect"]
    [] t.kind = "," -> IF g.comma THEN Wrong(g) ELSE [g EXCEPT !.comma = TRUE, !.next = "index"]
    [] t.kind = ";" -> [g EXCEPT !.over = TRUE]
    [] t.kind = "word" ->
         IF g.next \in {"parm", "target"} THEN TakesTarget(tables, g, t)
         ELSE [g EXCEPT !.x = @ \/ t.name = "X", !.y = @ \/ t.name = "Y"]
AssemblerGetArgs(tables, tokens) == FoldLeft(LAMBDA g, t : GetArg(tables, g, t), FreshArgs, tokens)

(* AssemblerUpdateAddressingMode: both parentheses and an index give the plain *)
(* index; a branch is relative, or too far.                                    *)
IndexedMode(g, small) ==
  CASE g.y /\ g.comma -> IF small THEN "ZY" ELSE "AY"
    [] g.x /\ ~g.y /\ g.comma -> IF small THEN "ZX" ELSE "AX"
    [] OTHER -> g.mode
UpdatedMode(g) ==
  IF g.left /\ g.right THEN IndexedMode(g, g.target <= 255)
  ELSE IF g.mode \in {"A", "Z"} THEN IndexedMode(g, g.mode = "Z") ELSE g.mode
IsWrong(g) == g.wrong \/ g.left # g.right \/ (g.comma /\ ~g.x /\ ~g.y)

\* AssemblerPokeOpcodeAddress and the rest of Assemble, after the delayed pass.
Assembled(tables, line, f, address) ==
  LET modes == Instructions[line.mnemonic]
      g == AssemblerGetArgs(tables, line.tokens)
      branch == "R" \in DOMAIN modes
      far == branch /\ ~IsWrong(g) /\ TooFar(address, g.target)
      mode == IF branch THEN "R" ELSE UpdatedMode(g)
      places == ~IsWrong(g) /\ ~far /\ mode \in DOMAIN modes
      opcode == modes[mode]
      delays == [i \in 1 .. Len(g.names) |->
                   [base |-> address, name |-> g.names[i],
                    opcode |-> IF places /\ i = Len(g.names) THEN opcode ELSE 0]]
      word == SelectSeq(line.tokens, LAMBDA t : t.kind = "word" /\ t.digits = << >>)
      bytes == BytesOf(address, opcode)
  IN  /\ asmBad' = far
      /\ waiting' = f.waiting \o delays
      /\ asmAddress' = IF places THEN asmAddress + PokedBytes(opcode) + 1 ELSE asmAddress
      /\ asmMemory' = IF places
                      THEN [Poked(f.memory, address, opcode, TargetValue(opcode, address, g.target))
                              EXCEPT ![address] = opcode]
                      ELSE f.memory
      /\ placed' = IF places
                   THEN With(Without(placed, {b \in DOMAIN placed : BytesOf(b, placed[b].opcode) \cap bytes # {}}),
                             address, [name |-> IF word = << >> THEN "" ELSE word[1].name, opcode |-> opcode])
                   ELSE placed
      /\ spoiled' = (spoiled \cup f.spoils) \ (IF places THEN bytes ELSE {})

----------------------------------------------------------------------------
AsmInit ==
  /\ asmInput = [on |-> FALSE, script |-> FALSE] /\ asmAddress = 0 /\ asmBad = FALSE
  /\ asmMemory = [a \in 0 .. AsmTop |-> 0]
  /\ symbols = [t \in SymbolTables |-> NoEntries] /\ shownTables = ShownAtFirst
  /\ waiting = << >> /\ placed = NoEntries /\ spoiled = {} /\ had = {} /\ asmSteps = 0
AsmStep == asmSteps < MaxAsmSteps /\ asmSteps' = asmSteps + 1
AssemblyAlone == UNCHANGED <<asmBad, asmMemory, waiting, placed, spoiled>>
SymbolsAre(tables) ==
  /\ symbols' = tables
  /\ had' = had \cup UNION {{<<tables[t][a], a>> : a \in DOMAIN tables[t]} : t \in SymbolTables}

\* A goes on where the assembler was, A address begins at 0: no number reaches
\* a command as anything else.
CmdAssemble(restart) ==
  /\ ~asmInput.on /\ UNCHANGED asmSteps
  /\ asmInput' = [asmInput EXCEPT !.on = TRUE]
  /\ asmAddress' = IF restart THEN 0 ELSE asmAddress
  /\ AssemblyAlone /\ UNCHANGED <<symbols, shownTables, had>>

\* DebuggerProcessCommand while the assembler is on.
AssembleLine(line) ==
  LET tables == IF line.label = "" THEN symbols
                ELSE SymbolUpdate(symbols, AssemblyTable, line.label, TRUE, asmAddress)
      pass == DelayedPass(tables)
      f == Filled(tables, pass)
  IN  /\ asmInput.on /\ AsmStep /\ asmAddress + 2 <= AsmTop
      /\ SymbolsAre(tables) /\ UNCHANGED <<asmInput, shownTables>>
      /\ \/ line.mnemonic \in DOMAIN Instructions /\ Assembled(tables, line, f, asmAddress)
         \/ /\ line.mnemonic \notin DOMAIN Instructions
            /\ asmBad' = pass.bad /\ waiting' = f.waiting /\ asmMemory' = f.memory
            /\ spoiled' = spoiled \cup f.spoils /\ UNCHANGED <<asmAddress, placed>>

\* Only a script's empty line ends the assembler: an empty line that is typed
\* is a G.
DebuggerRunScript ==
  /\ ~asmInput.on /\ UNCHANGED asmSteps /\ asmInput' = [asmInput EXCEPT !.script = ~@]
  /\ AssemblyAlone /\ UNCHANGED <<asmAddress, symbols, shownTables, had>>
AssemblerOff ==
  /\ asmInput.on /\ asmInput.script /\ UNCHANGED asmSteps /\ asmInput' = [asmInput EXCEPT !.on = FALSE]
  /\ AssemblyAlone /\ UNCHANGED <<asmAddress, symbols, shownTables, had>>

\* SYM and the commands named for a table.
SymbolCommand == ~asmInput.on /\ AsmStep /\ AssemblyAlone /\ UNCHANGED <<asmInput, asmAddress>>
CmdSymbolsUpdate(table, name, removes) ==
  /\ SymbolCommand /\ UNCHANGED shownTables
  /\ SymbolsAre(SymbolUpdate(symbols, table, name, ~removes, 0))
CmdSymbolsClear(table) ==
  SymbolCommand /\ UNCHANGED shownTables /\ SymbolsAre([symbols EXCEPT ![table] = NoEntries])
ParseSymbolTable(table, file) ==
  /\ SymbolCommand /\ UNCHANGED shownTables
  /\ SymbolsAre([symbols EXCEPT ![table] =
       [a \in DOMAIN @ \cup DOMAIN file |-> IF a \in DOMAIN file THEN file[a] ELSE @[a]]])
CmdSymbolsShow(table) ==
  /\ SymbolCommand /\ UNCHANGED <<symbols, had>>
  /\ \/ table \in shownTables /\ shownTables' = shownTables \ {table}
     \/ table \notin shownTables /\ shownTables' = shownTables \cup {table}

AsmNext ==
  \/ \E restart \in BOOLEAN : CmdAssemble(restart)
  \/ \E line \in AsmLines : AssembleLine(line)
  \/ DebuggerRunScript \/ AssemblerOff
  \/ \E table \in SymbolTables :
       \/ \E name \in SymbolNames, removes \in BOOLEAN : CmdSymbolsUpdate(table, name, removes)
       \/ \E file \in SymbolFiles : ParseSymbolTable(table, file)
       \/ CmdSymbolsClear(table) \/ CmdSymbolsShow(table)

----------------------------------------------------------------------------
(* An instruction that names a symbol, once it stands, waits for the symbol's  *)
(* address or holds one the symbol had, wherever the symbol was defined and    *)
(* whatever is assembled between, unless what was waiting for an instruction   *)
(* it replaced has been filled in over it (AssemblerProcessDelayedSymols).     *)
Holds(base, p, target) ==
  /\ asmMemory[base] = p.opcode /\ ~(p.opcode \in BranchOpcodes /\ TooFar(base, target))
  /\ Poked(asmMemory, base, p.opcode, TargetValue(p.opcode, base, target)) = asmMemory
OperandsResolve ==
  \A base \in DOMAIN placed :
    LET p == placed[base]
    IN  \/ p.name = "" \/ BytesOf(base, p.opcode) \cap spoiled # {}
        \/ \E i \in DOMAIN waiting : waiting[i] = [base |-> base, name |-> p.name, opcode |-> p.opcode]
        \/ \E h \in had : h[1] = p.name /\ Holds(base, p, h[2])
============================================================================
