-------------------------- MODULE DebuggerTargets --------------------------
(* What the debugger says of the instruction at an address before it runs:    *)
(* its length, the addresses it will touch and where control goes next        *)
(* (Debugger_Assembler.cpp). The debugger keeps an opcode table of its own,   *)
(* always the one of the 65C02.                                               *)
EXTENDS Cpu6502

NoTarget == -1   \* NO_6502_TARGET

(* opcodes65_c02 column by column: a row of sixteen opcodes is even or odd,    *)
(* and a handful of opcodes leave the pattern of their column.                 *)
EvenColumn == << "imp", "indx", "imm", "imp", "zpg", "zpg", "zpg", "imp",
                 "imp", "imm", "imp", "imp", "abs", "abs", "abs", "imp" >>
OddColumn  == << "rel", "indy", "izpg", "imp", "zpgx", "zpgx", "zpgx", "imp",
                 "imp", "absy", "imp", "imp", "absx", "absx", "absx", "imp" >>
AddressMode(opcode) ==
  CASE opcode = 32 -> "abs"                      \* JSR
    [] opcode = 128 -> "rel"                     \* BRA
    [] opcode \in {160, 192, 224} -> "imm"       \* LDY CPY CPX
    [] opcode = 20 -> "zpg"                      \* TRB
    [] opcode \in {28, 156} -> "abs"             \* TRB STZ
    [] opcode \in {150, 182} -> "zpgy"           \* STX LDX
    [] opcode = 190 -> "absy"                    \* LDX
    [] opcode = 108 -> "iabs"                    \* JMP (a)
    [] opcode = 124 -> "iabsx"                   \* JMP (a,X)
    [] OTHER -> IF (opcode \div 16) % 2 = 0 THEN EvenColumn[(opcode % 16) + 1]
                ELSE OddColumn[(opcode % 16) + 1]
StackWrites == {0, 8, 32, 72, 90, 218}           \* BRK PHP JSR PHA PHY PHX
StackReads  == {40, 64, 96, 104, 122, 250}       \* PLP RTI RTS PLA PLY PLX
BrkOpcode == 0
JsrOpcode == 32
RtiOpcode == 64
RtsOpcode == 96

(* GetOpmodeOpbyte, for an address no data directive covers. *)
GetOpmodeOpbyte(opcode) ==
  CASE AddressMode(opcode) = "imp" -> 1
    [] AddressMode(opcode) \in {"abs", "absx", "absy", "iabs", "iabsx"} -> 3
    [] OTHER -> 2

IsOpcodeBranch(opcode) == opcode = 128 \/ opcode % 32 = 16
(* The byte to assemble for a branch, if the target is in its reach. *)
CalcRelativeOffset(from, target) ==
  LET distance == target - from - 2
  IN  [byte |-> Low8(distance), bad |-> distance > 127 \/ distance < -128]

StackSlot_unmasked(sp, k) == 256 + sp + k     \* a broken StackSlot
StackSlot(sp, k) == 256 + Low8(sp + k)

(* GetTargets: partial and partial2 are the bytes a pointer or a return        *)
(* address is read from or written to; pointer is the operand or the next      *)
(* program counter.                                                            *)
NoTargets == [partial |-> NoTarget, partial2 |-> NoTarget, pointer |-> NoTarget]
StackTargets(m, opcode) ==
  LET from == IF opcode = RtiOpcode THEN m.r.sp + 1 ELSE m.r.sp
      back == Mem(m, StackSlot(from, 1)) + 256 * Mem(m, StackSlot(from, 2))
  IN  CASE opcode = RtiOpcode -> [partial |-> StackSlot(from, 1), partial2 |-> StackSlot(from, 2),
                                  pointer |-> back]
        [] opcode = RtsOpcode -> [partial |-> StackSlot(from, 1), partial2 |-> StackSlot(from, 2),
                                  pointer |-> Low16(back + 1)]
        [] opcode = BrkOpcode -> [partial |-> StackSlot(from, 0), partial2 |-> StackSlot(from, -1),
                                  pointer |-> MemWord(m, IrqVector)]
        [] OTHER -> [NoTargets EXCEPT !.pointer =
                       StackSlot(from, IF opcode \in StackWrites THEN 0 ELSE 1)]
GetTargets(m, bIgnoreBranch) ==
  LET opcode == m.instr[1]
      mode   == AddressMode(opcode)
      low    == m.instr[2]
      word   == m.instr[2] + 256 * m.instr[3]
      indexed == Low16(word + m.r.x)
      pointer(p) == [NoTargets EXCEPT !.pointer = p]
      through(p, k) == [NoTargets EXCEPT !.partial = p, !.pointer = Low16(MemWord(m, p) + k)]
  IN  CASE mode = "imp" -> IF opcode \in StackWrites \cup StackReads THEN StackTargets(m, opcode)
                           ELSE NoTargets
        [] mode = "abs" -> IF opcode = JsrOpcode
                           THEN [partial |-> StackSlot(m.r.sp, 0), partial2 |-> StackSlot(m.r.sp, -1),
                                 pointer |-> word]
                           ELSE pointer(word)
        [] mode = "iabsx" -> [partial |-> indexed, partial2 |-> indexed + 1,
                              pointer |-> MemWord(m, indexed)]
        [] mode = "iabs"  -> [partial |-> word, partial2 |-> word + 1, pointer |-> MemWord(m, word)]
        [] mode = "absx"  -> pointer(indexed)
        [] mode = "absy"  -> pointer(Low16(word + m.r.y))
        [] mode = "indx"  -> through(Low8(low + m.r.x), 0)
        [] mode = "indy"  -> through(low, m.r.y)
        [] mode = "izpg"  -> through(low, 0)
        [] mode = "rel"   -> IF bIgnoreBranch THEN NoTargets
                             ELSE [NoTargets EXCEPT !.partial = low,
                                     !.pointer = Low16(m.at + 2 + (IF low <= 127 THEN low ELSE -low))]
        [] mode = "zpg"   -> pointer(low)
        [] mode = "zpgx"  -> pointer(Low8(low + m.r.x))
        [] mode = "zpgy"  -> pointer(Low8(low + m.r.y))
        [] OTHER          -> NoTargets

------------------------------------------------------------------------------
(* Where the debugger and the processor are known to part, by the code of the  *)
(* one or of the other (see the README): a branch backwards, a pointer that    *)
(* wraps in the zero page, in a page or at the end of memory, a branch across  *)
(* either end of memory, and the NMOS opcodes the 65C02 table does not         *)
(* describe.                                                                   *)

Documented == {n \in 0..255 : Opcode["nmos"][n].op = Opcode["cmos"][n].op
                              /\ Opcode["nmos"][n].mode = Opcode["cmos"][n].mode}
              \cup {n \in 0..255 : Opcode["nmos"][n].op \in {"adc_nmos", "sbc_nmos"} /\ n % 4 = 1}
              \cup {108}
Described(part, opcode) == part = "cmos" \/ opcode \in Documented
WrapsItsPointer(m) ==
  LET mode == AddressMode(m.instr[1])
  IN  \/ mode \in {"indy", "izpg", "iabs"} /\ m.instr[2] = 255
      \/ mode = "indx" /\ Low8(m.instr[2] + m.r.x) = 255
      \/ mode = "iabsx" /\ m.instr[2] + 256 * m.instr[3] + m.r.x >= 65535
Displacement(low) == IF low > 127 THEN low - 256 ELSE low
BranchesBack(m) == AddressMode(m.instr[1]) = "rel" /\ m.instr[2] > 127

Goes(op) == op \in Branches \cup {"jmp", "jsr", "rts", "rti", "brk"}

(* What the debugger shows beside an instruction is what the processor then    *)
(* does: the instruction is as long, the operand is at the address it names,   *)
(* and a jump, call, return or branch taken goes where it says.                *)
DebuggerPredictsTheCpu ==
  budget > 0 /\ Described(model, instr[1]) =>
    LET desc == Opcode[model][instr[1]]
        ea   == EffectiveAddress(desc.mode, Now)
        next == Execute(model, Now).m.r.pc
        said == GetTargets(Now, FALSE).pointer
        wraps == WrapsItsPointer(Now) \/ BranchesBack(Now)
    IN  /\ GetOpmodeOpbyte(instr[1]) = 1 + OperandBytes(desc.mode) \/ desc.op = "hlt"
        /\ Goes(desc.op) /\ ~wraps /\ (desc.op \in Branches => BranchTaken(desc.op, r)) => said = next
        /\ desc.op \in Reads \cup Modifies \cup Stores /\ desc.mode # "imm" /\ ~wraps => said = ea.addr
        /\ desc.op \in StackOps \ {"jmp", "hlt", "brk", "rti", "rts", "jsr"}
             => said = IF instr[1] \in StackWrites THEN r.sp ELSE PopAddress(r.sp)
        /\ desc.mode = "rel" /\ r.pc + 2 + Displacement(instr[2]) \in Word =>
             CalcRelativeOffset(r.pc, Low16(r.pc + 2 + ea.addr)) = [byte |-> instr[2], bad |-> FALSE]
=============================================================================
