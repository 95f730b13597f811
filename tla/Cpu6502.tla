------------------------------ MODULE Cpu6502 ------------------------------
(* The processor of CPU.cpp, one instruction at a time: the opcode's handler   *)
(* runs, its cycles are counted, the flags are packed, and then the NMI and    *)
(* the IRQ line are looked at (cpu_execute_loop). Devices pull and release     *)
(* the lines between instructions; the reset key and a restored snapshot       *)
(* change the registers there too.                                             *)
(*                                                                             *)
(* Memory is a function on the addresses that have been given a value; every   *)
(* other byte reads as zero, apart from the program, which is whatever         *)
(* instruction the environment has put at the program counter: Program is the  *)
(* set of <<opcode, low, high>> it may put there. The banks behind the         *)
(* addresses are PagedMemory's subject, the I/O page the slot manager's.       *)
EXTENDS Alu6502, Opcodes6502, FiniteSets

CONSTANTS
  Devices,     \* the devices on the interrupt lines
  Starts,      \* machine states to start from: see StartState
  SavedStates  \* register files a snapshot may bring

VARIABLES
  model,     \* which of the two parts the machine has
  r,         \* the registers, flags unpacked
  ram,       \* the bytes that have been given a value
  instr,     \* the three bytes at the program counter
  program,   \* what the environment puts at the next program counter
  budget,    \* instructions left to run: a bound of the model
  events,    \* line changes and resets left: a bound of the model
  cost,      \* cycles of the last instruction and the interrupts it let in
  jammed,    \* regs.is_jammed
  irq, nmi,  \* bm_irq, bm_nmi: the devices that hold each line
  flank,     \* nmi_flank
  frames     \* the interrupts in service, innermost first: see Enter

vars == <<model, r, ram, instr, program, budget, events, cost, jammed, irq, nmi, flank, frames>>

Byte == 0..255
Word == 0..65535
StackBegin == 256
StackEnd   == 511
NmiVector   == 65530
ResetVector == 65532
IrqVector   == 65534
IoRegion == 49152..53247

(* What a machine starts as: the part, its registers, some memory, the program *)
(* around it and how many instructions and events it is watched for.           *)
Registers == [a : Byte, x : Byte, y : Byte, sp : StackBegin..StackEnd, pc : Word,
              c : {0, 1}, z : {0, 1}, n : {0, 1}, v : {0, 1}, d : {0, 1}, i : {0, 1}]
HoldsBytes(mem) == \A addr \in DOMAIN mem : addr \in Word /\ mem[addr] \in Byte

ASSUME CpuAssumption ==
  /\ \A s \in Starts :
       /\ s.model \in {"nmos", "cmos"} /\ s.r \in Registers /\ HoldsBytes(s.ram)
       /\ s.program \subseteq Byte \X Byte \X Byte
       /\ s.budget \in Nat /\ s.events \in Nat
  /\ SavedStates \subseteq Registers

Init ==
  /\ \E s \in Starts :
       /\ model = s.model /\ r = s.r /\ ram = s.ram /\ program = s.program
       /\ budget = s.budget /\ events = s.events
       /\ instr \in s.program
  /\ cost = 0 /\ jammed = FALSE
  /\ irq = {} /\ nmi = {} /\ flank = FALSE
  /\ frames = << >>

------------------------------------------------------------------------------
(* A machine m is its registers r, its memory ram and the instruction at the   *)
(* program counter the step began with.                                        *)

Mem(m, addr) ==
  LET k == addr - m.at
  IN  CASE addr \in DOMAIN m.ram -> m.ram[addr]
        [] addr \notin DOMAIN m.ram /\ k \in 0..2 -> m.instr[k + 1]
        [] OTHER -> 0
MemWord(m, addr) == Mem(m, addr) + 256 * Mem(m, addr + 1)
WithByte(mem, addr, v) ==
  [b \in DOMAIN mem \cup {addr} |-> IF b = addr THEN v ELSE mem[b]]

(* write_byte: a write to the I/O page goes to the slot manager instead. *)
write_byte(m, addr, v) ==
  IF addr \in IoRegion THEN m ELSE [m EXCEPT !.ram = WithByte(@, addr, v)]
push_out_of_page(m, v) ==                          \* a broken push
  [m EXCEPT !.ram = WithByte(@, m.r.sp, v), !.r.sp = @ - 1]
push(m, v) ==
  [m EXCEPT !.ram = WithByte(@, m.r.sp, v),
            !.r.sp = IF @ - 1 < StackBegin THEN StackEnd ELSE @ - 1]
PopAddress(sp) == IF sp >= StackEnd THEN StackBegin ELSE sp + 1
pop(m) == [v |-> Mem(m, PopAddress(m.r.sp)), m |-> [m EXCEPT !.r.sp = PopAddress(@)]]
PushWord(m, w) == push(push(m, w \div 256), Low8(w))
PopWord(m) == LET lo == pop(m)
                  hi == pop(lo.m)
              IN  [v |-> lo.v + 256 * hi.v, m |-> hi.m]

------------------------------------------------------------------------------
(* Addressing modes: the address, the base it was formed from, the bytes after *)
(* the opcode, and the extra cycle.                                            *)

Crosses(base, addr) == Flag(base \div 256 # addr \div 256)
ZeroPageWord(m, p) == Mem(m, p) + 256 * Mem(m, Low8(p + 1))
SignExtended(b) == IF b >= 128 THEN b + 65280 ELSE b
Indexed(base, k) == [addr |-> Low16(base + k), base |-> base, extra |-> Crosses(base, Low16(base + k))]
Plain(addr) == [addr |-> addr, base |-> addr, extra |-> 0]

OperandBytes(mode) ==
  CASE mode = "none" -> 0
    [] mode \in {"abs", "absx", "absy", "iabs_nmos", "iabs_cmos", "iabsx"} -> 2
    [] OTHER -> 1

EffectiveAddress(mode, m) ==
  LET low  == m.instr[2]
      word == m.instr[2] + 256 * m.instr[3]
  IN  CASE mode = "none"      -> Plain(0)
        [] mode = "imm"       -> Plain(Low16(m.at + 1))
        [] mode = "rel"       -> Plain(SignExtended(low))
        [] mode = "zpg"       -> Plain(low)
        [] mode = "zpgx"      -> Plain(Low8(low + m.r.x))
        [] mode = "zpgy"      -> Plain(Low8(low + m.r.y))
        [] mode = "abs"       -> Plain(word)
        [] mode = "absx"      -> Indexed(word, m.r.x)
        [] mode = "absy"      -> Indexed(word, m.r.y)
        [] mode = "indx"      -> Plain(ZeroPageWord(m, Low8(low + m.r.x)))
        [] mode = "indy"      -> Indexed(ZeroPageWord(m, low), m.r.y)
        [] mode = "izpg"      -> Plain(ZeroPageWord(m, low))
        [] mode = "iabsx"     -> Plain(MemWord(m, word + m.r.x))
        [] mode = "iabs_nmos" ->
             Plain(Mem(m, word) + 256 * Mem(m, IF low = 255 THEN word - 255 ELSE word + 1))
        [] mode = "iabs_cmos" -> [Plain(MemWord(m, word)) EXCEPT !.extra = Flag(low = 255)]

------------------------------------------------------------------------------
(* The operations that move the stack or the program counter. *)

BranchTaken(op, q) ==
  CASE op = "bpl" -> q.n = 0 [] op = "bmi" -> q.n = 1
    [] op = "bvc" -> q.v = 0 [] op = "bvs" -> q.v = 1
    [] op = "bcc" -> q.c = 0 [] op = "bcs" -> q.c = 1
    [] op = "bne" -> q.z = 0 [] op = "beq" -> q.z = 1
    [] op = "bra" -> TRUE
Branches == {"bpl", "bmi", "bvc", "bvs", "bcc", "bcs", "bne", "beq", "bra"}

(* BRK, IRQ and NMI enter a handler alike: the address and the packed flags,   *)
(* with or without the break bit, go on the stack, interrupts are shut out,    *)
(* and the 65C02 leaves decimal mode.                                          *)
EnterHandler_breaks(part, m, vector, break) ==     \* a broken EnterHandler
  LET s == push(PushWord(m, m.r.pc), pack_ps(m.r))
  IN  [s EXCEPT !.r.i = 1, !.r.d = IF part = "cmos" THEN 0 ELSE @, !.r.pc = MemWord(s, vector)]
EnterHandler(part, m, vector, break) ==
  LET s == push(PushWord(m, m.r.pc), pack_ps(m.r) - (IF break THEN 0 ELSE 16))
      t == [s EXCEPT !.r.i = 1, !.r.d = IF part = "cmos" THEN 0 ELSE @]
  IN  [t EXCEPT !.r.pc = MemWord(t, vector)]

StackOp(part, op, m, addr) ==
  CASE op = "jmp" -> [m EXCEPT !.r.pc = addr]
    [] op = "jsr" -> [PushWord(m, Low16(m.r.pc - 1)) EXCEPT !.r.pc = addr]
    [] op = "rts" -> LET p == PopWord(m) IN [p.m EXCEPT !.r.pc = Low16(p.v + 1)]
    [] op = "rti" -> LET f == pop(m)
                         p == PopWord([f.m EXCEPT !.r = unpack_ps(@, f.v)])
                     IN  [p.m EXCEPT !.r.pc = p.v]
    [] op = "brk" -> EnterHandler(part, [m EXCEPT !.r.pc = Low16(@ + 1)], IrqVector, TRUE)
    [] op = "hlt" -> [m EXCEPT !.r.pc = Low16(@ - 1)]
    [] op = "pha" -> push(m, m.r.a)
    [] op = "phx" -> push(m, m.r.x)
    [] op = "phy" -> push(m, m.r.y)
    [] op = "php" -> push(m, pack_ps(m.r))
    [] op = "pla" -> LET p == pop(m) IN [p.m EXCEPT !.r = load_a(@, p.v)]
    [] op = "plx" -> LET p == pop(m) IN [p.m EXCEPT !.r = [set_nz(@, p.v) EXCEPT !.x = p.v]]
    [] op = "ply" -> LET p == pop(m) IN [p.m EXCEPT !.r = [set_nz(@, p.v) EXCEPT !.y = p.v]]
    [] op = "plp" -> LET p == pop(m) IN [p.m EXCEPT !.r = unpack_ps(@, p.v)]
StackOps == {"jmp", "jsr", "rts", "rti", "brk", "hlt", "pha", "phx", "phy", "php",
             "pla", "plx", "ply", "plp"}

------------------------------------------------------------------------------
(* One instruction: its handler, then the cycles it took. *)

Execute(part, m) ==
  LET desc == Opcode[part][m.instr[1]]
      mode == desc.mode
      op   == desc.op
      ea   == EffectiveAddress(mode, m)
      n    == [m EXCEPT !.r.pc = Low16(@ + 1 + OperandBytes(mode))]
      at   == IF op \in MixedStores THEN (ea.addr % 256) + 256 * StoreValue(op, m.r, ea.base)
              ELSE ea.addr
      moved == ModifyOp(op, m.r, Mem(m, ea.addr))
      target == Low16(n.r.pc + ea.addr)
      done ==
        CASE op \in Branches -> IF BranchTaken(op, m.r) THEN [n EXCEPT !.r.pc = target] ELSE n
          [] op \in StackOps -> StackOp(part, op, n, ea.addr)
          [] op \in Reads    -> [n EXCEPT !.r = ReadOp(op, @, Mem(m, ea.addr))]
          [] op \in Modifies -> write_byte([n EXCEPT !.r = [moved.r EXCEPT !.pc = n.r.pc]],
                                           ea.addr, moved.m)
          [] op \in Stores   -> write_byte([n EXCEPT !.r.sp = IF op = "tas" THEN 256 + And(m.r.a, m.r.x)
                                                              ELSE @],
                                           at, StoreValue(op, m.r, ea.base))
          [] OTHER           -> [n EXCEPT !.r = RegisterOp(op, @)]
      extra ==
        CASE op \in Branches /\ BranchTaken(op, m.r) -> 1 + Crosses(n.r.pc, target)
          [] op \in {"adc_cmos", "sbc_cmos"}         -> ea.extra + m.r.d
          [] OTHER                                    -> ea.extra
  IN  [m |-> done, op |-> op, cost |-> desc.cycles + extra]

(* A frame is an entry to a handler that has not been popped: who made it,     *)
(* what it has to come back to, and how many bytes lie above it.               *)
Flags(q) == [k \in {"c", "z", "n", "v", "d", "i"} |-> q[k]]
Enter(kind, q) ==
  [kind |-> kind, pc |-> q.pc, ps |-> Flags(q), above |-> 0]
Pushed(old, new) == (((old - new) + 384) % 256) - 128
Buried(fs, bytes) ==
  LET moved == [k \in DOMAIN fs |-> [fs[k] EXCEPT !.above = @ + bytes]]
      gone  == Cardinality({k \in DOMAIN fs : moved[k].above < 0})
  IN  SubSeq(moved, gone + 1, Len(moved))
Entered(fs, f) == <<f>> \o Buried(fs, 3)

Now == [r |-> r, ram |-> ram, at |-> r.pc, instr |-> instr]
ExecuteInstruction ==
  /\ budget > 0
  /\ \E x \in {Execute(model, Now)} :
     \E after \in {IF flank THEN EnterHandler(model, x.m, NmiVector, FALSE) ELSE x.m} :
     \E takes \in {irq # {} /\ after.r.i = 0} :
     \E last \in {IF takes THEN EnterHandler(model, after, IrqVector, FALSE) ELSE after} :
     \E own \in {IF x.op = "brk" THEN Entered(frames, Enter("brk", [r EXCEPT !.pc = Low16(@ + 2)]))
                  ELSE Buried(frames, Pushed(r.sp, x.m.r.sp))} :
     \E served \in {IF flank THEN Entered(own, Enter("nmi", x.m.r)) ELSE own} :
       /\ r' = last.r /\ ram' = last.ram
       /\ cost' = x.cost + 7 * Flag(flank) + 7 * Flag(takes)
       /\ jammed' = (jammed \/ x.op = "hlt")
       /\ frames' = IF takes THEN Entered(served, Enter("irq", after.r)) ELSE served
  /\ flank' = FALSE
  /\ instr' \in IF budget = 1 THEN {instr} ELSE program
  /\ budget' = budget - 1
  /\ UNCHANGED <<model, program, events, irq, nmi>>

Between == events > 0 /\ budget > 0 /\ events' = events - 1

cpu_irq_assert(device) ==
  /\ Between /\ device \notin irq
  /\ irq' = irq \cup {device}
  /\ UNCHANGED <<model, r, ram, instr, program, budget, cost, jammed, nmi, flank, frames>>
cpu_irq_deassert(device) ==
  /\ Between /\ device \in irq
  /\ irq' = irq \ {device}
  /\ UNCHANGED <<model, r, ram, instr, program, budget, cost, jammed, nmi, flank, frames>>
(* Only the first device to pull the NMI line makes an edge. *)
cpu_nmi_assert(device) ==
  /\ Between /\ device \notin nmi
  /\ nmi' = nmi \cup {device}
  /\ flank' = (flank \/ nmi = {})
  /\ UNCHANGED <<model, r, ram, instr, program, budget, cost, jammed, irq, frames>>
cpu_nmi_deassert(device) ==
  /\ Between /\ device \in nmi
  /\ nmi' = nmi \ {device}
  /\ UNCHANGED <<model, r, ram, instr, program, budget, cost, jammed, irq, flank, frames>>

Restarted(q) == [q EXCEPT !.i = 1, !.d = 0, !.sp = 256 + Low8(@ - 3),
                          !.pc = MemWord(Now, ResetVector)]
cpu_reset ==
  /\ Between
  /\ r' = Restarted(r) /\ jammed' = FALSE /\ frames' = << >>
  /\ UNCHANGED <<model, ram, instr, program, budget, cost, irq, nmi, flank>>
cpu_initialize ==
  /\ Between
  /\ r' = Restarted([a |-> 255, x |-> 255, y |-> 255, sp |-> StackEnd, pc |-> r.pc,
                     c |-> 1, z |-> 1, n |-> 1, v |-> 1, d |-> 1, i |-> 1])
  /\ jammed' = FALSE /\ frames' = << >>
  /\ irq' = {} /\ nmi' = {} /\ flank' = FALSE
  /\ UNCHANGED <<model, ram, instr, program, budget, cost>>
(* The restored registers come with both lines released: the cards pull them   *)
(* again as they load. is_jammed is not in the snapshot.                       *)
cpu_set_snapshot ==
  /\ Between
  /\ r' \in SavedStates
  /\ irq' = {} /\ nmi' = {} /\ flank' = FALSE /\ frames' = << >>
  /\ UNCHANGED <<model, ram, instr, program, budget, cost, jammed>>

Next ==
  \/ ExecuteInstruction
  \/ \E device \in Devices :
       \/ cpu_irq_assert(device) \/ cpu_irq_deassert(device)
       \/ cpu_nmi_assert(device) \/ cpu_nmi_deassert(device)
  \/ cpu_reset \/ cpu_initialize \/ cpu_set_snapshot

Spec == Init /\ [][Next]_vars

------------------------------------------------------------------------------
(* The registers keep their widths and the stack pointer its page. *)
CpuTypeOK ==
  /\ model \in {"nmos", "cmos"} /\ r \in Registers
  /\ HoldsBytes(ram) /\ instr \in program /\ program \subseteq Byte \X Byte \X Byte
  /\ budget \in Nat /\ events \in Nat /\ cost \in Nat
  /\ jammed \in BOOLEAN /\ flank \in BOOLEAN
  /\ irq \subseteq Devices /\ nmi \subseteq Devices
  /\ \A k \in DOMAIN frames : frames[k].kind \in {"brk", "irq", "nmi"} /\ frames[k].above \in Nat

(* While a handler has not popped it, the stack holds the return address and   *)
(* the flags of every entry, whatever was pushed above them and across the     *)
(* wrap of the stack page, and its break bit tells BRK from the two lines:     *)
(* the one thing a handler on the shared vector has to tell them by            *)
(* (EnterHandler, push, pop).                                                  *)
Above(sp, k) == StackBegin + Low8(sp + k)
FramesHoldTheReturn ==
  \A k \in DOMAIN frames :
    LET f == frames[k]
        at(n) == ram[Above(r.sp, f.above + n)]
    IN  /\ at(2) + 256 * at(3) = f.pc
        /\ Flags(unpack_ps(r, at(1))) = f.ps
        /\ (Bit(at(1), 16) = 1) <=> (f.kind = "brk")

(* RTI on top of an entry resumes the program at the instruction, and with the *)
(* flags, it was left with, even when a line is taken again at once, in which  *)
(* case that is what the new entry will come back to (op_rti, check_nmi,       *)
(* check_irq).                                                                 *)
ReturnsWhereItLeft ==
  [][ budget' # budget /\ frames # << >> /\ Opcode[model][instr[1]].op = "rti" /\ frames[1].above = 0
      => IF Len(frames') = Len(frames)
         THEN frames'[1].pc = frames[1].pc /\ frames'[1].ps = frames[1].ps
         ELSE r'.pc = frames[1].pc /\ Flags(r') = frames[1].ps ]_vars

(* In decimal mode the sum and the difference of two-digit decimal numbers and *)
(* the carry are right on both parts; on the 65C02, Z and N describe the       *)
(* decimal result too (op_adc_nmos to op_sbc_cmos).                            *)
IsBcd(b) == b % 16 < 10 /\ b \div 16 < 10
ToNumber(b) == 10 * (b \div 16) + (b % 16)
ToBcd(n) == 16 * (n \div 10) + (n % 10)
DecimalArithmeticIsExact ==
  [][ LET op  == Opcode[model][instr[1]].op
          m   == Mem(Now, Low16(r.pc + 1))
          adds == op \in {"adc_nmos", "adc_cmos"}
          sum == IF adds THEN ToNumber(r.a) + ToNumber(m) + r.c
                 ELSE ToNumber(r.a) - ToNumber(m) - (1 - r.c)
      IN  budget' # budget /\ r.d = 1 /\ irq = {} /\ flank = FALSE
          /\ instr[1] \in {105, 233} /\ IsBcd(r.a) /\ IsBcd(m)
          => /\ r'.a = ToBcd((sum + 100) % 100)
             /\ r'.c = IF adds THEN Flag(sum > 99) ELSE Flag(sum >= 0)
             /\ model = "cmos" => r'.z = Flag(r'.a = 0) /\ r'.n = Bit(r'.a, 128) ]_vars
=============================================================================
