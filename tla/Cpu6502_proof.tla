---------------------------- MODULE Cpu6502_proof ----------------------------
(***************************************************************************)
(* What is proved of the processor and of what the debugger predicts of    *)
(* it, for any program, memory, interrupts and either part: registers keep *)
(* their widths, interrupts return where they left while nothing else      *)
(* writes over the stack, decimal arithmetic is exact, and the debugger's  *)
(* table and the processor's agree.                                        *)
(***************************************************************************)
EXTENDS DebuggerTargets, FiniteSetTheorems, SequenceTheorems, TLAPS

RegisterOps == {"nop", "tax", "txa", "tay", "tya", "tsx", "txs", "ina", "dea", "inx", "dex", "iny", "dey",
                "asla", "lsra", "rola", "rora", "clc", "sec", "clv", "cli", "sei", "cld", "sed"}

(* The registers: what keeps their widths. *)

LEMMA BitIs == ASSUME NEW v \in Int, NEW k \in Places PROVE Bit(v, k) \in {0, 1}
<1>1. k \in Nat \ {0}
  BY DEF Places
<1>2. PICK w \in Int : w = v \div k
  BY <1>1
<1>. QED BY <1>2 DEF Bit

LEMMA FlagIs == ASSUME NEW p PROVE Flag(p) \in {0, 1}
BY DEF Flag

LEMMA ByteBounds == \A b : b \in Byte <=> b \in Int /\ 0 <= b /\ b <= 255
BY DEF Byte

LEMMA WordBounds == \A w : w \in Word <=> w \in Int /\ 0 <= w /\ w <= 65535
<1>1. PICK lo \in Int : lo = 0
  OBVIOUS
<1>2. PICK hi \in Int : hi = 65535
  OBVIOUS
<1>3. Word = lo .. hi
  BY <1>1, <1>2, SMT DEF Word
<1>4. \A w : w \in lo .. hi <=> w \in Int /\ lo <= w /\ w <= hi
  BY SMT
<1>5. \A w : w \in Word <=> w \in Int /\ lo <= w /\ w <= hi
  BY <1>3, <1>4, Zenon
<1>. QED BY <1>1, <1>2, <1>5, SMT

LEMMA StackBounds == \A w : w \in StackBegin .. StackEnd <=> w \in Int /\ 256 <= w /\ w <= 511
<1>1. PICK lo \in Int : lo = 256
  OBVIOUS
<1>2. PICK hi \in Int : hi = 511
  OBVIOUS
<1>3. StackBegin .. StackEnd = lo .. hi
  BY <1>1, <1>2, SMT DEF StackBegin, StackEnd
<1>4. \A w : w \in lo .. hi <=> w \in Int /\ lo <= w /\ w <= hi
  BY SMT
<1>5. \A w : w \in StackBegin .. StackEnd <=> w \in Int /\ lo <= w /\ w <= hi
  BY <1>3, <1>4, Zenon
<1>. QED BY <1>1, <1>2, <1>5, SMT

LEMMA ByteIsWord == \A b \in Byte : b \in Word
BY ByteBounds, WordBounds

LEMMA LowIs == ASSUME NEW v \in Int PROVE Low8(v) \in Byte /\ Low16(v) \in Word
<1>1. Low8(v) \in Int /\ 0 <= Low8(v) /\ Low8(v) <= 255
  BY DEF Low8
<1>2. Low16(v) \in Int /\ 0 <= Low16(v) /\ Low16(v) <= 65535
  BY DEF Low16
<1>. QED BY <1>1, <1>2, ByteBounds, WordBounds

LEMMA ByteOfIs ==
  ASSUME NEW bits, \A k \in Places : bits[k] \in {0, 1}
  PROVE  ByteOf(bits) \in Byte
<1>1. /\ bits[1] \in {0, 1} /\ bits[2] \in {0, 1} /\ bits[4] \in {0, 1} /\ bits[8] \in {0, 1}
      /\ bits[16] \in {0, 1} /\ bits[32] \in {0, 1} /\ bits[64] \in {0, 1} /\ bits[128] \in {0, 1}
  BY DEF Places
<1>. QED BY <1>1 DEF ByteOf, Byte

LEMMA MixedIsByte ==
  ASSUME NEW a, NEW b
  PROVE  And(a, b) \in Byte /\ Or(a, b) \in Byte /\ Xor(a, b) \in Byte
BY ByteOfIs, FlagIs DEF And, Or, Xor

LEMMA FieldsAre ==
  ASSUME NEW q \in Registers
  PROVE  /\ q.a \in Byte /\ q.x \in Byte /\ q.y \in Byte
         /\ q.sp \in StackBegin .. StackEnd /\ q.pc \in Word
         /\ q.c \in {0, 1} /\ q.z \in {0, 1} /\ q.n \in {0, 1} /\ q.v \in {0, 1}
         /\ q.d \in {0, 1} /\ q.i \in {0, 1}
BY DEF Registers

LEMMA FieldsSet ==
  ASSUME NEW q \in Registers
  PROVE  /\ \A b \in Byte : /\ [q EXCEPT !.a = b] \in Registers /\ [q EXCEPT !.x = b] \in Registers
                            /\ [q EXCEPT !.y = b] \in Registers
         /\ \A f \in {0, 1} : /\ [q EXCEPT !.c = f] \in Registers /\ [q EXCEPT !.z = f] \in Registers
                              /\ [q EXCEPT !.n = f] \in Registers /\ [q EXCEPT !.v = f] \in Registers
                              /\ [q EXCEPT !.d = f] \in Registers /\ [q EXCEPT !.i = f] \in Registers
         /\ \A s \in StackBegin .. StackEnd : [q EXCEPT !.sp = s] \in Registers
         /\ \A w \in Word : [q EXCEPT !.pc = w] \in Registers
BY DEF Registers

LEMMA SetNzKeeps ==
  ASSUME NEW q \in Registers, NEW v \in Int
  PROVE  set_nz(q, v) \in Registers /\ set_z(q, v) \in Registers
<1>1. set_z(q, v) \in Registers
  <2>1. PICK f \in {0, 1} : f = Flag(Low8(v) = 0)
    BY DEF Flag
  <2>. QED BY <2>1, FieldsSet DEF set_z
<1>2. Bit(v, 128) \in {0, 1}
  BY BitIs DEF Places
<1>. QED BY ZenonT(60), <1>1, <1>2, FieldsSet DEF set_nz

LEMMA LoadKeeps == ASSUME NEW q \in Registers, NEW v \in Int PROVE load_a(q, v) \in Registers
<1>1. PICK s \in Registers : s = set_nz(q, v)
  BY SetNzKeeps
<1>2. [s EXCEPT !.a = Low8(v)] \in Registers
  BY <1>1, LowIs, FieldsSet
<1>. QED BY <1>1, <1>2 DEF load_a

LEMMA CompareKeeps ==
  ASSUME NEW q \in Registers, NEW reg \in Int, NEW m \in Int
  PROVE  compare(q, reg, m) \in Registers
<1>1. PICK w \in Int : w = Low16(reg - m)
  BY DEF Low16
<1>2. PICK s \in Registers : s = set_nz(q, w)
  BY SetNzKeeps
<1>3. PICK f \in {0, 1} : f = Flag(reg >= m)
  BY DEF Flag
<1>4. [s EXCEPT !.c = f] \in Registers
  BY FieldsSet
<1>. QED BY <1>1, <1>2, <1>3, <1>4 DEF compare

LEMMA BitTestKeeps == ASSUME NEW q \in Registers, NEW m PROVE bit_test(q, m) \in Registers
<1>1. PICK f \in {0, 1} : f = Flag(And(q.a, m) = 0)
  BY DEF Flag
<1>. QED BY <1>1, FieldsSet DEF bit_test

\* The arithmetic sets the flags of one value, V and C, and the accumulator.
LEMMA ResultKeeps ==
  ASSUME NEW q \in Registers, NEW val \in Int, NEW f \in {0, 1}, NEW g \in {0, 1}, NEW w \in Int
  PROVE  [set_nz(q, val) EXCEPT !.v = f, !.c = g, !.a = Low8(w)] \in Registers
<1>1. PICK s \in Registers : s = set_nz(q, val)
  BY SetNzKeeps
<1>2. PICK b \in Byte : b = Low8(w)
  BY LowIs
<1>3. [s EXCEPT !.v = f, !.c = g, !.a = b] \in Registers
  BY DEF Registers
<1>. QED BY <1>1, <1>2, <1>3

LEMMA AdcNmosKeeps == ASSUME NEW q \in Registers, NEW m \in Byte PROVE adc_nmos(q, m) \in Registers
<1>. DEFINE val  == q.a + m + q.c
            lo   == (q.a % 16) + (m % 16) + q.c
            low  == Adjusted(lo)
            hi   == q.a \div 16 + m \div 16 + Flag(low > 15)
            high == Adjusted(hi)
            dec  == (high * 16) + (low % 16)
            f    == Overflow(q.a, m, val)
            g    == Flag(high > 15)
            h    == Flag(val > 255)
<1>1. q.a \in Int /\ m \in Int /\ q.c \in Int
  BY FieldsAre DEF Byte
<1>2. val \in Int /\ lo \in Int
  BY <1>1
<1>3. low \in Int
  BY <1>2 DEF Adjusted
<1>4. hi \in Int
  BY <1>1, <1>3 DEF Flag
<1>5. high \in Int
  BY <1>4 DEF Adjusted
<1>6. dec \in Int
  BY <1>3, <1>5
<1>7. f \in {0, 1} /\ g \in {0, 1} /\ h \in {0, 1}
  BY DEF Overflow, Flag
<1>8. adc_nmos(q, m) = IF q.d = 1 THEN [set_nz(q, val) EXCEPT !.v = f, !.c = g, !.a = Low8(dec)]
                       ELSE [set_nz(q, val) EXCEPT !.v = f, !.c = h, !.a = Low8(val)]
  BY DEF adc_nmos
<1>. HIDE DEF val, dec, f, g, h
<1>9. /\ [set_nz(q, val) EXCEPT !.v = f, !.c = g, !.a = Low8(dec)] \in Registers
      /\ [set_nz(q, val) EXCEPT !.v = f, !.c = h, !.a = Low8(val)] \in Registers
  BY <1>2, <1>6, <1>7, ResultKeeps
<1>. QED BY <1>8, <1>9

LEMMA SbcNmosKeeps == ASSUME NEW q \in Registers, NEW m \in Nat PROVE sbc_nmos(q, m) \in Registers
<1>. DEFINE val  == Low16(q.a - m - (1 - q.c))
            lo   == Low16((q.a % 16) - (m % 16) - (1 - q.c))
            low  == IF Bit(lo, 16) = 1 THEN Low16(lo - 6) ELSE lo
            hi   == Low16(q.a \div 16 - m \div 16 - Bit(low, 16))
            high == IF Bit(hi, 16) = 1 THEN Low16(hi - 6) ELSE hi
            dec  == (high * 16) + (low % 16)
            f    == Flag(Bit(q.a, 128) # Bit(val, 128) /\ Bit(q.a, 128) # Bit(m, 128))
            g    == 1 - Bit(high, 16)
            h    == Flag(val < 256)
<1>1. q.a \in Int /\ m \in Int /\ q.c \in Int
  BY FieldsAre DEF Byte
<1>2. val \in Int /\ lo \in Int
  BY <1>1 DEF Low16
<1>3. low \in Int
  BY <1>2 DEF Low16
<1>4. hi \in Int
  BY <1>1, <1>3 DEF Low16, Bit
<1>5. high \in Int
  BY <1>4 DEF Low16
<1>6. dec \in Int
  BY <1>3, <1>5
<1>7. f \in {0, 1} /\ g \in {0, 1} /\ h \in {0, 1}
  <2>1. Bit(high, 16) \in {0, 1}
    BY <1>5, BitIs DEF Places
  <2>. QED BY <2>1 DEF Flag
<1>8. sbc_nmos(q, m) = IF q.d = 1 THEN [set_nz(q, val) EXCEPT !.v = f, !.c = g, !.a = Low8(dec)]
                       ELSE [set_nz(q, val) EXCEPT !.v = f, !.c = h, !.a = Low8(val)]
  BY DEF sbc_nmos
<1>. HIDE DEF val, dec, f, g, h
<1>9. /\ [set_nz(q, val) EXCEPT !.v = f, !.c = g, !.a = Low8(dec)] \in Registers
      /\ [set_nz(q, val) EXCEPT !.v = f, !.c = h, !.a = Low8(val)] \in Registers
  BY <1>2, <1>6, <1>7, ResultKeeps
<1>. QED BY <1>8, <1>9

LEMMA AdcCmosKeeps == ASSUME NEW q \in Registers, NEW m \in Byte PROVE adc_cmos(q, m) \in Registers
<1>. DEFINE lo   == (q.a % 16) + (m % 16) + q.c
            low  == IF lo >= 10 THEN 16 + ((lo + 6) % 16) ELSE lo
            dec  == low + 16 * (q.a \div 16) + 16 * (m \div 16)
            sum  == IF q.d = 1 THEN dec ELSE q.a + m + q.c
            over == IF q.d = 1 THEN sum >= 160 ELSE sum >= 256
            res  == IF q.d = 1 /\ over THEN sum + 96 ELSE sum
            lost == IF over THEN sum >= 384 ELSE sum < 128
            f    == IF lost THEN 0 ELSE Flag(Bit(q.a, 128) = Bit(m, 128))
            g    == Flag(over)
<1>1. q.a \in Int /\ m \in Int /\ q.c \in Int
  BY FieldsAre DEF Byte
<1>2. low \in Int
  BY <1>1
<1>3. sum \in Int
  BY <1>1, <1>2
<1>4. res \in Int
  BY <1>3
<1>5. f \in {0, 1} /\ g \in {0, 1}
  BY DEF Flag
<1>6. adc_cmos(q, m) = [set_nz(q, res) EXCEPT !.v = f, !.c = g, !.a = Low8(res)]
  BY DEF adc_cmos
<1>. HIDE DEF res, f, g
<1>7. [set_nz(q, res) EXCEPT !.v = f, !.c = g, !.a = Low8(res)] \in Registers
  BY <1>4, <1>5, ResultKeeps
<1>. QED BY <1>6, <1>7

LEMMA SbcCmosKeeps == ASSUME NEW q \in Registers, NEW m \in Byte PROVE sbc_cmos(q, m) \in Registers
<1>. DEFINE t    == 15 + (q.a % 16) - (m % 16) + q.c
            low  == IF t < 16 THEN Low16(t - 6) ELSE t - 16
            dec  == (IF t < 16 THEN 0 ELSE 16) + 240 + 16 * (q.a \div 16) - 16 * (m \div 16)
            sum  == IF q.d = 1 THEN dec ELSE 255 + q.a - m + q.c
            no_borrow == sum >= 256
            res  == IF q.d = 0 THEN sum
                    ELSE Low16((IF no_borrow THEN sum ELSE sum - 96) + low)
            lost == IF no_borrow THEN sum >= 384 ELSE sum < 128
            f    == IF lost THEN 0 ELSE Flag(Bit(q.a, 128) # Bit(m, 128))
            g    == Flag(no_borrow)
<1>1. q.a \in Int /\ m \in Int /\ q.c \in Int
  BY FieldsAre DEF Byte
<1>2. t \in Int
  BY <1>1
<1>3. low \in Int /\ dec \in Int
  BY <1>1, <1>2 DEF Low16
<1>4. sum \in Int
  BY <1>1, <1>3
<1>5. res \in Int
  BY <1>3, <1>4 DEF Low16
<1>6. f \in {0, 1} /\ g \in {0, 1}
  BY DEF Flag
<1>7. sbc_cmos(q, m) = [set_nz(q, res) EXCEPT !.v = f, !.c = g, !.a = Low8(res)]
  BY DEF sbc_cmos
<1>. HIDE DEF res, f, g
<1>8. [set_nz(q, res) EXCEPT !.v = f, !.c = g, !.a = Low8(res)] \in Registers
  BY <1>5, <1>6, ResultKeeps
<1>. QED BY <1>7, <1>8

LEMMA ByteIsInt == Byte \subseteq Int
BY DEF Byte

LEMMA FlagsKeep ==
  ASSUME NEW q \in Registers, NEW v \in Int, NEW f \in {0, 1}
  PROVE  /\ [set_nz(q, v) EXCEPT !.c = f] \in Registers
         /\ [set_z(q, v) EXCEPT !.c = f, !.n = 0] \in Registers
<1>1. PICK s \in Registers : s = set_nz(q, v)
  BY SetNzKeeps
<1>2. PICK t \in Registers : t = set_z(q, v)
  BY SetNzKeeps
<1>3. [s EXCEPT !.c = f] \in Registers /\ [t EXCEPT !.c = f, !.n = 0] \in Registers
  BY DEF Registers
<1>. QED BY <1>1, <1>2, <1>3

LEMMA ShiftsKeep ==
  ASSUME NEW q \in Registers, NEW m \in Byte
  PROVE  /\ asl(q, m).r \in Registers /\ asl(q, m).m \in Byte
         /\ rol(q, m).r \in Registers /\ rol(q, m).m \in Byte
         /\ lsr(q, m).r \in Registers /\ lsr(q, m).m \in Byte
         /\ ror(q, m).r \in Registers /\ ror(q, m).m \in Byte
<1>1. m \in 0 .. 255 /\ q.c \in {0, 1}
  BY FieldsAre DEF Byte
<1>2. asl(q, m).r \in Registers /\ asl(q, m).m \in Byte
  <2>1. PICK v \in Int : v = m * 2
    BY <1>1
  <2>2. PICK f \in {0, 1} : f = Flag(v > 255)
    BY DEF Flag
  <2>3. asl(q, m) = [r |-> [set_nz(q, v) EXCEPT !.c = f], m |-> Low8(v)]
    BY SMTT(40), <2>1, <2>2 DEF asl
  <2>4. [set_nz(q, v) EXCEPT !.c = f] \in Registers /\ Low8(v) \in Byte
    BY FlagsKeep, LowIs
  <2>. QED BY <2>3, <2>4
<1>3. rol(q, m).r \in Registers /\ rol(q, m).m \in Byte
  <2>1. PICK v \in Int : v = m * 2 + q.c
    BY <1>1
  <2>2. PICK f \in {0, 1} : f = Flag(v > 255)
    BY DEF Flag
  <2>3. rol(q, m) = [r |-> [set_nz(q, v) EXCEPT !.c = f], m |-> Low8(v)]
    BY <2>1, <2>2 DEF rol
  <2>4. [set_nz(q, v) EXCEPT !.c = f] \in Registers /\ Low8(v) \in Byte
    BY FlagsKeep, LowIs
  <2>. QED BY <2>3, <2>4
<1>4. lsr(q, m).r \in Registers /\ lsr(q, m).m \in Byte
  <2>1. PICK v \in Byte : v = m \div 2
    BY <1>1 DEF Byte
  <2>2. PICK f \in {0, 1} : f = m % 2
    BY <1>1
  <2>3. lsr(q, m) = [r |-> [set_z(q, v) EXCEPT !.c = f, !.n = 0], m |-> v]
    BY SMTT(40), <2>1, <2>2 DEF lsr
  <2>4. [set_z(q, v) EXCEPT !.c = f, !.n = 0] \in Registers
    BY FlagsKeep, ByteIsInt
  <2>. QED BY <2>3, <2>4
<1>5. ror(q, m).r \in Registers /\ ror(q, m).m \in Byte
  <2>1. PICK v \in Byte : v = m \div 2 + 128 * q.c
    BY SMTT(40), <1>1 DEF Byte
  <2>2. PICK f \in {0, 1} : f = m % 2
    BY <1>1
  <2>3. ror(q, m) = [r |-> [set_nz(q, v) EXCEPT !.c = f], m |-> v]
    BY <2>1, <2>2 DEF ror
  <2>4. [set_nz(q, v) EXCEPT !.c = f] \in Registers
    BY FlagsKeep, ByteIsInt
  <2>. QED BY <2>3, <2>4
<1>. QED BY <1>2, <1>3, <1>4, <1>5

LEMMA ArrKeeps == ASSUME NEW q \in Registers, NEW m \in Byte PROVE arr(q, m) \in Registers
<1>. DEFINE t   == And(q.a, m)
            v   == t \div 2 + 128 * q.c
            d1  == IF (v % 16) + (v % 2) > 5 THEN (v \div 16) * 16 + ((v + 6) % 16) ELSE v
            fix == (d1 \div 16) * 16 + 16 * Bit(d1, 16) > 80
            d2  == IF fix THEN (d1 % 16) + (((d1 + 96) \div 16) % 16) * 16 ELSE d1
            f   == Flag(Bit(v, 64) # Bit(t, 64))
            g   == Flag(fix)
            h   == Flag(Bit(v, 64) # Bit(v, 32))
            e   == Bit(v, 64)
<1>1. q.c \in {0, 1} /\ t \in Int
  BY FieldsAre, MixedIsByte, ByteIsInt
<1>2. v \in Int
  <2>. HIDE DEF t
  <2>. QED BY <1>1
<1>3. d1 \in Int
  <2>. HIDE DEF v
  <2>. QED BY <1>2
<1>4. d2 \in Int
  <2>. HIDE DEF d1
  <2>. QED BY <1>3
<1>5. f \in {0, 1} /\ g \in {0, 1} /\ h \in {0, 1} /\ e \in {0, 1}
  <2>1. e \in {0, 1}
    <3>. HIDE DEF v
    <3>. QED BY <1>2, BitIs DEF Places
  <2>. QED BY <2>1 DEF Flag
<1>6. arr(q, m) = IF q.d = 1 THEN [set_z(q, v) EXCEPT !.n = q.c, !.v = f, !.c = g, !.a = Low8(d2)]
                  ELSE [set_nz(q, v) EXCEPT !.c = e, !.v = h, !.a = Low8(v)]
  BY DEF arr
<1>. HIDE DEF v, d2, f, g, h, e
<1>7. [set_z(q, v) EXCEPT !.n = q.c, !.v = f, !.c = g, !.a = Low8(d2)] \in Registers
  <2>1. PICK s \in Registers : s = set_z(q, v)
    BY <1>2, SetNzKeeps
  <2>2. PICK b \in Byte : b = Low8(d2)
    BY <1>4, LowIs
  <2>3. [s EXCEPT !.n = q.c, !.v = f, !.c = g, !.a = b] \in Registers
    BY <1>1, <1>5 DEF Registers
  <2>. QED BY <2>1, <2>2, <2>3
<1>8. [set_nz(q, v) EXCEPT !.c = e, !.v = h, !.a = Low8(v)] \in Registers
  <2>1. PICK s \in Registers : s = set_nz(q, v)
    BY <1>2, SetNzKeeps
  <2>2. PICK b \in Byte : b = Low8(v)
    BY <1>2, LowIs
  <2>3. [s EXCEPT !.c = e, !.v = h, !.a = b] \in Registers
    BY <1>5 DEF Registers
  <2>. QED BY <2>1, <2>2, <2>3
<1>. QED BY <1>6, <1>7, <1>8

LEMMA ReadOpKeeps ==
  ASSUME NEW q \in Registers, NEW m \in Byte, NEW op \in Reads
  PROVE  ReadOp(op, q, m) \in Registers
<1>1. m \in Int /\ q.a \in Int /\ q.x \in Int /\ q.y \in Int
  BY FieldsAre DEF Byte
<1>2. CASE op = "lda"
  BY <1>1, <1>2, LoadKeeps DEF ReadOp
<1>3. CASE op \in {"ldx", "ldy", "lax"}
  <2>1. set_nz(q, m) \in Registers /\ load_a(q, m) \in Registers
    BY <1>1, SetNzKeeps, LoadKeeps
  <2>. QED BY <1>3, <2>1, FieldsSet DEF ReadOp
<1>4. CASE op \in {"and", "ora", "eor", "xaa"}
  <2>1. And(q.a, m) \in Int /\ Or(q.a, m) \in Int /\ Xor(q.a, m) \in Int /\ And(q.x, m) \in Int
    BY MixedIsByte, ByteIsInt
  <2>. QED BY <1>4, <2>1, LoadKeeps DEF ReadOp
<1>5. CASE op \in {"bit", "biti"}
  <2>1. PICK s \in Registers : s = bit_test(q, m)
    BY BitTestKeeps
  <2>2. PICK f \in {0, 1} : f = Bit(m, 128)
    BY <1>1, BitIs DEF Places
  <2>3. PICK g \in {0, 1} : g = Bit(m, 64)
    BY <1>1, BitIs DEF Places
  <2>4. [s EXCEPT !.n = f, !.v = g] \in Registers
    BY DEF Registers
  <2>. QED BY <1>5, <2>1, <2>2, <2>3, <2>4 DEF ReadOp
<1>6. CASE op \in {"cmp", "cpx", "cpy"}
  <2>1. compare(q, q.a, m) \in Registers /\ compare(q, q.x, m) \in Registers /\ compare(q, q.y, m) \in Registers
    BY <1>1, CompareKeeps
  <2>. QED BY <1>6, <2>1 DEF ReadOp
<1>7. CASE op \in {"adc_nmos", "sbc_nmos", "adc_cmos", "sbc_cmos", "arr"}
  <2>1. m \in Nat
    BY DEF Byte
  <2>. QED BY <1>7, <2>1, AdcNmosKeeps, SbcNmosKeeps, AdcCmosKeeps, SbcCmosKeeps, ArrKeeps DEF ReadOp
<1>8. CASE op = "alr"
  <2>1. PICK b \in Byte : b = And(q.a, m)
    BY MixedIsByte
  <2>2. PICK s : s = lsr(q, b)
    OBVIOUS
  <2>3. s.r \in Registers /\ s.m \in Byte
    BY <2>2, ShiftsKeep
  <2>. QED BY <1>8, <2>1, <2>2, <2>3, FieldsSet DEF ReadOp
<1>9. CASE op = "anc"
  <2>1. PICK s \in Registers : s = load_a(q, And(q.a, m))
    BY MixedIsByte, ByteIsInt, LoadKeeps
  <2>2. [s EXCEPT !.c = s.n] \in Registers
    BY FieldsAre, FieldsSet
  <2>. QED BY <1>9, <2>1, <2>2 DEF ReadOp
<1>10. CASE op = "oal"
  <2>1. PICK s \in Registers : s = load_a(q, And(Or(q.a, 238), m))
    BY ZenonT(60), MixedIsByte, ByteIsInt, LoadKeeps
  <2>2. [s EXCEPT !.x = s.a] \in Registers
    BY FieldsAre, FieldsSet
  <2>. QED BY <1>10, <2>1, <2>2 DEF ReadOp
<1>11. CASE op = "las"
  <2>1. PICK v \in Byte : v = And(m, q.sp)
    BY MixedIsByte
  <2>2. PICK s \in Registers : s = load_a(q, v)
    BY ByteIsInt, LoadKeeps
  <2>3. 256 + v \in StackBegin .. StackEnd
    BY DEF StackBegin, StackEnd, Byte
  <2>4. PICK w \in StackBegin .. StackEnd : w = 256 + v
    BY <2>3
  <2>5. [s EXCEPT !.x = v, !.sp = w] \in Registers
    BY DEF Registers
  <2>. QED BY <1>11, <2>1, <2>2, <2>4, <2>5 DEF ReadOp
<1>12. CASE op = "sax"
  <2>1. PICK t \in Byte : t = And(q.a, q.x)
    BY MixedIsByte
  <2>2. PICK s \in Registers : s = compare(q, t, m)
    BY <1>1, ByteIsInt, CompareKeeps
  <2>3. PICK b \in Byte : b = Low8(t - m)
    <3>1. PICK w \in Int : w = t - m
      BY <1>1, ByteIsInt
    <3>. QED BY <3>1, LowIs
  <2>4. [s EXCEPT !.x = b] \in Registers
    BY FieldsSet
  <2>. QED BY <1>12, <2>1, <2>2, <2>3, <2>4 DEF ReadOp
<1>. QED BY <1>2, <1>3, <1>4, <1>5, <1>6, <1>7, <1>8, <1>9, <1>10, <1>11, <1>12 DEF Reads

LEMMA ModifyOpKeeps ==
  ASSUME NEW q \in Registers, NEW m \in Byte, NEW op \in Modifies
  PROVE  ModifyOp(op, q, m).r \in Registers /\ ModifyOp(op, q, m).m \in Byte
<1>1. m \in 0 .. 255 /\ q.a \in Int
  BY FieldsAre DEF Byte
<1>2. CASE op \in {"asl", "rol", "lsr", "ror"}
  BY <1>2, ShiftsKeep DEF ModifyOp
<1>3. CASE op \in {"inc", "dec"}
  <2>1. PICK u \in Int : u = m + 1
    BY <1>1
  <2>2. PICK w \in Int : w = m - 1
    BY <1>1
  <2>3. set_nz(q, u) \in Registers /\ set_nz(q, Low16(w)) \in Registers /\ Low8(u) \in Byte /\ Low8(w) \in Byte
    <3>1. Low16(w) \in Int
      BY DEF Low16
    <3>. QED BY <3>1, SetNzKeeps, LowIs
  <2>. QED BY <1>3, <2>1, <2>2, <2>3 DEF ModifyOp
<1>4. CASE op \in {"trb", "tsb"}
  <2>1. bit_test(q, m) \in Registers /\ And(m, 255 - q.a) \in Byte /\ Or(m, q.a) \in Byte
    BY BitTestKeeps, MixedIsByte
  <2>. QED BY <1>4, <2>1 DEF ModifyOp
<1>5. CASE op \in {"aso", "rla", "lse"}
  <2>1. ASSUME NEW s, s.r \in Registers, s.m \in Byte
        PROVE  /\ load_a(s.r, Or(q.a, s.m)) \in Registers
               /\ load_a(s.r, And(q.a, s.m)) \in Registers
               /\ load_a(s.r, Xor(q.a, s.m)) \in Registers
    <3>1. Or(q.a, s.m) \in Int /\ And(q.a, s.m) \in Int /\ Xor(q.a, s.m) \in Int
      BY MixedIsByte, ByteIsInt
    <3>. QED BY <2>1, <3>1, LoadKeeps
  <2>2. ASSUME NEW s \in {asl(q, m), rol(q, m), lsr(q, m)}, NEW t
        PROVE  [s EXCEPT !.r = t].r = t /\ [s EXCEPT !.r = t].m = s.m /\ s.r \in Registers /\ s.m \in Byte
    <3>1. s.r \in Registers /\ s.m \in Byte
      BY ShiftsKeep
    <3>2. [s EXCEPT !.r = t].r = t /\ [s EXCEPT !.r = t].m = s.m
      BY DEF asl, rol, lsr
    <3>. QED BY <3>1, <3>2
  <2>3. CASE op = "aso"
    <3>1. PICK s \in {asl(q, m), rol(q, m), lsr(q, m)} : s = asl(q, m)
      OBVIOUS
    <3>2. PICK t : t = load_a(s.r, Or(q.a, s.m))
      OBVIOUS
    <3>3. ModifyOp(op, q, m) = [s EXCEPT !.r = t]
      BY <2>3, <3>1, <3>2 DEF ModifyOp
    <3>. QED BY <2>1, <2>2, <3>2, <3>3
  <2>4. CASE op = "rla"
    <3>1. PICK s \in {asl(q, m), rol(q, m), lsr(q, m)} : s = rol(q, m)
      OBVIOUS
    <3>2. PICK t : t = load_a(s.r, And(q.a, s.m))
      OBVIOUS
    <3>3. ModifyOp(op, q, m) = [s EXCEPT !.r = t]
      BY <2>4, <3>1, <3>2 DEF ModifyOp
    <3>. QED BY <2>1, <2>2, <3>2, <3>3
  <2>5. CASE op = "lse"
    <3>1. PICK s \in {asl(q, m), rol(q, m), lsr(q, m)} : s = lsr(q, m)
      OBVIOUS
    <3>2. PICK t : t = load_a(s.r, Xor(q.a, s.m))
      OBVIOUS
    <3>3. ModifyOp(op, q, m) = [s EXCEPT !.r = t]
      BY <2>5, <3>1, <3>2 DEF ModifyOp
    <3>. QED BY <2>1, <2>2, <3>2, <3>3
  <2>. QED BY <1>5, <2>3, <2>4, <2>5
<1>6. CASE op = "rra"
  <2>1. PICK f \in {0, 1} : f = m % 2
    BY <1>1
  <2>2. [q EXCEPT !.c = f] \in Registers /\ ror(q, m).m \in Byte
    BY FieldsSet, ShiftsKeep
  <2>3. adc_nmos([q EXCEPT !.c = f], ror(q, m).m) \in Registers
    BY <2>2, AdcNmosKeeps
  <2>4. PICK s : s = ror(q, m)
    OBVIOUS
  <2>5. PICK t : t = adc_nmos([q EXCEPT !.c = f], s.m)
    OBVIOUS
  <2>6. [s EXCEPT !.r = t].r = t /\ [s EXCEPT !.r = t].m = s.m
    BY <2>4 DEF ror
  <2>7. ModifyOp(op, q, m) = [s EXCEPT !.r = t]
    BY <1>6, <2>1, <2>4, <2>5 DEF ModifyOp
  <2>. QED BY <2>2, <2>3, <2>4, <2>5, <2>6, <2>7
<1>7. CASE op \in {"dcm", "ins"}
  <2>1. PICK u \in Nat : u = m + 1
    BY <1>1
  <2>2. PICK w \in Int : w = m - 1
    BY <1>1
  <2>3. compare(q, q.a, Low16(w)) \in Registers
    <3>1. Low16(w) \in Int
      BY DEF Low16
    <3>. QED BY <1>1, <3>1, CompareKeeps
  <2>4. sbc_nmos(q, u) \in Registers /\ Low8(u) \in Byte /\ Low8(w) \in Byte
    BY SbcNmosKeeps, LowIs
  <2>. QED BY <1>7, <2>1, <2>2, <2>3, <2>4 DEF ModifyOp
<1>. QED BY <1>2, <1>3, <1>4, <1>5, <1>6, <1>7 DEF Modifies

LEMMA StoreValueIsByte ==
  ASSUME NEW q \in Registers, NEW op \in Stores, NEW base
  PROVE  StoreValue(op, q, base) \in Byte
<1>1. q.a \in Byte /\ q.x \in Byte /\ q.y \in Byte /\ 0 \in Byte
  BY FieldsAre DEF Byte
<1>. QED BY <1>1, MixedIsByte DEF StoreValue, Stores

LEMMA RegisterOpKeeps ==
  ASSUME NEW q \in Registers, NEW op
  PROVE  op \in RegisterOps => RegisterOp(op, q) \in Registers
<1>. SUFFICES ASSUME op \in RegisterOps PROVE RegisterOp(op, q) \in Registers
  OBVIOUS
<1>1. /\ q.a \in 0 .. 255 /\ q.x \in 0 .. 255 /\ q.y \in 0 .. 255 /\ q.sp \in Int
      /\ q.a \in Byte /\ q.x \in Byte /\ q.y \in Byte
  BY FieldsAre DEF Byte, StackBegin, StackEnd
<1>2. CASE op = "nop"
  BY <1>2 DEF RegisterOp
<1>3. CASE op \in {"tax", "txa", "tay", "tya"}
  <2>1. set_nz(q, q.a) \in Registers /\ set_nz(q, q.x) \in Registers /\ set_nz(q, q.y) \in Registers
    <3>1. q.a \in Int /\ q.x \in Int /\ q.y \in Int
      BY <1>1
    <3>. QED BY <3>1, SetNzKeeps
  <2>. QED BY <1>1, <1>3, <2>1, FieldsSet DEF RegisterOp
<1>4. CASE op \in {"tsx", "txs"}
  <2>1. set_nz(q, q.sp) \in Registers /\ Low8(q.sp) \in Byte
    BY <1>1, SetNzKeeps, LowIs
  <2>2. PICK w \in StackBegin .. StackEnd : w = 256 + q.x
    <3>1. 256 + q.x \in Int /\ 256 <= 256 + q.x /\ 256 + q.x <= 511
      BY <1>1
    <3>. QED BY <3>1, StackBounds
  <2>. QED BY ZenonT(60), <1>4, <2>1, <2>2, FieldsSet DEF RegisterOp
<1>5. CASE op \in {"ina", "dea"}
  <2>1. PICK u \in Int : u = q.a + 1
    BY <1>1
  <2>2. PICK w \in Int : w = q.a - 1
    BY <1>1
  <2>3. Low8(u) \in Int /\ Low8(w) \in Int
    BY DEF Low8
  <2>4. load_a(q, Low8(u)) \in Registers /\ load_a(q, Low8(w)) \in Registers
    BY <2>3, LoadKeeps
  <2>. QED BY <1>5, <2>1, <2>2, <2>4 DEF RegisterOp
<1>6. CASE op \in {"inx", "dex", "iny", "dey"}
  <2>1. ASSUME NEW b \in 0 .. 255
        PROVE  /\ set_nz(q, b + 1) \in Registers /\ Low8(b + 1) \in Byte
               /\ set_nz(q, Low8(b - 1)) \in Registers /\ Low8(b - 1) \in Byte
    <3>1. PICK u \in Int : u = b + 1
      OBVIOUS
    <3>2. PICK w \in Int : w = b - 1
      OBVIOUS
    <3>3. PICK l \in Int : l = Low8(w)
      BY DEF Low8
    <3>. QED BY <3>1, <3>2, <3>3, SetNzKeeps, LowIs
  <2>2. /\ set_nz(q, q.x + 1) \in Registers /\ Low8(q.x + 1) \in Byte
        /\ set_nz(q, Low8(q.x - 1)) \in Registers /\ Low8(q.x - 1) \in Byte
        /\ set_nz(q, q.y + 1) \in Registers /\ Low8(q.y + 1) \in Byte
        /\ set_nz(q, Low8(q.y - 1)) \in Registers /\ Low8(q.y - 1) \in Byte
    BY <1>1, <2>1
  <2>. QED BY <1>6, <2>2, FieldsSet DEF RegisterOp
<1>7. CASE op \in {"asla", "lsra", "rola", "rora"}
  <2>1. ASSUME NEW s, s.r \in Registers, s.m \in Byte PROVE [s.r EXCEPT !.a = s.m] \in Registers
    BY <2>1, FieldsSet
  <2>. QED BY <1>1, <1>7, <2>1, ShiftsKeep DEF RegisterOp
<1>8. CASE op \in {"clc", "sec", "clv", "cli", "sei", "cld", "sed"}
  BY <1>8, FieldsSet DEF RegisterOp
<1>. QED BY <1>2, <1>3, <1>4, <1>5, <1>6, <1>7, <1>8 DEF RegisterOps

(* The opcode tables: every entry is a mode, an operation and cycles the model knows. *)

Modes == {"none", "imm", "rel", "zpg", "zpgx", "zpgy", "abs", "absx", "absy", "indx", "indy", "izpg",
          "iabsx", "iabs_nmos", "iabs_cmos"}
Operations == Branches \cup StackOps \cup Reads \cup Modifies \cup Stores \cup RegisterOps
Known(e) == e[1] \in Modes /\ e[2] \in Operations /\ e[3] \in Nat /\ (e[2] = "brk" => e[1] = "none")

LEMMA NmosRowsKnown == \A h \in 1 .. 16 : \A k \in 1 .. 16 : Known(NmosRows[h][k])
<1>1. \A k \in 1 .. 16 : Known(NmosRow0[k])
  BY DEF Known, Modes, Operations, Branches, StackOps, Reads, Modifies, Stores, RegisterOps, NmosRow0
<1>2. \A k \in 1 .. 16 : Known(NmosRow1[k])
  BY DEF Known, Modes, Operations, Branches, StackOps, Reads, Modifies, Stores, RegisterOps, NmosRow1
<1>3. \A k \in 1 .. 16 : Known(NmosRow2[k])
  BY DEF Known, Modes, Operations, Branches, StackOps, Reads, Modifies, Stores, RegisterOps, NmosRow2
<1>4. \A k \in 1 .. 16 : Known(NmosRow3[k])
  BY DEF Known, Modes, Operations, Branches, StackOps, Reads, Modifies, Stores, RegisterOps, NmosRow3
<1>5. \A k \in 1 .. 16 : Known(NmosRow4[k])
  BY DEF Known, Modes, Operations, Branches, StackOps, Reads, Modifies, Stores, RegisterOps, NmosRow4
<1>6. \A k \in 1 .. 16 : Known(NmosRow5[k])
  BY DEF Known, Modes, Operations, Branches, StackOps, Reads, Modifies, Stores, RegisterOps, NmosRow5
<1>7. \A k \in 1 .. 16 : Known(NmosRow6[k])
  BY DEF Known, Modes, Operations, Branches, StackOps, Reads, Modifies, Stores, RegisterOps, NmosRow6
<1>8. \A k \in 1 .. 16 : Known(NmosRow7[k])
  BY DEF Known, Modes, Operations, Branches, StackOps, Reads, Modifies, Stores, RegisterOps, NmosRow7
<1>9. \A k \in 1 .. 16 : Known(NmosRow8[k])
  BY DEF Known, Modes, Operations, Branches, StackOps, Reads, Modifies, Stores, RegisterOps, NmosRow8
<1>10. \A k \in 1 .. 16 : Known(NmosRow9[k])
  BY DEF Known, Modes, Operations, Branches, StackOps, Reads, Modifies, Stores, RegisterOps, NmosRow9
<1>11. \A k \in 1 .. 16 : Known(NmosRowA[k])
  BY DEF Known, Modes, Operations, Branches, StackOps, Reads, Modifies, Stores, RegisterOps, NmosRowA
<1>12. \A k \in 1 .. 16 : Known(NmosRowB[k])
  BY DEF Known, Modes, Operations, Branches, StackOps, Reads, Modifies, Stores, RegisterOps, NmosRowB
<1>13. \A k \in 1 .. 16 : Known(NmosRowC[k])
  BY DEF Known, Modes, Operations, Branches, StackOps, Reads, Modifies, Stores, RegisterOps, NmosRowC
<1>14. \A k \in 1 .. 16 : Known(NmosRowD[k])
  BY DEF Known, Modes, Operations, Branches, StackOps, Reads, Modifies, Stores, RegisterOps, NmosRowD
<1>15. \A k \in 1 .. 16 : Known(NmosRowE[k])
  BY DEF Known, Modes, Operations, Branches, StackOps, Reads, Modifies, Stores, RegisterOps, NmosRowE
<1>16. \A k \in 1 .. 16 : Known(NmosRowF[k])
  BY SMTT(40) DEF Known, Modes, Operations, Branches, StackOps, Reads, Modifies, Stores, RegisterOps, NmosRowF
<1>17. SUFFICES ASSUME NEW h \in 1 .. 16 PROVE \A k \in 1 .. 16 : Known(NmosRows[h][k])
  OBVIOUS
<1>18. \/ h = 1 \/ h = 2 \/ h = 3 \/ h = 4 \/ h = 5 \/ h = 6 \/ h = 7 \/ h = 8 \/ h = 9 \/ h = 10
       \/ h = 11 \/ h = 12 \/ h = 13 \/ h = 14 \/ h = 15 \/ h = 16
  OBVIOUS
<1>. QED
  BY <1>18, <1>1, <1>2, <1>3, <1>4, <1>5, <1>6, <1>7, <1>8, <1>9, <1>10, <1>11, <1>12, <1>13, <1>14, <1>15, <1>16 DEF NmosRows

LEMMA CmosRowsKnown == \A h \in 1 .. 16 : \A k \in 1 .. 16 : Known(CmosRows[h][k])
<1>1. \A k \in 1 .. 16 : Known(CmosRow0[k])
  BY DEF Known, Modes, Operations, Branches, StackOps, Reads, Modifies, Stores, RegisterOps, CmosRow0
<1>2. \A k \in 1 .. 16 : Known(CmosRow1[k])
  BY DEF Known, Modes, Operations, Branches, StackOps, Reads, Modifies, Stores, RegisterOps, CmosRow1
<1>3. \A k \in 1 .. 16 : Known(CmosRow2[k])
  BY DEF Known, Modes, Operations, Branches, StackOps, Reads, Modifies, Stores, RegisterOps, CmosRow2
<1>4. \A k \in 1 .. 16 : Known(CmosRow3[k])
  BY DEF Known, Modes, Operations, Branches, StackOps, Reads, Modifies, Stores, RegisterOps, CmosRow3
<1>5. \A k \in 1 .. 16 : Known(CmosRow4[k])
  BY DEF Known, Modes, Operations, Branches, StackOps, Reads, Modifies, Stores, RegisterOps, CmosRow4
<1>6. \A k \in 1 .. 16 : Known(CmosRow5[k])
  BY DEF Known, Modes, Operations, Branches, StackOps, Reads, Modifies, Stores, RegisterOps, CmosRow5
<1>7. \A k \in 1 .. 16 : Known(CmosRow6[k])
  BY DEF Known, Modes, Operations, Branches, StackOps, Reads, Modifies, Stores, RegisterOps, CmosRow6
<1>8. \A k \in 1 .. 16 : Known(CmosRow7[k])
  BY DEF Known, Modes, Operations, Branches, StackOps, Reads, Modifies, Stores, RegisterOps, CmosRow7
<1>9. \A k \in 1 .. 16 : Known(CmosRow8[k])
  BY DEF Known, Modes, Operations, Branches, StackOps, Reads, Modifies, Stores, RegisterOps, CmosRow8
<1>10. \A k \in 1 .. 16 : Known(CmosRow9[k])
  BY DEF Known, Modes, Operations, Branches, StackOps, Reads, Modifies, Stores, RegisterOps, CmosRow9
<1>11. \A k \in 1 .. 16 : Known(CmosRowA[k])
  BY DEF Known, Modes, Operations, Branches, StackOps, Reads, Modifies, Stores, RegisterOps, CmosRowA
<1>12. \A k \in 1 .. 16 : Known(CmosRowB[k])
  BY DEF Known, Modes, Operations, Branches, StackOps, Reads, Modifies, Stores, RegisterOps, CmosRowB
<1>13. \A k \in 1 .. 16 : Known(CmosRowC[k])
  BY DEF Known, Modes, Operations, Branches, StackOps, Reads, Modifies, Stores, RegisterOps, CmosRowC
<1>14. \A k \in 1 .. 16 : Known(CmosRowD[k])
  BY DEF Known, Modes, Operations, Branches, StackOps, Reads, Modifies, Stores, RegisterOps, CmosRowD
<1>15. \A k \in 1 .. 16 : Known(CmosRowE[k])
  BY DEF Known, Modes, Operations, Branches, StackOps, Reads, Modifies, Stores, RegisterOps, CmosRowE
<1>16. \A k \in 1 .. 16 : Known(CmosRowF[k])
  BY DEF Known, Modes, Operations, Branches, StackOps, Reads, Modifies, Stores, RegisterOps, CmosRowF
<1>17. SUFFICES ASSUME NEW h \in 1 .. 16 PROVE \A k \in 1 .. 16 : Known(CmosRows[h][k])
  OBVIOUS
<1>18. \/ h = 1 \/ h = 2 \/ h = 3 \/ h = 4 \/ h = 5 \/ h = 6 \/ h = 7 \/ h = 8 \/ h = 9 \/ h = 10
       \/ h = 11 \/ h = 12 \/ h = 13 \/ h = 14 \/ h = 15 \/ h = 16
  OBVIOUS
<1>. QED
  BY <1>18, <1>1, <1>2, <1>3, <1>4, <1>5, <1>6, <1>7, <1>8, <1>9, <1>10, <1>11, <1>12, <1>13, <1>14, <1>15, <1>16 DEF CmosRows

LEMMA OpcodeIsKnown ==
  ASSUME NEW part \in {"nmos", "cmos"}, NEW n \in Byte
  PROVE  /\ Opcode[part][n].mode \in Modes /\ Opcode[part][n].op \in Operations
         /\ Opcode[part][n].cycles \in Nat
         /\ Opcode[part][n].op = "brk" => Opcode[part][n].mode = "none"
<1>1. PICK h \in 1 .. 16 : h = (n \div 16) + 1
  BY DEF Byte
<1>2. PICK k \in 1 .. 16 : k = (n % 16) + 1
  BY DEF Byte
<1>3. PICK rows : rows = IF part = "cmos" THEN CmosRows ELSE NmosRows
  BY SMTT(40)
<1>4. Known(rows[h][k])
  BY <1>3, NmosRowsKnown, CmosRowsKnown
<1>5. Opcode[part][n] = Entry(rows, n)
  BY <1>3 DEF Opcode, Byte
<1>6. Entry(rows, n) = [mode |-> rows[h][k][1], op |-> rows[h][k][2], cycles |-> rows[h][k][3]]
  BY <1>1, <1>2 DEF Entry
<1>. QED BY <1>4, <1>5, <1>6 DEF Known

(* A machine: what a step works on. Its memory, the stack and the addresses of its operands. *)

Instructions == Byte \X Byte \X Byte
IsMachine(m) ==
  /\ DOMAIN m = {"r", "ram", "at", "instr"}
  /\ m.r \in Registers /\ HoldsBytes(m.ram) /\ m.at \in Word /\ m.instr \in Instructions

LEMMA InstructionBytes ==
  ASSUME NEW t \in Instructions
  PROVE  t[1] \in Byte /\ t[2] \in Byte /\ t[3] \in Byte
BY DEF Instructions

LEMMA MemIsByte == ASSUME NEW m, IsMachine(m), NEW addr \in Int PROVE Mem(m, addr) \in Byte
<1>. DEFINE k == addr - m.at
<1>1. k \in Int /\ 0 \in Byte
  <2>1. m.at \in Int
    BY WordBounds DEF IsMachine
  <2>. QED BY <2>1, ByteBounds
<1>2. Mem(m, addr) = CASE addr \in DOMAIN m.ram -> m.ram[addr]
                       [] addr \notin DOMAIN m.ram /\ k \in 0 .. 2 -> m.instr[k + 1]
                       [] OTHER -> 0
  BY DEF Mem
<1>. HIDE DEF k
<1>3. CASE addr \in DOMAIN m.ram
  BY <1>2, <1>3 DEF IsMachine, HoldsBytes
<1>4. CASE addr \notin DOMAIN m.ram /\ k \in 0 .. 2
  <2>1. m.instr[k + 1] \in Byte
    <3>1. k + 1 = 1 \/ k + 1 = 2 \/ k + 1 = 3
      BY <1>4
    <3>. QED BY <3>1, InstructionBytes DEF IsMachine
  <2>. QED BY <1>2, <1>4, <2>1
<1>5. CASE addr \notin DOMAIN m.ram /\ ~(k \in 0 .. 2)
  BY <1>1, <1>2, <1>5
<1>. QED BY <1>3, <1>4, <1>5

LEMMA WordOf == ASSUME NEW lo \in Byte, NEW hi \in Byte PROVE lo + 256 * hi \in Word
<1>1. lo \in Int /\ 0 <= lo /\ lo <= 255 /\ hi \in Int /\ 0 <= hi /\ hi <= 255
  BY ByteBounds
<1>2. lo + 256 * hi \in Int /\ 0 <= lo + 256 * hi /\ lo + 256 * hi <= 65535
  BY <1>1
<1>. QED BY <1>2, WordBounds

LEMMA MemWordIsWord == ASSUME NEW m, IsMachine(m), NEW addr \in Int PROVE MemWord(m, addr) \in Word
<1>1. PICK next \in Int : next = addr + 1
  OBVIOUS
<1>. QED BY <1>1, MemIsByte, WordOf DEF MemWord

LEMMA ZeroPageWordIsWord == ASSUME NEW m, IsMachine(m), NEW p \in Int PROVE ZeroPageWord(m, p) \in Word
<1>1. PICK next \in Int : next = Low8(p + 1)
  BY DEF Low8
<1>. QED BY <1>1, MemIsByte, WordOf DEF ZeroPageWord

Address(ea) == ea.addr \in Word /\ ea.base \in Int /\ ea.extra \in {0, 1}

LEMMA PlainIs == ASSUME NEW addr \in Word PROVE Address(Plain(addr)) /\ Plain(addr).addr = addr
<1>1. addr \in Int
  BY DEF Word
<1>. QED BY SMTT(40), <1>1 DEF Address, Plain

LEMMA IndexedIs == ASSUME NEW base \in Int, NEW k \in Byte PROVE Address(Indexed(base, k))
<1>1. PICK addr \in Word : addr = Low16(base + k)
  <2>1. base + k \in Int
    BY ByteBounds
  <2>. QED BY <2>1, LowIs
<1>2. Crosses(base, addr) \in {0, 1}
  BY FlagIs DEF Crosses
<1>. QED BY <1>1, <1>2 DEF Address, Indexed

LEMMA EffectiveAddressIs ==
  ASSUME NEW m, IsMachine(m), NEW mode \in Modes
  PROVE  Address(EffectiveAddress(mode, m))
<1>. DEFINE low  == m.instr[2]
            word == m.instr[2] + 256 * m.instr[3]
            ByMode(l, w) ==
              CASE mode = "none"      -> Plain(0)
                [] mode = "imm"       -> Plain(Low16(m.at + 1))
                [] mode = "rel"       -> Plain(SignExtended(l))
                [] mode = "zpg"       -> Plain(l)
                [] mode = "zpgx"      -> Plain(Low8(l + m.r.x))
                [] mode = "zpgy"      -> Plain(Low8(l + m.r.y))
                [] mode = "abs"       -> Plain(w)
                [] mode = "absx"      -> Indexed(w, m.r.x)
                [] mode = "absy"      -> Indexed(w, m.r.y)
                [] mode = "indx"      -> Plain(ZeroPageWord(m, Low8(l + m.r.x)))
                [] mode = "indy"      -> Indexed(ZeroPageWord(m, l), m.r.y)
                [] mode = "izpg"      -> Plain(ZeroPageWord(m, l))
                [] mode = "iabsx"     -> Plain(MemWord(m, w + m.r.x))
                [] mode = "iabs_nmos" ->
                     Plain(Mem(m, w) + 256 * Mem(m, IF l = 255 THEN w - 255 ELSE w + 1))
                [] mode = "iabs_cmos" -> [Plain(MemWord(m, w)) EXCEPT !.extra = Flag(l = 255)]
<1>1. EffectiveAddress(mode, m) = ByMode(low, word)
  BY DEF EffectiveAddress
<1>2. PICK l \in Byte : l = low
  BY InstructionBytes DEF IsMachine
<1>3. PICK w \in Word : w = word
  BY InstructionBytes, WordOf DEF IsMachine
<1>4. SUFFICES Address(ByMode(l, w))
  BY ZenonT(60), <1>1, <1>2, <1>3
<1>5. m.r.x \in Byte /\ m.r.y \in Byte /\ m.at \in Int /\ l \in Int /\ w \in Int /\ l \in Word /\ 0 \in Word
  BY FieldsAre, ByteBounds, WordBounds DEF IsMachine
<1>14. m.r.x \in Int /\ m.r.y \in Int /\ 0 <= l /\ l <= 255
  BY <1>5, ByteBounds
<1>. HIDE DEF low, word
<1>6. CASE mode \in {"none", "imm", "rel", "zpg", "abs"}
  <2>1. SignExtended(l) \in Word
    <3>1. SignExtended(l) \in Int /\ 0 <= SignExtended(l) /\ SignExtended(l) <= 65535
      BY <1>5, <1>14 DEF SignExtended
    <3>. QED BY <3>1, WordBounds
  <2>2. PICK p \in Word : p = Low16(m.at + 1)
    <3>1. m.at + 1 \in Int
      BY <1>5
    <3>. QED BY <3>1, LowIs
  <2>. QED BY <1>5, <1>6, <2>1, <2>2, PlainIs
<1>7. CASE mode \in {"zpgx", "zpgy"}
  <2>1. Low8(l + m.r.x) \in Word /\ Low8(l + m.r.y) \in Word
    <3>1. l + m.r.x \in Int /\ l + m.r.y \in Int
      BY <1>5, <1>14
    <3>. QED BY <3>1, LowIs, ByteIsWord
  <2>. QED BY <1>7, <2>1, PlainIs
<1>8. CASE mode \in {"absx", "absy"}
  BY <1>5, <1>8, IndexedIs
<1>9. CASE mode \in {"indx", "izpg"}
  <2>1. PICK p \in Int : p = Low8(l + m.r.x)
    <3>1. l + m.r.x \in Int
      BY <1>5, <1>14
    <3>. QED BY <3>1, LowIs, ByteBounds
  <2>2. ZeroPageWord(m, p) \in Word /\ ZeroPageWord(m, l) \in Word
    BY <1>5, ZeroPageWordIsWord
  <2>. QED BY <1>9, <2>1, <2>2, PlainIs
<1>10. CASE mode = "indy"
  <2>1. ZeroPageWord(m, l) \in Int
    BY <1>5, ZeroPageWordIsWord, WordBounds
  <2>. QED BY <1>5, <1>10, <2>1, IndexedIs
<1>11. CASE mode = "iabsx"
  <2>1. PICK p \in Int : p = w + m.r.x
    BY <1>5, <1>14
  <2>. QED BY <1>11, <2>1, MemWordIsWord, PlainIs
<1>12. CASE mode = "iabs_nmos"
  <2>1. PICK p \in Int : p = IF l = 255 THEN w - 255 ELSE w + 1
    BY <1>5
  <2>2. Mem(m, w) + 256 * Mem(m, p) \in Word
    BY <1>5, MemIsByte, WordOf
  <2>. QED BY <1>12, <2>1, <2>2, PlainIs
<1>13. CASE mode = "iabs_cmos"
  <2>1. PICK p \in Word : p = MemWord(m, w)
    BY <1>5, MemWordIsWord
  <2>2. PICK f \in {0, 1} : f = Flag(l = 255)
    BY DEF Flag
  <2>3. Address([Plain(p) EXCEPT !.extra = f])
    <3>1. p \in Int
      BY WordBounds
    <3>. QED BY <3>1 DEF Address, Plain
  <2>. QED BY <1>13, <2>1, <2>2, <2>3
<1>. QED BY <1>6, <1>7, <1>8, <1>9, <1>10, <1>11, <1>12, <1>13 DEF Modes

(* The stack page, and what a push, a pop and an entry to a handler make of a machine. *)

LEMMA AboveIs == ASSUME NEW sp \in Int, NEW k \in Int PROVE Above(sp, k) \in StackBegin .. StackEnd
<1>1. sp + k \in Int
  OBVIOUS
<1>2. 256 + Low8(sp + k) \in Int /\ 256 <= 256 + Low8(sp + k) /\ 256 + Low8(sp + k) <= 511
  BY <1>1, LowIs, ByteBounds
<1>. QED BY <1>2, StackBounds DEF Above, StackBegin

LEMMA AboveNone == ASSUME NEW sp \in StackBegin .. StackEnd PROVE Above(sp, 0) = sp
<1>1. sp \in Int /\ 256 <= sp /\ sp <= 511
  BY StackBounds
<1>2. 256 + ((sp + 0) % 256) = sp
  BY <1>1
<1>. QED BY <1>2 DEF Above, Low8, StackBegin

LEMMA AboveAbove ==
  ASSUME NEW sp \in Int, NEW j \in Int, NEW k \in Int
  PROVE  Above(Above(sp, j), k) = Above(sp, j + k)
<1>1. (256 + ((sp + j) % 256) + k) % 256 = (sp + (j + k)) % 256
  OBVIOUS
<1>. QED BY <1>1 DEF Above, Low8, StackBegin

LEMMA AboveSteps ==
  ASSUME NEW sp \in Int
  PROVE  /\ Above(Above(sp, -1), -1) = Above(sp, -2) /\ Above(Above(sp, -2), -1) = Above(sp, -3)
         /\ Above(Above(sp, 1), 1) = Above(sp, 2) /\ Above(Above(sp, 1), 2) = Above(sp, 3)
BY DEF Above, Low8, StackBegin

LEMMA AboveNear ==
  ASSUME NEW sp \in Int
  PROVE  /\ Above(sp, -1) \in StackBegin .. StackEnd /\ Above(sp, -2) \in StackBegin .. StackEnd
         /\ Above(sp, -3) \in StackBegin .. StackEnd /\ Above(sp, 1) \in StackBegin .. StackEnd
         /\ Above(sp, 2) \in StackBegin .. StackEnd /\ Above(sp, 3) \in StackBegin .. StackEnd
<1>1. \A k \in Int : Above(sp, k) \in StackBegin .. StackEnd
  BY AboveIs
<1>2. -1 \in Int /\ -2 \in Int /\ -3 \in Int /\ 1 \in Int /\ 2 \in Int /\ 3 \in Int
  OBVIOUS
<1>. QED BY <1>1, <1>2

LEMMA AboveDiffers ==
  ASSUME NEW sp \in Int, NEW j \in Int, NEW k \in Int, Above(sp, j) = Above(sp, k), j - k < 256, k - j < 256
  PROVE  j = k
<1>1. (sp + j) % 256 = (sp + k) % 256
  <2>1. (sp + j) % 256 \in Int /\ (sp + k) % 256 \in Int
    OBVIOUS
  <2>. QED BY <2>1 DEF Above, Low8, StackBegin
<1>. QED BY <1>1

LEMMA AboveIsAddress == ASSUME NEW sp \in Int, NEW k \in Int PROVE Above(sp, k) \in Word /\ Above(sp, k) \in Int
<1>1. Above(sp, k) \in Int /\ 256 <= Above(sp, k) /\ Above(sp, k) <= 511
  BY AboveIs, StackBounds
<1>. QED BY <1>1, WordBounds

Became(m, s, q, mem) ==
  IsMachine(s) /\ s.r = q /\ s.ram = mem /\ s.at = m.at /\ s.instr = m.instr

LEMMA RegistersSet ==
  ASSUME NEW m, IsMachine(m), NEW q \in Registers
  PROVE  Became(m, [m EXCEPT !.r = q], q, m.ram)
BY DEF IsMachine, Became

LEMMA MemorySet ==
  ASSUME NEW m, IsMachine(m), NEW q \in Registers, NEW mem, HoldsBytes(mem)
  PROVE  Became(m, [m EXCEPT !.ram = mem, !.r = q], q, mem)
BY DEF IsMachine, Became

LEMMA ByteStored ==
  ASSUME NEW mem, HoldsBytes(mem), NEW addr \in Word, NEW v \in Byte
  PROVE  /\ HoldsBytes(WithByte(mem, addr, v))
         /\ DOMAIN WithByte(mem, addr, v) = DOMAIN mem \cup {addr}
         /\ WithByte(mem, addr, v)[addr] = v
         /\ \A b \in DOMAIN mem : b # addr => WithByte(mem, addr, v)[b] = mem[b]
BY DEF HoldsBytes, WithByte

LEMMA PushIs ==
  ASSUME NEW m, IsMachine(m), NEW v \in Byte
  PROVE  Became(m, push(m, v), [m.r EXCEPT !.sp = Above(m.r.sp, -1)], WithByte(m.ram, m.r.sp, v))
<1>1. PICK sp \in StackBegin .. StackEnd : sp = m.r.sp
  BY FieldsAre DEF IsMachine
<1>2. sp \in Int /\ 256 <= sp /\ sp <= 511
  BY StackBounds
<1>3. PICK down \in StackBegin .. StackEnd : down = Above(sp, -1)
  BY <1>2, AboveNear
<1>4. (IF sp - 1 < StackBegin THEN StackEnd ELSE sp - 1) = down
  <2>1. (IF sp - 1 < 256 THEN 511 ELSE sp - 1) = 256 + ((sp + (-1)) % 256)
    BY <1>2
  <2>. QED BY <1>3, <2>1 DEF Above, Low8, StackBegin, StackEnd
<1>5. PICK q \in Registers : q = [m.r EXCEPT !.sp = down]
  BY FieldsSet DEF IsMachine
<1>6. PICK mem : mem = WithByte(m.ram, m.r.sp, v)
  OBVIOUS
<1>7. HoldsBytes(mem)
  <2>1. sp \in Word
    BY <1>2, WordBounds
  <2>. QED BY <1>1, <1>6, <2>1, ByteStored DEF IsMachine
<1>8. push(m, v) = [m EXCEPT !.ram = mem, !.r = q]
  <2>1. push(m, v) = [m EXCEPT !.ram = mem, !.r.sp = IF sp - 1 < StackBegin THEN StackEnd ELSE sp - 1]
    BY <1>1, <1>6 DEF push
  <2>2. push(m, v) = [m EXCEPT !.ram = mem, !.r.sp = down]
    BY <1>4, <2>1
  <2>. QED BY <1>5, <2>2 DEF IsMachine
<1>9. Became(m, [m EXCEPT !.ram = mem, !.r = q], q, mem)
  BY <1>7, MemorySet
<1>. QED BY <1>1, <1>3, <1>5, <1>6, <1>8, <1>9

LEMMA PopIs ==
  ASSUME NEW m, IsMachine(m)
  PROVE  /\ pop(m).v = Mem(m, Above(m.r.sp, 1)) /\ pop(m).v \in Byte
         /\ Became(m, pop(m).m, [m.r EXCEPT !.sp = Above(m.r.sp, 1)], m.ram)
<1>1. PICK sp \in StackBegin .. StackEnd : sp = m.r.sp
  BY FieldsAre DEF IsMachine
<1>2. sp \in Int /\ 256 <= sp /\ sp <= 511
  BY StackBounds
<1>3. PICK up \in StackBegin .. StackEnd : up = Above(sp, 1)
  BY <1>2, AboveNear
<1>4. PopAddress(sp) = up
  <2>1. (IF sp >= 511 THEN 256 ELSE sp + 1) = 256 + ((sp + 1) % 256)
    BY <1>2
  <2>. QED BY <1>3, <2>1 DEF Above, Low8, StackBegin, StackEnd, PopAddress
<1>5. PICK q \in Registers : q = [m.r EXCEPT !.sp = up]
  BY FieldsSet DEF IsMachine
<1>6. pop(m) = [v |-> Mem(m, up), m |-> [m EXCEPT !.r = q]]
  <2>1. pop(m) = [v |-> Mem(m, up), m |-> [m EXCEPT !.r.sp = up]]
    BY <1>1, <1>4 DEF pop
  <2>2. [m EXCEPT !.r.sp = up] = [m EXCEPT !.r = q]
    BY <1>5
  <2>. QED BY <2>1, <2>2
<1>7. Became(m, [m EXCEPT !.r = q], q, m.ram)
  BY RegistersSet
<1>8. Mem(m, up) \in Byte
  <2>1. up \in Int
    BY StackBounds
  <2>. QED BY <2>1, MemIsByte
<1>. QED BY <1>1, <1>3, <1>5, <1>6, <1>7, <1>8

LEMMA PushWordIs ==
  ASSUME NEW m, IsMachine(m), NEW w \in Word
  PROVE  Became(m, PushWord(m, w), [m.r EXCEPT !.sp = Above(m.r.sp, -2)],
                WithByte(WithByte(m.ram, m.r.sp, w \div 256), Above(m.r.sp, -1), Low8(w)))
<1>1. PICK hi \in Byte : hi = w \div 256
  <2>1. w \in Int /\ 0 <= w /\ w <= 65535
    BY WordBounds
  <2>2. w \div 256 \in Int /\ 0 <= w \div 256 /\ w \div 256 <= 255
    BY <2>1
  <2>. QED BY <2>2, ByteBounds
<1>2. PICK lo \in Byte : lo = Low8(w)
  <2>1. w \in Int
    BY WordBounds
  <2>. QED BY <2>1, LowIs
<1>3. PICK s : s = push(m, hi)
  OBVIOUS
<1>4. PICK sp \in StackBegin .. StackEnd : sp = m.r.sp /\ sp \in Int
  BY FieldsAre, StackBounds DEF IsMachine
<1>5. PICK one \in StackBegin .. StackEnd : one = Above(sp, -1)
  BY <1>4, AboveNear
<1>6. PICK two \in StackBegin .. StackEnd : two = Above(sp, -2)
  BY <1>4, AboveNear
<1>7. Became(m, s, [m.r EXCEPT !.sp = one], WithByte(m.ram, m.r.sp, hi))
  BY <1>3, <1>4, <1>5, PushIs
<1>8. Became(s, push(s, lo), [s.r EXCEPT !.sp = Above(s.r.sp, -1)], WithByte(s.ram, s.r.sp, lo))
  BY <1>7, PushIs DEF Became
<1>9. s.r.sp = one
  BY <1>7 DEF Became, IsMachine, Registers
<1>10. Above(one, -1) = two
  BY <1>4, <1>5, <1>6, AboveSteps
<1>11. [s.r EXCEPT !.sp = two] = [m.r EXCEPT !.sp = two]
  BY <1>7 DEF Became, IsMachine, Registers
<1>12. PushWord(m, w) = push(s, lo)
  BY <1>1, <1>2, <1>3 DEF PushWord
<1>. QED BY ZenonT(60), <1>1, <1>2, <1>4, <1>5, <1>6, <1>7, <1>8, <1>9, <1>10, <1>11, <1>12 DEF Became

LEMMA PopWordIs ==
  ASSUME NEW m, IsMachine(m)
  PROVE  /\ PopWord(m).v = Mem(m, Above(m.r.sp, 1)) + 256 * Mem(m, Above(m.r.sp, 2))
         /\ PopWord(m).v \in Word
         /\ Became(m, PopWord(m).m, [m.r EXCEPT !.sp = Above(m.r.sp, 2)], m.ram)
<1>1. PICK lo : lo = pop(m)
  OBVIOUS
<1>2. PICK hi : hi = pop(lo.m)
  OBVIOUS
<1>4. PICK sp \in StackBegin .. StackEnd : sp = m.r.sp /\ sp \in Int
  BY FieldsAre, StackBounds DEF IsMachine
<1>5. PICK one \in StackBegin .. StackEnd : one = Above(sp, 1)
  BY <1>4, AboveNear
<1>6. PICK two \in StackBegin .. StackEnd : two = Above(sp, 2)
  BY <1>4, AboveNear
<1>7. lo.v = Mem(m, one) /\ lo.v \in Byte /\ Became(m, lo.m, [m.r EXCEPT !.sp = one], m.ram)
  BY <1>1, <1>4, <1>5, PopIs
<1>8. /\ hi.v = Mem(lo.m, Above(lo.m.r.sp, 1)) /\ hi.v \in Byte
      /\ Became(lo.m, hi.m, [lo.m.r EXCEPT !.sp = Above(lo.m.r.sp, 1)], lo.m.ram)
  BY <1>2, <1>7, PopIs DEF Became
<1>9. lo.m.r.sp = one
  BY <1>7 DEF Became, IsMachine, Registers
<1>10. Above(one, 1) = two
  BY <1>4, <1>5, <1>6, AboveSteps
<1>11. [lo.m.r EXCEPT !.sp = two] = [m.r EXCEPT !.sp = two]
  BY <1>7 DEF Became, IsMachine, Registers
<1>12. Mem(lo.m, two) = Mem(m, two)
  BY <1>7 DEF Became, Mem
<1>13. PopWord(m) = [v |-> lo.v + 256 * hi.v, m |-> hi.m]
  BY <1>1, <1>2 DEF PopWord
<1>14. lo.v + 256 * hi.v \in Word
  BY <1>7, <1>8, WordOf
<1>15. PICK a \in Byte : a = lo.v
  BY <1>7
<1>16. PICK b \in Byte : b = hi.v
  BY <1>8
<1>17. a = Mem(m, one) /\ b = Mem(m, two)
  BY <1>7, <1>8, <1>9, <1>10, <1>12, <1>15, <1>16
<1>18. PopWord(m).v = a + 256 * b /\ PopWord(m).m = hi.m
  BY <1>13, <1>15, <1>16
<1>19. PopWord(m).v = Mem(m, one) + 256 * Mem(m, two) /\ PopWord(m).v \in Word
  BY <1>14, <1>15, <1>16, <1>17, <1>18
<1>20. Became(m, hi.m, [m.r EXCEPT !.sp = two], m.ram)
  BY <1>7, <1>8, <1>9, <1>10, <1>11 DEF Became
<1>. QED BY <1>4, <1>5, <1>6, <1>18, <1>19, <1>20

LEMMA PackIsByte ==
  ASSUME NEW q \in Registers, NEW k \in {0, 16}
  PROVE  pack_ps(q) - k \in Byte
<1>1. /\ q.c \in {0, 1} /\ q.z \in {0, 1} /\ q.n \in {0, 1} /\ q.v \in {0, 1}
      /\ q.d \in {0, 1} /\ q.i \in {0, 1}
  BY FieldsAre
<1>2. pack_ps(q) - k \in Int /\ 0 <= pack_ps(q) - k /\ pack_ps(q) - k <= 255
  BY <1>1 DEF pack_ps
<1>. QED BY <1>2, ByteBounds

(* What an entry to a handler leaves in memory and in the registers. *)
EntryMemory(m, ps) ==
  WithByte(WithByte(WithByte(m.ram, m.r.sp, m.r.pc \div 256), Above(m.r.sp, -1), Low8(m.r.pc)),
           Above(m.r.sp, -2), ps)

LEMMA EnterHandlerIs ==
  ASSUME NEW part, NEW m, IsMachine(m), NEW vector \in Word, NEW break
  PROVE  /\ IsMachine(EnterHandler(part, m, vector, break))
         /\ EnterHandler(part, m, vector, break).at = m.at
         /\ EnterHandler(part, m, vector, break).instr = m.instr
         /\ EnterHandler(part, m, vector, break).r.sp = Above(m.r.sp, -3)
         /\ EnterHandler(part, m, vector, break).r.i = 1
         /\ EnterHandler(part, m, vector, break).ram =
              EntryMemory(m, pack_ps(m.r) - (IF break THEN 0 ELSE 16))
<1>1. PICK k \in {0, 16} : k = IF break THEN 0 ELSE 16
  OBVIOUS
<1>2. PICK ps \in Byte : ps = pack_ps(m.r) - k
  BY PackIsByte DEF IsMachine
<1>3. m.r.pc \in Word
  BY FieldsAre DEF IsMachine
<1>25. PICK sp \in StackBegin .. StackEnd : sp = m.r.sp /\ sp \in Int
  BY FieldsAre, StackBounds DEF IsMachine
<1>4. PICK two \in StackBegin .. StackEnd : two = Above(sp, -2)
  BY <1>25, AboveNear
<1>5. PICK three \in StackBegin .. StackEnd : three = Above(sp, -3)
  BY <1>25, AboveNear
<1>6. PICK w : w = PushWord(m, m.r.pc)
  OBVIOUS
<1>7. PICK mem : mem = WithByte(WithByte(m.ram, m.r.sp, m.r.pc \div 256), Above(m.r.sp, -1), Low8(m.r.pc))
  OBVIOUS
<1>8. Became(m, w, [m.r EXCEPT !.sp = two], mem)
  BY <1>3, <1>25, <1>4, <1>6, <1>7, PushWordIs
<1>9. PICK s : s = push(w, ps)
  OBVIOUS
<1>10. Became(w, s, [w.r EXCEPT !.sp = Above(w.r.sp, -1)], WithByte(w.ram, w.r.sp, ps))
  BY <1>8, <1>9, PushIs DEF Became
<1>11. w.r.sp = two
  BY <1>8 DEF Became, IsMachine, Registers
<1>12. Above(two, -1) = three
  BY <1>25, <1>4, <1>5, AboveSteps
<1>13. /\ IsMachine(s) /\ s.r.sp = three /\ s.at = m.at /\ s.instr = m.instr
       /\ s.ram = WithByte(mem, two, ps)
  BY <1>8, <1>10, <1>11, <1>12 DEF Became, IsMachine, Registers
<1>14. PICK d \in {0, 1} : d = IF part = "cmos" THEN 0 ELSE s.r.d
  BY <1>13, FieldsAre DEF IsMachine
<1>15. PICK q \in Registers : q = [s.r EXCEPT !.i = 1, !.d = d]
  BY <1>13 DEF IsMachine, Registers
<1>16. q.i = 1 /\ q.sp = three
  BY <1>13, <1>15 DEF IsMachine, Registers
<1>17. PICK t : t = [s EXCEPT !.r = q]
  OBVIOUS
<1>18. Became(s, t, q, s.ram)
  BY <1>13, <1>17, RegistersSet
<1>19. PICK pc \in Word : pc = MemWord(t, vector)
  <2>1. vector \in Int
    BY WordBounds
  <2>. QED BY <1>18, <2>1, MemWordIsWord DEF Became
<1>20. PICK p \in Registers : p = [t.r EXCEPT !.pc = pc]
  BY <1>18, FieldsSet DEF Became
<1>21. Became(t, [t EXCEPT !.r = p], p, t.ram)
  BY <1>18, RegistersSet DEF Became
<1>22. EnterHandler(part, m, vector, break) = [t EXCEPT !.r = p]
  <2>1. t = [s EXCEPT !.r.i = 1, !.r.d = IF part = "cmos" THEN 0 ELSE @]
    BY <1>13, <1>14, <1>15, <1>17 DEF IsMachine
  <2>2. [t EXCEPT !.r.pc = MemWord(t, vector)] = [t EXCEPT !.r = p]
    BY <1>19, <1>20
  <2>. QED BY <1>1, <1>2, <1>6, <1>9, <2>1, <2>2 DEF EnterHandler
<1>23. p.i = 1 /\ p.sp = three
  BY <1>16, <1>18, <1>20 DEF Became, Registers
<1>24. EntryMemory(m, ps) = WithByte(mem, two, ps)
  BY <1>25, <1>4, <1>7 DEF EntryMemory
<1>. QED BY <1>1, <1>2, <1>25, <1>5, <1>13, <1>18, <1>21, <1>22, <1>23, <1>24 DEF Became

(* The entries in service: frames innermost first, three bytes or more apart. *)

FlagNames == {"c", "z", "n", "v", "d", "i"}
Frame == [kind : {"brk", "irq", "nmi"}, pc : Word, ps : [FlagNames -> {0, 1}], above : Nat]
Spaced(fs) == \A j \in DOMAIN fs : \A k \in DOMAIN fs : j < k => fs[j].above + 3 <= fs[k].above
FramesOK(fs) == fs \in Seq(Frame) /\ Spaced(fs)

LEMMA FramesAre ==
  ASSUME NEW fs, FramesOK(fs)
  PROVE  Len(fs) \in Nat /\ DOMAIN fs = 1 .. Len(fs)
         /\ \A k \in DOMAIN fs : fs[k] \in Frame /\ fs[k].above \in Nat
<1>1. Len(fs) \in Nat /\ DOMAIN fs = 1 .. Len(fs) /\ \A k \in DOMAIN fs : fs[k] \in Frame
  BY DEF FramesOK
<1>2. \A f \in Frame : f.above \in Nat
  BY DEF Frame
<1>. QED BY <1>1, <1>2

Deeper(f, b) == [f EXCEPT !.above = @ + b]

LEMMA FrameMoved ==
  ASSUME NEW f \in Frame, NEW b \in Int
  PROVE  /\ Deeper(f, b).above = f.above + b /\ f.above + b \in Int
         /\ Deeper(f, b).kind = f.kind /\ Deeper(f, b).pc = f.pc
         /\ Deeper(f, b).ps = f.ps
         /\ f.above + b >= 0 => Deeper(f, b) \in Frame
BY DEF Frame, Deeper

LEMMA DownClosed ==
  ASSUME NEW n \in Nat, NEW D \in SUBSET (1 .. n),
         \A k \in D : \A j \in 1 .. n : j <= k => j \in D
  PROVE  Cardinality(D) \in 0 .. n /\ D = 1 .. Cardinality(D)
<1>1. IsFiniteSet(1 .. n) /\ Cardinality(1 .. n) = n
  BY FS_Interval
<1>2. PICK g : g = Cardinality(D)
  OBVIOUS
<1>3. IsFiniteSet(D) /\ g <= n
  BY <1>1, <1>2, FS_Subset
<1>4. g \in Nat
  BY <1>2, <1>3, FS_CardinalityType
<1>5. D \in SUBSET (1 .. g)
  <2>1. SUFFICES ASSUME NEW k \in D PROVE k \in 1 .. g
    OBVIOUS
  <2>2. 1 .. k \in SUBSET D
    OBVIOUS
  <2>3. Cardinality(1 .. k) = k
    BY FS_Interval
  <2>4. Cardinality(1 .. k) <= g
    BY <1>2, <1>3, <2>2, FS_Subset
  <2>. QED BY <1>4, <2>3, <2>4
<1>6. IsFiniteSet(1 .. g) /\ Cardinality(1 .. g) = g
  BY <1>4, FS_Interval
<1>7. 1 .. g = D
  BY <1>2, <1>5, <1>6, FS_Subset
<1>. QED BY <1>2, <1>3, <1>4, <1>7

LEMMA BuriedIs ==
  ASSUME NEW fs, FramesOK(fs), NEW b \in Int
  PROVE  /\ FramesOK(Buried(fs, b))
         /\ \E g \in 0 .. Len(fs) :
              /\ Len(Buried(fs, b)) = Len(fs) - g
              /\ \A k \in 1 .. g : fs[k].above + b < 0
              /\ \A k \in 1 .. Len(fs) - g :
                   /\ Buried(fs, b)[k] = Deeper(fs[k + g], b)
                   /\ k + g \in DOMAIN fs /\ fs[k + g].above + b >= 0
<1>1. PICK n \in Nat : n = Len(fs) /\ DOMAIN fs = 1 .. n
  BY FramesAre
<1>2. PICK moved : moved = [k \in DOMAIN fs |-> Deeper(fs[k], b)]
  OBVIOUS
<1>3. PICK D \in SUBSET (1 .. n) : D = {k \in DOMAIN fs : moved[k].above < 0}
  BY <1>1
<1>4. PICK g : g = Cardinality(D)
  OBVIOUS
<1>5. \A k \in 1 .. n : /\ fs[k] \in Frame /\ fs[k].above \in Nat /\ moved[k] = Deeper(fs[k], b)
                        /\ moved[k].above = fs[k].above + b
  <2>1. SUFFICES ASSUME NEW k \in 1 .. n
                 PROVE  /\ fs[k] \in Frame /\ fs[k].above \in Nat
                        /\ moved[k] = Deeper(fs[k], b)
                        /\ moved[k].above = fs[k].above + b
    OBVIOUS
  <2>2. fs[k] \in Frame
    BY <1>1 DEF FramesOK
  <2>3. moved[k] = Deeper(fs[k], b)
    BY <1>1, <1>2
  <2>4. Deeper(fs[k], b).above = fs[k].above + b
    BY <2>2, FrameMoved
  <2>. QED BY <2>2, <2>3, <2>4 DEF Frame
<1>6. g \in 0 .. n /\ D = 1 .. g
  <2>1. \A k \in D : \A j \in 1 .. n : j <= k => j \in D
    <3>1. SUFFICES ASSUME NEW k \in D, NEW j \in 1 .. n, j < k PROVE j \in D
      OBVIOUS
    <3>2. k \in 1 .. n /\ fs[j].above + 3 <= fs[k].above
      BY <1>1, <3>1 DEF FramesOK, Spaced
    <3>3. moved[k].above < 0
      BY <1>3
    <3>5. PICK u \in Nat : u = fs[j].above /\ moved[j].above = u + b
      BY <1>5
    <3>6. PICK v \in Nat : v = fs[k].above /\ moved[k].above = v + b
      BY <1>5, <3>2
    <3>7. u + 3 <= v /\ v + b < 0
      BY <3>2, <3>3, <3>5, <3>6
    <3>8. u + b < 0
      BY <3>7
    <3>4. moved[j].above < 0
      BY <3>5, <3>8
    <3>. QED BY <1>1, <1>3, <3>4
  <2>. QED BY <1>4, <2>1, DownClosed
<1>7. Buried(fs, b) = SubSeq(moved, g + 1, Len(moved))
  BY <1>2, <1>3, <1>4 DEF Buried, Deeper
<1>8. Len(moved) = n /\ DOMAIN moved = 1 .. n
  BY <1>1, <1>2
<1>9. \A k \in g + 1 .. n : moved[k] \in Frame /\ fs[k].above + b >= 0
  <2>1. SUFFICES ASSUME NEW k \in g + 1 .. n PROVE moved[k] \in Frame /\ fs[k].above + b >= 0
    OBVIOUS
  <2>2. k \in 1 .. n /\ k \notin D
    BY <1>6
  <2>3. ~(moved[k].above < 0)
    BY <1>1, <1>3, <2>2
  <2>5. PICK v \in Nat : v = fs[k].above /\ moved[k].above = v + b
    BY <1>5, <2>2
  <2>6. v + b >= 0
    BY <2>3, <2>5
  <2>4. fs[k].above + b >= 0
    BY <2>5, <2>6
  <2>7. fs[k] \in Frame /\ moved[k] = Deeper(fs[k], b)
    BY <1>5, <2>2
  <2>8. Deeper(fs[k], b) \in Frame
    BY <2>4, <2>7, FrameMoved
  <2>. QED BY <2>4, <2>7, <2>8
<1>10. PICK c \in Int : c = g + 1
  BY <1>6
<1>11. PICK left : left = SubSeq(moved, c, n)
  OBVIOUS
<1>12. /\ left \in Seq(Frame) /\ Len(left) = IF c <= n THEN n - c + 1 ELSE 0
       /\ \A i \in 1 .. n - c + 1 : left[i] = moved[c + i - 1]
  BY <1>9, <1>10, <1>11, SubSeqProperties
<1>13. /\ left \in Seq(Frame) /\ Len(left) = n - g
       /\ \A i \in 1 .. n - g : left[i] = moved[i + g]
  BY <1>6, <1>10, <1>12
<1>14. left = Buried(fs, b)
  BY <1>7, <1>8, <1>10, <1>11
<1>15. \A k \in 1 .. n - g : /\ left[k] = Deeper(fs[k + g], b)
                             /\ k + g \in DOMAIN fs /\ fs[k + g].above + b >= 0
                             /\ left[k].above = fs[k + g].above + b
  <2>1. SUFFICES ASSUME NEW k \in 1 .. n - g
                 PROVE  /\ left[k] = Deeper(fs[k + g], b)
                        /\ k + g \in DOMAIN fs /\ fs[k + g].above + b >= 0
                        /\ left[k].above = fs[k + g].above + b
    OBVIOUS
  <2>2. PICK j \in 1 .. n : j = k + g /\ j \in g + 1 .. n
    BY <1>6
  <2>3. left[k] = moved[j]
    BY <1>13, <2>2
  <2>. QED BY <1>1, <1>5, <1>9, <2>2, <2>3
<1>16. Spaced(left)
  <2>1. SUFFICES ASSUME NEW j \in DOMAIN left, NEW k \in DOMAIN left, j < k
                 PROVE  left[j].above + 3 <= left[k].above
    BY DEF Spaced
  <2>2. DOMAIN left = 1 .. n - g
    BY <1>13
  <2>3. PICK v \in 1 .. n : v = j + g
    BY <1>6, <2>2
  <2>4. PICK w \in 1 .. n : w = k + g
    BY <1>6, <2>2
  <2>7. v < w
    BY <1>6, <2>1, <2>2, <2>3, <2>4
  <2>8. \A p \in DOMAIN fs : \A q \in DOMAIN fs : p < q => fs[p].above + 3 <= fs[q].above
    BY DEF FramesOK, Spaced
  <2>5. fs[v].above + 3 <= fs[w].above
    BY <1>1, <2>7, <2>8
  <2>6. fs[v].above \in Nat /\ fs[w].above \in Nat
    BY <1>5
  <2>9. left[j].above = fs[v].above + b /\ left[k].above = fs[w].above + b
    BY <1>15, <2>2, <2>3, <2>4
  <2>. QED BY <2>5, <2>6, <2>9
<1>17. \A k \in 1 .. g : fs[k].above + b < 0
  <2>1. SUFFICES ASSUME NEW k \in 1 .. g PROVE fs[k].above + b < 0
    OBVIOUS
  <2>2. k \in 1 .. n /\ k \in D
    BY <1>6
  <2>. QED BY <1>3, <1>5, <2>2
<1>. QED BY <1>1, <1>6, <1>13, <1>14, <1>15, <1>16, <1>17 DEF FramesOK

LEMMA EnteredIs ==
  ASSUME NEW fs, FramesOK(fs), NEW f \in Frame, f.above = 0
  PROVE  /\ FramesOK(Entered(fs, f)) /\ Len(Entered(fs, f)) = Len(fs) + 1
         /\ Entered(fs, f)[1] = f
         /\ \A k \in DOMAIN fs : Entered(fs, f)[k + 1] = Deeper(fs[k], 3)
<1>1. PICK n \in Nat : n = Len(fs) /\ DOMAIN fs = 1 .. n
  BY FramesAre
<1>2. PICK b \in Int : b = 3
  OBVIOUS
<1>3. PICK under : under = Buried(fs, b)
  OBVIOUS
<1>4. PICK g \in 0 .. Len(fs) :
        /\ Len(under) = Len(fs) - g
        /\ \A k \in 1 .. g : fs[k].above + b < 0
        /\ \A k \in 1 .. Len(fs) - g :
             /\ under[k] = Deeper(fs[k + g], b)
             /\ k + g \in DOMAIN fs /\ fs[k + g].above + b >= 0
  <2>1. \E g \in 0 .. Len(fs) :
          /\ Len(Buried(fs, b)) = Len(fs) - g
          /\ \A k \in 1 .. g : fs[k].above + b < 0
          /\ \A k \in 1 .. Len(fs) - g :
               /\ Buried(fs, b)[k] = Deeper(fs[k + g], b)
               /\ k + g \in DOMAIN fs /\ fs[k + g].above + b >= 0
    BY BuriedIs
  <2>. QED BY <1>3, <2>1
<1>5. \A k \in 1 .. n : fs[k] \in Frame /\ fs[k].above \in Nat
  BY <1>1, FramesAre
<1>6. g = 0
  <2>1. SUFFICES ASSUME g # 0 PROVE FALSE
    OBVIOUS
  <2>2. 1 \in 1 .. g /\ 1 \in 1 .. n
    BY <1>1, <2>1
  <2>3. fs[1].above + b < 0 /\ fs[1].above \in Nat
    BY <1>4, <1>5, <2>2
  <2>. QED BY <1>2, <2>3
<1>7. under \in Seq(Frame) /\ Spaced(under) /\ Len(under) = n
  <2>1. FramesOK(under)
    BY <1>3, BuriedIs
  <2>. QED BY <1>1, <1>4, <1>6, <2>1 DEF FramesOK
<1>8. \A k \in 1 .. n : under[k] = Deeper(fs[k], b) /\ under[k].above = fs[k].above + 3
  <2>1. SUFFICES ASSUME NEW k \in 1 .. n
                 PROVE  under[k] = Deeper(fs[k], b) /\ under[k].above = fs[k].above + 3
    OBVIOUS
  <2>2. k \in 1 .. Len(fs) - g /\ k + g = k
    BY <1>1, <1>6
  <2>3. under[k] = Deeper(fs[k], b)
    BY <1>4, <2>2
  <2>4. Deeper(fs[k], b).above = fs[k].above + b
    BY <1>5, FrameMoved
  <2>. QED BY <1>2, <2>3, <2>4
<1>9. PICK all : all = <<f>> \o under
  OBVIOUS
<1>10. all \in Seq(Frame) /\ Len(all) = n + 1 /\ all[1] = f /\ \A k \in 1 .. n : all[k + 1] = under[k]
  <2>1. <<f>> \in Seq(Frame) /\ Len(<<f>>) = 1 /\ <<f>>[1] = f
    OBVIOUS
  <2>2. PICK one \in Seq(Frame) : one = <<f>>
    BY <2>1
  <2>3. /\ one \o under \in Seq(Frame) /\ Len(one \o under) = Len(one) + Len(under)
        /\ \A i \in 1 .. Len(one) + Len(under) :
             (one \o under)[i] = IF i <= Len(one) THEN one[i] ELSE under[i - Len(one)]
    BY <1>7, ConcatProperties
  <2>. QED BY <1>7, <1>9, <2>1, <2>2, <2>3
<1>11. Spaced(all)
  <2>1. SUFFICES ASSUME NEW j \in 1 .. n + 1, NEW k \in 1 .. n + 1, j < k
                 PROVE  all[j].above + 3 <= all[k].above
    BY <1>10 DEF Spaced
  <2>2. PICK w \in 1 .. n : k = w + 1
    BY <2>1
  <2>3. CASE j = 1
    <3>1. all[j].above = 0 /\ all[k].above = fs[w].above + 3
      BY <1>8, <1>10, <2>2, <2>3
    <3>2. fs[w].above \in Nat
      BY <1>5
    <3>. QED BY <3>1, <3>2
  <2>4. CASE j # 1
    <3>1. PICK v \in 1 .. n : j = v + 1
      BY <2>1, <2>4
    <3>2. under[v].above + 3 <= under[w].above
      BY <1>7, <2>1, <2>2, <3>1 DEF Spaced
    <3>. QED BY <1>10, <2>2, <3>1, <3>2
  <2>. QED BY <2>3, <2>4
<1>12. all = Entered(fs, f)
  BY <1>2, <1>3, <1>9 DEF Entered
<1>. QED BY <1>1, <1>2, <1>8, <1>10, <1>11, <1>12 DEF FramesOK

(* The flags through the stack. *)

LEMMA PackedBits ==
  ASSUME NEW q \in Registers, NEW k \in {0, 16}
  PROVE  /\ Bit(pack_ps(q) - k, 128) = q.n /\ Bit(pack_ps(q) - k, 64) = q.v /\ Bit(pack_ps(q) - k, 8) = q.d
         /\ Bit(pack_ps(q) - k, 4) = q.i /\ Bit(pack_ps(q) - k, 2) = q.z /\ Bit(pack_ps(q) - k, 1) = q.c
         /\ Bit(pack_ps(q) - k, 16) = 1 <=> k = 0
<1>1. PICK n \in {0, 1}, v \in {0, 1}, d \in {0, 1}, i \in {0, 1}, z \in {0, 1}, c \in {0, 1} :
        n = q.n /\ v = q.v /\ d = q.d /\ i = q.i /\ z = q.z /\ c = q.c
  BY FieldsAre
<1>2. PICK p \in Int : p = 128 * n + 64 * v + 48 - k + 8 * d + 4 * i + 2 * z + c
  OBVIOUS
<1>3. pack_ps(q) - k = p
  <2>1. pack_ps(q) = 128 * n + 64 * v + 32 + 16 + 8 * d + 4 * i + 2 * z + c
    BY <1>1 DEF pack_ps
  <2>2. 128 * n + 64 * v + 32 + 16 + 8 * d + 4 * i + 2 * z + c - k = p
    BY <1>2
  <2>. QED BY <2>1, <2>2
<1>4. p \div 128 = n /\ p \div 64 = 2 * n + v
  BY <1>2
<1>5. p \div 16 = 8 * n + 4 * v + 3 - (k \div 16)
  BY <1>2
<1>6. p \div 8 = 16 * n + 8 * v + 6 - 2 * (k \div 16) + d
  BY <1>2
<1>7. p \div 4 = 32 * n + 16 * v + 12 - 4 * (k \div 16) + 2 * d + i
  BY <1>2
<1>8. p \div 2 = 64 * n + 32 * v + 24 - 8 * (k \div 16) + 4 * d + 2 * i + z
  BY <1>2
<1>9. (p \div 128) % 2 = n /\ (p \div 64) % 2 = v /\ (p \div 16) % 2 = 1 - (k \div 16)
  BY <1>4, <1>5
<1>10. (p \div 8) % 2 = d /\ (p \div 4) % 2 = i
  BY <1>6, <1>7
<1>11. (p \div 2) % 2 = z /\ (p \div 1) % 2 = c
  BY <1>2, <1>8
<1>12. 1 - (k \div 16) = 1 <=> k = 0
  OBVIOUS
<1>. QED BY <1>1, <1>3, <1>9, <1>10, <1>11, <1>12 DEF Bit

FlagsOf(b) ==
  Flags([c |-> Bit(b, 1), z |-> Bit(b, 2), n |-> Bit(b, 128), v |-> Bit(b, 64), d |-> Bit(b, 8), i |-> Bit(b, 4)])

LEMMA UnpackedIs ==
  ASSUME NEW q \in Registers, NEW b \in Byte
  PROVE  /\ unpack_ps(q, b) \in Registers /\ Flags(unpack_ps(q, b)) = FlagsOf(b)
         /\ unpack_ps(q, b).sp = q.sp
<1>1. b \in Int
  BY ByteBounds
<1>2. PICK n \in {0, 1} : n = Bit(b, 128)
  BY <1>1, BitIs DEF Places
<1>3. PICK v \in {0, 1} : v = Bit(b, 64)
  BY <1>1, BitIs DEF Places
<1>4. PICK d \in {0, 1} : d = Bit(b, 8)
  BY <1>1, BitIs DEF Places
<1>5. PICK i \in {0, 1} : i = Bit(b, 4)
  BY <1>1, BitIs DEF Places
<1>6. PICK z \in {0, 1} : z = Bit(b, 2)
  BY <1>1, BitIs DEF Places
<1>7. PICK c \in {0, 1} : c = Bit(b, 1)
  BY <1>1, BitIs DEF Places
<1>8. PICK p : p = [q EXCEPT !.n = n, !.v = v, !.d = d, !.i = i, !.z = z, !.c = c]
  OBVIOUS
<1>9. p \in Registers /\ p.sp = q.sp
  BY <1>8 DEF Registers
<1>10. p.n = n /\ p.v = v /\ p.d = d /\ p.i = i /\ p.z = z /\ p.c = c
  BY <1>8 DEF Registers
<1>11. unpack_ps(q, b) = p
  BY <1>2, <1>3, <1>4, <1>5, <1>6, <1>7, <1>8 DEF unpack_ps
<1>12. Flags(p) = Flags([c |-> c, z |-> z, n |-> n, v |-> v, d |-> d, i |-> i])
  BY <1>10 DEF Flags
<1>. QED BY <1>2, <1>3, <1>4, <1>5, <1>6, <1>7, <1>9, <1>11, <1>12 DEF FlagsOf

LEMMA PackedFlags ==
  ASSUME NEW q \in Registers, NEW k \in {0, 16}
  PROVE  FlagsOf(pack_ps(q) - k) = Flags(q)
<1>1. Flags([c |-> q.c, z |-> q.z, n |-> q.n, v |-> q.v, d |-> q.d, i |-> q.i]) = Flags(q)
  BY DEF Flags
<1>. QED BY <1>1, PackedBits DEF FlagsOf

LEMMA FlagsAre == ASSUME NEW q \in Registers PROVE Flags(q) \in [FlagNames -> {0, 1}]
BY FieldsAre DEF Flags, FlagNames

(* A frame's three bytes on the stack: the flags, then the address, low byte first. *)

SlotsHold(f, sp, mem) ==
  /\ \A k \in 1 .. 3 : Above(sp, f.above + k) \in DOMAIN mem
  /\ mem[Above(sp, f.above + 2)] + 256 * mem[Above(sp, f.above + 3)] = f.pc
  /\ FlagsOf(mem[Above(sp, f.above + 1)]) = f.ps
  /\ Bit(mem[Above(sp, f.above + 1)], 16) = 1 <=> f.kind = "brk"
FramesKept(fs, sp, mem) == \A k \in DOMAIN fs : SlotsHold(fs[k], sp, mem)
SlotsAgree(f, sp, old, new) ==
  \A k \in 1 .. 3 : /\ Above(sp, f.above + k) \in DOMAIN new
                    /\ new[Above(sp, f.above + k)] = old[Above(sp, f.above + k)]

LEMMA PushedIs ==
  ASSUME NEW old \in StackBegin .. StackEnd, NEW new \in StackBegin .. StackEnd
  PROVE  /\ Pushed(old, new) \in Int
         /\ \A k \in Int : Above(new, k + Pushed(old, new)) = Above(old, k)
         /\ \A j \in -127 .. 128 : new = Above(old, j) => Pushed(old, new) = 0 - j
<1>1. old \in Int /\ 256 <= old /\ old <= 511 /\ new \in Int /\ 256 <= new /\ new <= 511
  BY StackBounds
<1>2. PICK p \in Int : p = (((old - new) + 384) % 256) - 128
  BY <1>1
<1>3. Pushed(old, new) = p
  BY <1>2 DEF Pushed
<1>4. ASSUME NEW k \in Int PROVE Above(new, k + p) = Above(old, k)
  <2>1. (new + (k + p)) % 256 = (old + k) % 256
    BY <1>1, <1>2
  <2>. QED BY <2>1 DEF Above, Low8
<1>5. ASSUME NEW j \in -127 .. 128, new = Above(old, j) PROVE p = 0 - j
  <2>1. new = 256 + ((old + j) % 256)
    BY <1>5 DEF Above, Low8, StackBegin
  <2>2. (old - new) % 256 = (0 - j) % 256
    BY <1>1, <2>1
  <2>3. ((old - new) + 384) % 256 = (128 - j) % 256
    BY <1>1, <2>2
  <2>. QED BY <1>2, <2>3
<1>. QED BY <1>3, <1>4, <1>5

LEMMA SlotsMoved ==
  ASSUME NEW f \in Frame, NEW old \in StackBegin .. StackEnd, NEW new \in StackBegin .. StackEnd,
         NEW mem, NEW after, SlotsHold(f, old, mem), SlotsAgree(f, old, mem, after)
  PROVE  SlotsHold(Deeper(f, Pushed(old, new)), new, after)
<1>1. PICK b \in Int : b = Pushed(old, new)
  BY PushedIs
<1>2. PICK e : e = Deeper(f, b)
  OBVIOUS
<1>3. e.above = f.above + b /\ e.kind = f.kind /\ e.pc = f.pc /\ e.ps = f.ps /\ f.above \in Nat
  BY <1>2, FrameMoved DEF Frame
<1>4. \A k \in 1 .. 3 : Above(new, e.above + k) = Above(old, f.above + k)
  <2>1. SUFFICES ASSUME NEW k \in 1 .. 3 PROVE Above(new, e.above + k) = Above(old, f.above + k)
    OBVIOUS
  <2>2. PICK w \in Int : w = f.above + k
    BY <1>3
  <2>3. e.above + k = w + b
    BY <1>3, <2>2
  <2>. QED BY <1>1, <2>2, <2>3, PushedIs
<1>5. 1 \in 1 .. 3 /\ 2 \in 1 .. 3 /\ 3 \in 1 .. 3
  OBVIOUS
<1>6. SlotsHold(e, new, after)
  BY <1>3, <1>4, <1>5 DEF SlotsHold, SlotsAgree
<1>. QED BY <1>1, <1>2, <1>6

LEMMA FramesMoved ==
  ASSUME NEW fs, FramesOK(fs), NEW old \in StackBegin .. StackEnd, NEW new \in StackBegin .. StackEnd,
         NEW mem, NEW after, FramesKept(fs, old, mem),
         \A k \in DOMAIN fs : fs[k].above + Pushed(old, new) >= 0 => SlotsAgree(fs[k], old, mem, after)
  PROVE  /\ FramesOK(Buried(fs, Pushed(old, new)))
         /\ FramesKept(Buried(fs, Pushed(old, new)), new, after)
<1>1. PICK b \in Int : b = Pushed(old, new)
  BY PushedIs
<1>2. PICK left : left = Buried(fs, b)
  OBVIOUS
<1>3. FramesOK(left)
  BY <1>2, BuriedIs
<1>4. \E g \in 0 .. Len(fs) :
        /\ Len(Buried(fs, b)) = Len(fs) - g
        /\ \A k \in 1 .. g : fs[k].above + b < 0
        /\ \A k \in 1 .. Len(fs) - g :
             /\ Buried(fs, b)[k] = Deeper(fs[k + g], b)
             /\ k + g \in DOMAIN fs /\ fs[k + g].above + b >= 0
  BY BuriedIs
<1>5. \A k \in DOMAIN left : \E j \in DOMAIN fs : left[k] = Deeper(fs[j], b) /\ fs[j].above + b >= 0
  <2>1. DOMAIN left = 1 .. Len(left)
    BY <1>3, FramesAre
  <2>. QED BY <1>2, <1>4, <2>1
<1>6. SUFFICES ASSUME NEW k \in DOMAIN left PROVE SlotsHold(left[k], new, after)
  BY <1>1, <1>2, <1>3 DEF FramesKept
<1>7. PICK j \in DOMAIN fs : left[k] = Deeper(fs[j], b) /\ fs[j].above + b >= 0
  BY <1>5
<1>8. fs[j] \in Frame /\ SlotsHold(fs[j], old, mem) /\ SlotsAgree(fs[j], old, mem, after)
  BY SMTT(40), <1>1, <1>7, FramesAre DEF FramesKept
<1>. QED BY <1>1, <1>7, <1>8, SlotsMoved

(* An entry to a handler leaves the frames under it as they are and is a frame of its own. *)

LEMMA EntryMemoryIs ==
  ASSUME NEW m, IsMachine(m), NEW ps \in Byte
  PROVE  LET mem == EntryMemory(m, ps)
             sp  == m.r.sp
         IN  /\ Above(sp, 0) \in DOMAIN mem /\ Above(sp, -1) \in DOMAIN mem /\ Above(sp, -2) \in DOMAIN mem
             /\ mem[Above(sp, 0)] = m.r.pc \div 256 /\ mem[Above(sp, -1)] = Low8(m.r.pc)
             /\ mem[Above(sp, -2)] = ps
             /\ \A b \in DOMAIN m.ram : b \notin {Above(sp, 0), Above(sp, -1), Above(sp, -2)}
                  => b \in DOMAIN mem /\ mem[b] = m.ram[b]
<1>1. PICK sp \in StackBegin .. StackEnd : sp = m.r.sp /\ sp \in Int
  BY FieldsAre, StackBounds DEF IsMachine
<1>2. PICK z \in StackBegin .. StackEnd : z = Above(sp, 0) /\ z = sp
  BY AboveNone
<1>3. PICK o \in StackBegin .. StackEnd : o = Above(sp, -1)
  BY <1>1, AboveNear
<1>4. PICK t \in StackBegin .. StackEnd : t = Above(sp, -2)
  BY <1>1, AboveNear
<1>5. z # o /\ z # t /\ o # t
  <2>1. 256 <= sp /\ sp <= 511
    BY StackBounds
  <2>2. z = sp /\ o = 256 + ((sp + (-1)) % 256) /\ t = 256 + ((sp + (-2)) % 256)
    BY <1>2, <1>3, <1>4 DEF Above, Low8, StackBegin
  <2>. QED BY <1>1, <2>1, <2>2
<1>6. PICK hi : hi = m.r.pc \div 256
  OBVIOUS
<1>7. PICK lo : lo = Low8(m.r.pc)
  OBVIOUS
<1>8. EntryMemory(m, ps) = WithByte(WithByte(WithByte(m.ram, z, hi), o, lo), t, ps)
  BY <1>1, <1>2, <1>3, <1>4, <1>6, <1>7 DEF EntryMemory
<1>9. PICK mem : mem = WithByte(WithByte(WithByte(m.ram, z, hi), o, lo), t, ps)
  OBVIOUS
<1>10. /\ z \in DOMAIN mem /\ o \in DOMAIN mem /\ t \in DOMAIN mem
       /\ mem[z] = hi /\ mem[o] = lo /\ mem[t] = ps
       /\ \A b \in DOMAIN m.ram : b \notin {z, o, t} => b \in DOMAIN mem /\ mem[b] = m.ram[b]
  BY <1>5, <1>9 DEF WithByte
<1>. QED BY <1>1, <1>2, <1>3, <1>4, <1>6, <1>7, <1>8, <1>9, <1>10

LEMMA SlotsUntouched ==
  ASSUME NEW f \in Frame, f.above <= 240, NEW sp \in StackBegin .. StackEnd, NEW mem, SlotsHold(f, sp, mem),
         NEW after, \A b \in DOMAIN mem : b \notin {Above(sp, 0), Above(sp, -1), Above(sp, -2)}
                      => b \in DOMAIN after /\ after[b] = mem[b]
  PROVE  SlotsAgree(f, sp, mem, after)
<1>1. SUFFICES ASSUME NEW k \in 1 .. 3
               PROVE  /\ Above(sp, f.above + k) \in DOMAIN after
                      /\ after[Above(sp, f.above + k)] = mem[Above(sp, f.above + k)]
  BY DEF SlotsAgree
<1>2. PICK w \in Int : w = f.above + k /\ 1 <= w /\ w <= 243
  BY DEF Frame
<1>3. sp \in Int
  BY StackBounds
<1>4. ASSUME NEW j \in {0, -1, -2}, Above(sp, w) = Above(sp, j) PROVE FALSE
  <2>1. j \in Int /\ w - j < 256 /\ j - w < 256 /\ j # w
    BY <1>2
  <2>. QED BY <1>2, <1>3, <1>4, <2>1, AboveDiffers
<1>5. Above(sp, w) \in DOMAIN mem
  BY <1>2 DEF SlotsHold
<1>. QED BY <1>2, <1>4, <1>5

LEMMA HandlerEntered ==
  ASSUME NEW m, IsMachine(m), NEW fs, FramesOK(fs), FramesKept(fs, m.r.sp, m.ram),
         \A k \in DOMAIN fs : fs[k].above <= 240,
         NEW kind \in {"brk", "irq", "nmi"}, NEW part, NEW vector \in Word, NEW break,
         (break /\ kind = "brk") \/ (~break /\ kind # "brk")
  PROVE  LET s == EnterHandler(part, m, vector, break)
         IN  /\ FramesOK(Entered(fs, Enter(kind, m.r)))
             /\ FramesKept(Entered(fs, Enter(kind, m.r)), s.r.sp, s.ram)
<1>1. PICK f : f = Enter(kind, m.r)
  OBVIOUS
<1>2. /\ f \in Frame /\ f.above = 0 /\ f.kind = kind /\ f.pc = m.r.pc /\ f.ps = Flags(m.r)
      /\ m.r \in Registers /\ m.r.pc \in Word
  <2>1. m.r \in Registers /\ m.r.pc \in Word /\ Flags(m.r) \in [FlagNames -> {0, 1}]
    BY FieldsAre, FlagsAre DEF IsMachine
  <2>2. f = [kind |-> kind, pc |-> m.r.pc, ps |-> Flags(m.r), above |-> 0] /\ 0 \in Nat
    BY <1>1 DEF Enter
  <2>. QED BY <2>1, <2>2 DEF Frame
<1>3. PICK k \in {0, 16} : k = IF break THEN 0 ELSE 16
  OBVIOUS
<1>4. PICK ps \in Byte : ps = pack_ps(m.r) - k
  BY <1>2, PackIsByte
<1>5. PICK s : s = EnterHandler(part, m, vector, break)
  OBVIOUS
<1>6. PICK sp \in StackBegin .. StackEnd : sp = m.r.sp /\ sp \in Int
  BY <1>2, FieldsAre, StackBounds
<1>7. PICK mem : mem = EntryMemory(m, ps)
  OBVIOUS
<1>8. s.r.sp = Above(sp, -3) /\ s.ram = mem
  <2>1. /\ EnterHandler(part, m, vector, break).r.sp = Above(m.r.sp, -3)
        /\ EnterHandler(part, m, vector, break).ram =
             EntryMemory(m, pack_ps(m.r) - (IF break THEN 0 ELSE 16))
    BY EnterHandlerIs
  <2>. QED BY <1>3, <1>4, <1>5, <1>6, <1>7, <2>1
<1>9. PICK low \in StackBegin .. StackEnd : low = Above(sp, -3)
  BY <1>6, AboveNear
<1>10. /\ Above(sp, 0) \in DOMAIN mem /\ Above(sp, -1) \in DOMAIN mem /\ Above(sp, -2) \in DOMAIN mem
       /\ mem[Above(sp, 0)] = m.r.pc \div 256 /\ mem[Above(sp, -1)] = Low8(m.r.pc)
       /\ mem[Above(sp, -2)] = ps
       /\ \A b \in DOMAIN m.ram : b \notin {Above(sp, 0), Above(sp, -1), Above(sp, -2)}
            => b \in DOMAIN mem /\ mem[b] = m.ram[b]
  BY <1>6, <1>7, EntryMemoryIs
<1>11. Above(low, 1) = Above(sp, -2) /\ Above(low, 2) = Above(sp, -1) /\ Above(low, 3) = Above(sp, 0)
  BY <1>6, <1>9 DEF Above, Low8, StackBegin
<1>12. SlotsHold(f, low, mem)
  <2>1. \A n \in 1 .. 3 : Above(low, f.above + n) \in DOMAIN mem
    <3>1. SUFFICES ASSUME NEW n \in 1 .. 3 PROVE Above(low, f.above + n) \in DOMAIN mem
      OBVIOUS
    <3>2. n = 1 \/ n = 2 \/ n = 3
      OBVIOUS
    <3>3. f.above + n = n
      BY <1>2
    <3>. QED BY <1>10, <1>11, <3>2, <3>3
  <2>2. f.above + 1 = 1 /\ f.above + 2 = 2 /\ f.above + 3 = 3
    BY <1>2
  <2>3. Low8(m.r.pc) + 256 * (m.r.pc \div 256) = f.pc
    <3>1. m.r.pc \in Int
      BY <1>2, WordBounds
    <3>2. (m.r.pc % 256) + 256 * (m.r.pc \div 256) = m.r.pc
      BY <3>1
    <3>. QED BY <1>2, <3>2 DEF Low8
  <2>4. FlagsOf(ps) = f.ps /\ (Bit(ps, 16) = 1 <=> f.kind = "brk")
    <3>1. FlagsOf(pack_ps(m.r) - k) = Flags(m.r)
      BY <1>2, PackedFlags
    <3>2. Bit(pack_ps(m.r) - k, 16) = 1 <=> k = 0
      BY <1>2, PackedBits
    <3>. QED BY <1>2, <1>3, <1>4, <3>1, <3>2
  <2>. QED BY <1>10, <1>11, <2>1, <2>2, <2>3, <2>4 DEF SlotsHold
<1>13. Pushed(sp, low) = 3
  <2>1. PICK j \in -127 .. 128 : j = -3
    OBVIOUS
  <2>2. Pushed(sp, low) = 0 - j
    BY <1>9, <2>1, PushedIs
  <2>3. 0 - j = 3
    BY <2>1
  <2>. QED BY <2>2, <2>3
<1>14. \A n \in DOMAIN fs : SlotsHold(Deeper(fs[n], 3), low, mem)
  <2>1. SUFFICES ASSUME NEW n \in DOMAIN fs PROVE SlotsHold(Deeper(fs[n], 3), low, mem)
    OBVIOUS
  <2>2. fs[n] \in Frame /\ fs[n].above <= 240 /\ SlotsHold(fs[n], sp, m.ram)
    BY <1>6, FramesAre DEF FramesKept
  <2>3. SlotsAgree(fs[n], sp, m.ram, mem)
    BY <1>10, <2>2, SlotsUntouched
  <2>. QED BY <1>13, <2>2, <2>3, SlotsMoved
<1>15. PICK all : all = Entered(fs, f)
  OBVIOUS
<1>16. /\ FramesOK(all) /\ Len(all) = Len(fs) + 1 /\ all[1] = f
       /\ \A n \in DOMAIN fs : all[n + 1] = Deeper(fs[n], 3)
  BY <1>2, <1>15, EnteredIs
<1>17. FramesKept(all, low, mem)
  <2>1. SUFFICES ASSUME NEW n \in DOMAIN all PROVE SlotsHold(all[n], low, mem)
    BY DEF FramesKept
  <2>2. Len(fs) \in Nat /\ DOMAIN fs = 1 .. Len(fs) /\ DOMAIN all = 1 .. Len(fs) + 1
    BY <1>16, FramesAre
  <2>3. CASE n = 1
    BY <1>12, <1>16, <2>3
  <2>4. CASE n # 1
    <3>2. PICK l \in Nat : l = Len(fs)
      BY <2>2
    <3>3. n \in 1 .. l + 1
      BY <2>2, <3>2
    <3>4. PICK v \in 1 .. l : n = v + 1
      BY <2>4, <3>3
    <3>1. v \in DOMAIN fs /\ n = v + 1
      BY <2>2, <3>2, <3>4
    <3>. QED BY SMTT(40), <1>14, <1>16, <3>1
  <2>. QED BY <2>3, <2>4
<1>. QED BY <1>1, <1>5, <1>8, <1>9, <1>15, <1>16, <1>17

(* One instruction. *)

Follows(m, s) == IsMachine(s) /\ s.at = m.at /\ s.instr = m.instr
SparesAbove(m, s) ==
  \A b \in DOMAIN m.ram : b \notin {Above(m.r.sp, 0), Above(m.r.sp, -1), Above(m.r.sp, -2)}
    => b \in DOMAIN s.ram /\ s.ram[b] = m.ram[b]

LEMMA BecameFollows ==
  ASSUME NEW m, NEW s, NEW q, Became(m, s, q, m.ram)
  PROVE  Follows(m, s) /\ SparesAbove(m, s)
BY DEF Became, Follows, SparesAbove

LEMMA CounterSet ==
  ASSUME NEW m, IsMachine(m), NEW w \in Word
  PROVE  Became(m, [m EXCEPT !.r.pc = w], [m.r EXCEPT !.pc = w], m.ram)
<1>1. PICK q \in Registers : q = [m.r EXCEPT !.pc = w]
  BY FieldsSet DEF IsMachine
<1>2. [m EXCEPT !.r.pc = w] = [m EXCEPT !.r = q]
  BY <1>1
<1>. QED BY <1>1, <1>2, RegistersSet

LEMMA PushSpares ==
  ASSUME NEW m, IsMachine(m), NEW v \in Byte
  PROVE  Follows(m, push(m, v)) /\ SparesAbove(m, push(m, v))
<1>1. PICK s : s = push(m, v)
  OBVIOUS
<1>2. IsMachine(s) /\ s.ram = WithByte(m.ram, m.r.sp, v) /\ s.at = m.at /\ s.instr = m.instr
  BY <1>1, PushIs DEF Became
<1>3. m.r.sp = Above(m.r.sp, 0)
  BY FieldsAre, AboveNone DEF IsMachine
<1>4. SparesAbove(m, s)
  BY <1>2, <1>3 DEF SparesAbove, WithByte
<1>. QED BY <1>1, <1>2, <1>4 DEF Follows

LEMMA PopFollows ==
  ASSUME NEW m, IsMachine(m), NEW q \in Registers
  PROVE  /\ pop(m).v \in Byte /\ pop(m).m.r \in Registers
         /\ Follows(m, [pop(m).m EXCEPT !.r = q]) /\ SparesAbove(m, [pop(m).m EXCEPT !.r = q])
<1>1. PICK s : s = pop(m).m
  OBVIOUS
<1>2. pop(m).v \in Byte /\ Became(m, s, [m.r EXCEPT !.sp = Above(m.r.sp, 1)], m.ram)
  BY <1>1, PopIs
<1>3. IsMachine(s) /\ s.ram = m.ram /\ s.at = m.at /\ s.instr = m.instr
  BY <1>2 DEF Became
<1>4. Became(s, [s EXCEPT !.r = q], q, s.ram)
  BY <1>3, RegistersSet
<1>5. Became(m, [s EXCEPT !.r = q], q, m.ram)
  BY <1>3, <1>4 DEF Became
<1>. QED BY <1>1, <1>2, <1>3, <1>5, BecameFollows DEF IsMachine

LEMMA ReturnIs ==
  ASSUME NEW part, NEW m, IsMachine(m), NEW addr
  PROVE  /\ Follows(m, StackOp(part, "rti", m, addr)) /\ StackOp(part, "rti", m, addr).ram = m.ram
         /\ StackOp(part, "rti", m, addr).r.sp = Above(m.r.sp, 3)
         /\ Flags(StackOp(part, "rti", m, addr).r) = FlagsOf(Mem(m, Above(m.r.sp, 1)))
         /\ StackOp(part, "rti", m, addr).r.pc =
              Mem(m, Above(m.r.sp, 2)) + 256 * Mem(m, Above(m.r.sp, 3))
<1>1. PICK f : f = pop(m)
  OBVIOUS
<1>2. PICK sp \in StackBegin .. StackEnd : sp = m.r.sp /\ sp \in Int
  BY FieldsAre, StackBounds DEF IsMachine
<1>3. PICK one \in StackBegin .. StackEnd : one = Above(sp, 1) /\ one \in Int
  BY <1>2, AboveNear, StackBounds
<1>4. f.v \in Byte /\ f.v = Mem(m, one) /\ Became(m, f.m, [m.r EXCEPT !.sp = one], m.ram)
  BY <1>1, <1>2, <1>3, PopIs
<1>5. f.m.r \in Registers /\ f.m.r.sp = one
  BY <1>4 DEF Became, IsMachine, Registers
<1>6. PICK q \in Registers : q = unpack_ps(f.m.r, f.v) /\ Flags(q) = FlagsOf(f.v) /\ q.sp = one
  BY <1>4, <1>5, UnpackedIs
<1>7. PICK g : g = [f.m EXCEPT !.r = q]
  OBVIOUS
<1>8. Became(m, g, q, m.ram)
  BY <1>4, <1>7, RegistersSet DEF Became
<1>9. PICK p : p = PopWord(g)
  OBVIOUS
<1>10. /\ p.v = Mem(g, Above(one, 1)) + 256 * Mem(g, Above(one, 2)) /\ p.v \in Word
       /\ Became(g, p.m, [q EXCEPT !.sp = Above(one, 2)], g.ram)
  <2>1. g.r.sp = one /\ g.r = q /\ IsMachine(g)
    BY <1>6, <1>8 DEF Became
  <2>. QED BY <1>9, <2>1, PopWordIs
<1>11. Above(one, 1) = Above(sp, 2) /\ Above(one, 2) = Above(sp, 3)
  BY <1>2, <1>3, AboveSteps
<1>12. Mem(g, Above(sp, 2)) = Mem(m, Above(sp, 2)) /\ Mem(g, Above(sp, 3)) = Mem(m, Above(sp, 3))
  BY <1>8 DEF Became, Mem
<1>13. PICK u \in Registers : u = [q EXCEPT !.sp = Above(sp, 3)]
  BY <1>10, <1>11 DEF Became, IsMachine
<1>14. Became(m, p.m, u, m.ram)
  BY <1>8, <1>10, <1>11, <1>13 DEF Became
<1>15. PICK w \in Registers : w = [u EXCEPT !.pc = p.v]
  BY <1>10, FieldsSet
<1>16. Became(m, [p.m EXCEPT !.r.pc = p.v], w, m.ram)
  <2>1. IsMachine(p.m) /\ p.m.r = u /\ p.m.ram = m.ram /\ p.m.at = m.at /\ p.m.instr = m.instr
    BY <1>14 DEF Became
  <2>2. Became(p.m, [p.m EXCEPT !.r.pc = p.v], [p.m.r EXCEPT !.pc = p.v], p.m.ram)
    BY <1>10, <2>1, CounterSet
  <2>3. [p.m.r EXCEPT !.pc = p.v] = w
    BY <1>15, <2>1
  <2>4. PICK z : z = [p.m EXCEPT !.r.pc = p.v]
    OBVIOUS
  <2>. QED BY <2>1, <2>2, <2>3, <2>4 DEF Became
<1>17. StackOp(part, "rti", m, addr) = [p.m EXCEPT !.r.pc = p.v]
  BY <1>1, <1>6, <1>7, <1>9 DEF StackOp
<1>18. w.pc = p.v /\ w.sp = Above(sp, 3) /\ Flags(w) = Flags(q)
  BY <1>13, <1>15 DEF Registers, Flags
<1>. QED
  BY ZenonT(60), <1>2, <1>3, <1>4, <1>6, <1>10, <1>11, <1>12, <1>16, <1>17, <1>18 DEF Became, Follows

LEMMA StackOpIs ==
  ASSUME NEW part, NEW m, IsMachine(m), NEW op \in StackOps, op # "brk", NEW addr \in Word
  PROVE  Follows(m, StackOp(part, op, m, addr)) /\ SparesAbove(m, StackOp(part, op, m, addr))
<1>1. /\ m.r \in Registers /\ m.r.a \in Byte /\ m.r.x \in Byte /\ m.r.y \in Byte /\ m.r.pc \in Int
      /\ m.r.sp \in Int
  BY FieldsAre, WordBounds, StackBounds DEF IsMachine
<1>2. CASE op \in {"jmp", "hlt"}
  <2>1. PICK w \in Word : w = Low16(m.r.pc - 1)
    <3>1. m.r.pc - 1 \in Int
      BY <1>1
    <3>. QED BY <3>1, LowIs
  <2>2. \A v \in Word : Follows(m, [m EXCEPT !.r.pc = v]) /\ SparesAbove(m, [m EXCEPT !.r.pc = v])
    BY CounterSet, BecameFollows
  <2>3. [m EXCEPT !.r.pc = Low16(@ - 1)] = [m EXCEPT !.r.pc = w]
    BY <2>1
  <2>4. StackOp(part, "jmp", m, addr) = [m EXCEPT !.r.pc = addr]
    BY DEF StackOp
  <2>5. StackOp(part, "hlt", m, addr) = [m EXCEPT !.r.pc = w]
    BY <2>3 DEF StackOp
  <2>. QED BY <1>2, <2>2, <2>4, <2>5
<1>3. CASE op = "jsr"
  <2>1. PICK w \in Word : w = Low16(m.r.pc - 1)
    <3>1. m.r.pc - 1 \in Int
      BY <1>1
    <3>. QED BY <3>1, LowIs
  <2>2. PICK s : s = PushWord(m, w)
    OBVIOUS
  <2>3. PICK hi : hi = w \div 256
    OBVIOUS
  <2>4. PICK lo : lo = Low8(w)
    OBVIOUS
  <2>5. Became(m, s, [m.r EXCEPT !.sp = Above(m.r.sp, -2)], WithByte(WithByte(m.ram, m.r.sp, hi), Above(m.r.sp, -1), lo))
    BY <2>2, <2>3, <2>4, PushWordIs
  <2>6. m.r.sp = Above(m.r.sp, 0)
    BY FieldsAre, AboveNone DEF IsMachine
  <2>7. SparesAbove(m, s)
    BY <2>5, <2>6 DEF Became, SparesAbove, WithByte
  <2>8. Became(s, [s EXCEPT !.r.pc = addr], [s.r EXCEPT !.pc = addr], s.ram)
    BY <2>5, CounterSet DEF Became
  <2>9. PICK t : t = [s EXCEPT !.r.pc = addr]
    OBVIOUS
  <2>10. Follows(m, t) /\ SparesAbove(m, t)
    BY <2>5, <2>7, <2>8, <2>9 DEF Became, Follows, SparesAbove
  <2>11. StackOp(part, op, m, addr) = t
    BY <1>3, <2>1, <2>2, <2>9 DEF StackOp
  <2>. QED BY <2>10, <2>11
<1>4. CASE op = "rts"
  <2>1. PICK p : p = PopWord(m)
    OBVIOUS
  <2>2. p.v \in Word /\ Became(m, p.m, [m.r EXCEPT !.sp = Above(m.r.sp, 2)], m.ram)
    BY <2>1, PopWordIs
  <2>3. PICK w \in Word : w = Low16(p.v + 1)
    <3>1. p.v + 1 \in Int
      BY <2>2, WordBounds
    <3>. QED BY <3>1, LowIs
  <2>4. Became(p.m, [p.m EXCEPT !.r.pc = w], [p.m.r EXCEPT !.pc = w], p.m.ram)
    BY <2>2, CounterSet DEF Became
  <2>5. PICK t : t = [p.m EXCEPT !.r.pc = w]
    OBVIOUS
  <2>6. Follows(m, t) /\ SparesAbove(m, t)
    BY <2>2, <2>4, <2>5 DEF Became, Follows, SparesAbove
  <2>7. StackOp(part, op, m, addr) = t
    BY <1>4, <2>1, <2>3, <2>5 DEF StackOp
  <2>. QED BY <2>6, <2>7
<1>5. CASE op = "rti"
  BY <1>5, ReturnIs DEF SparesAbove
<1>6. CASE op \in {"pha", "phx", "phy", "php"}
  <2>1. PICK ps \in Byte : ps = pack_ps(m.r)
    <3>1. pack_ps(m.r) - 0 \in Byte
      BY <1>1, PackIsByte
    <3>2. pack_ps(m.r) \in Int
      BY <1>1, FieldsAre DEF pack_ps
    <3>. QED BY <3>1, <3>2
  <2>2. \A v \in Byte : Follows(m, push(m, v)) /\ SparesAbove(m, push(m, v))
    BY PushSpares
  <2>. QED BY <1>1, <1>6, <2>1, <2>2 DEF StackOp
<1>7. CASE op \in {"pla", "plx", "ply", "plp"}
  <2>1. PICK p : p = pop(m)
    OBVIOUS
  <2>2. PICK v \in Byte : v = p.v
    BY <2>1, PopFollows, <1>1
  <2>3. PICK q \in Registers : q = p.m.r
    BY <2>1, PopFollows, <1>1
  <2>4. \A u \in Registers : Follows(m, [p.m EXCEPT !.r = u]) /\ SparesAbove(m, [p.m EXCEPT !.r = u])
    BY <2>1, PopFollows
  <2>5. v \in Int
    BY ByteBounds
  <2>6. load_a(q, v) \in Registers /\ unpack_ps(q, v) \in Registers
    BY <2>5, LoadKeeps, UnpackedIs
  <2>7. [set_nz(q, v) EXCEPT !.x = v] \in Registers /\ [set_nz(q, v) EXCEPT !.y = v] \in Registers
    BY <2>5, SetNzKeeps, FieldsSet
  <2>8. CASE op = "pla"
    <3>1. StackOp(part, op, m, addr) = [p.m EXCEPT !.r = load_a(q, v)]
      BY <2>1, <2>2, <2>3, <2>8 DEF StackOp
    <3>. QED BY <2>4, <2>6, <3>1
  <2>9. CASE op = "plp"
    <3>1. StackOp(part, op, m, addr) = [p.m EXCEPT !.r = unpack_ps(q, v)]
      BY <2>1, <2>2, <2>3, <2>9 DEF StackOp
    <3>. QED BY <2>4, <2>6, <3>1
  <2>10. CASE op = "plx"
    <3>1. PICK u \in Registers : u = [set_nz(q, v) EXCEPT !.x = v]
      BY <2>7
    <3>2. StackOp(part, op, m, addr) = [p.m EXCEPT !.r = u]
      BY <2>1, <2>2, <2>3, <2>10, <3>1 DEF StackOp
    <3>. QED BY <2>4, <3>2
  <2>11. CASE op = "ply"
    <3>1. PICK u \in Registers : u = [set_nz(q, v) EXCEPT !.y = v]
      BY <2>7
    <3>2. StackOp(part, op, m, addr) = [p.m EXCEPT !.r = u]
      BY <2>1, <2>2, <2>3, <2>11, <3>1 DEF StackOp
    <3>. QED BY <2>4, <3>2
  <2>. QED BY <1>7, <2>8, <2>9, <2>10, <2>11
<1>. QED BY <1>2, <1>3, <1>4, <1>5, <1>6, <1>7 DEF StackOps

LEMMA WriteIs ==
  ASSUME NEW m, IsMachine(m), NEW addr \in Word, NEW v \in Byte
  PROVE  Follows(m, write_byte(m, addr, v)) /\ write_byte(m, addr, v).r = m.r
<1>1. PICK mem : mem = WithByte(m.ram, addr, v)
  OBVIOUS
<1>2. HoldsBytes(mem)
  BY <1>1, ByteStored DEF IsMachine
<1>3. [m EXCEPT !.ram = WithByte(@, addr, v)] = [m EXCEPT !.ram = mem]
  BY <1>1
<1>4. IsMachine([m EXCEPT !.ram = mem]) /\ Follows(m, [m EXCEPT !.ram = mem]) /\ [m EXCEPT !.ram = mem].r = m.r
  BY <1>2 DEF IsMachine, Follows
<1>. QED BY <1>3, <1>4 DEF write_byte, Follows

Advanced(m, mode) == [m EXCEPT !.r.pc = Low16(m.r.pc + 1 + OperandBytes(mode))]

LEMMA AdvancedIs ==
  ASSUME NEW m, IsMachine(m), NEW mode
  PROVE  /\ Became(m, Advanced(m, mode), [m.r EXCEPT !.pc = Low16(m.r.pc + 1 + OperandBytes(mode))], m.ram)
         /\ Advanced(m, mode).r.sp = m.r.sp /\ Advanced(m, mode).r.pc = Low16(m.r.pc + 1 + OperandBytes(mode))
         /\ Advanced(m, mode).r \in Registers /\ Advanced(m, mode).r.pc \in Word
<1>1. OperandBytes(mode) \in Int
  BY DEF OperandBytes
<1>2. PICK w \in Word : w = Low16(m.r.pc + 1 + OperandBytes(mode))
  <2>1. m.r.pc \in Int
    BY FieldsAre, WordBounds DEF IsMachine
  <2>2. PICK k \in Int : k = OperandBytes(mode)
    BY <1>1
  <2>3. m.r.pc + 1 + k \in Int
    BY <2>1, <2>2
  <2>. QED BY <2>2, <2>3, LowIs
<1>3. Became(m, [m EXCEPT !.r.pc = w], [m.r EXCEPT !.pc = w], m.ram)
  BY CounterSet
<1>4. [m.r EXCEPT !.pc = w].sp = m.r.sp /\ [m.r EXCEPT !.pc = w].pc = w
  BY DEF IsMachine, Registers
<1>. QED BY <1>2, <1>3, <1>4 DEF Advanced, Became, IsMachine

Done(part, op, mode, m, n, ea) ==
  LET at    == IF op \in MixedStores THEN (ea.addr % 256) + 256 * StoreValue(op, m.r, ea.base)
               ELSE ea.addr
      moved == ModifyOp(op, m.r, Mem(m, ea.addr))
      target == Low16(n.r.pc + ea.addr)
  IN  CASE op \in Branches -> IF BranchTaken(op, m.r) THEN [n EXCEPT !.r.pc = target] ELSE n
        [] op \in StackOps -> StackOp(part, op, n, ea.addr)
        [] op \in Reads    -> [n EXCEPT !.r = ReadOp(op, @, Mem(m, ea.addr))]
        [] op \in Modifies -> write_byte([n EXCEPT !.r = [moved.r EXCEPT !.pc = n.r.pc]],
                                         ea.addr, moved.m)
        [] op \in Stores   -> write_byte([n EXCEPT !.r.sp = IF op = "tas" THEN 256 + And(m.r.a, m.r.x)
                                                            ELSE @],
                                         at, StoreValue(op, m.r, ea.base))
        [] OTHER           -> [n EXCEPT !.r = RegisterOp(op, @)]

LEMMA ExecuteIs ==
  ASSUME NEW part \in {"nmos", "cmos"}, NEW m, IsMachine(m)
  PROVE  LET desc == Opcode[part][m.instr[1]]
         IN  /\ desc.op \in Operations /\ desc.mode \in Modes
             /\ Execute(part, m).op = desc.op /\ Execute(part, m).cost \in Nat
             /\ Execute(part, m).m = Done(part, desc.op, desc.mode, m, Advanced(m, desc.mode),
                                          EffectiveAddress(desc.mode, m))
<1>1. PICK desc : desc = Opcode[part][m.instr[1]]
  OBVIOUS
<1>2. desc.mode \in Modes /\ desc.op \in Operations /\ desc.cycles \in Nat
  BY <1>1, OpcodeIsKnown, InstructionBytes DEF IsMachine
<1>3. PICK mode \in Modes : mode = desc.mode
  BY <1>2
<1>4. PICK op : op = desc.op
  OBVIOUS
<1>5. PICK ea : ea = EffectiveAddress(mode, m)
  OBVIOUS
<1>6. Address(ea)
  BY <1>5, EffectiveAddressIs
<1>7. PICK n : n = Advanced(m, mode)
  OBVIOUS
<1>8. n = [m EXCEPT !.r.pc = Low16(@ + 1 + OperandBytes(mode))]
  BY <1>7 DEF Advanced
<1>9. PICK target : target = Low16(n.r.pc + ea.addr)
  OBVIOUS
<1>10. PICK extra :
         extra = CASE op \in Branches /\ BranchTaken(op, m.r) -> 1 + Crosses(n.r.pc, target)
                   [] op \in {"adc_cmos", "sbc_cmos"}         -> ea.extra + m.r.d
                   [] OTHER                                    -> ea.extra
  BY SMTT(40)
<1>11. Execute(part, m) = [m |-> Done(part, op, mode, m, n, ea), op |-> op, cost |-> desc.cycles + extra]
  BY <1>1, <1>3, <1>4, <1>5, <1>8, <1>9, <1>10 DEF Execute, Done
<1>12. extra \in Nat
  <2>1. ea.extra \in {0, 1} /\ m.r.d \in {0, 1} /\ Crosses(n.r.pc, target) \in {0, 1}
    BY <1>6, FieldsAre, FlagIs DEF Address, IsMachine, Crosses
  <2>2. 1 + Crosses(n.r.pc, target) \in Nat /\ ea.extra + m.r.d \in Nat /\ ea.extra \in Nat
    BY <2>1
  <2>3. op \in Branches => op \notin {"adc_cmos", "sbc_cmos"}
    BY DEF Branches
  <2>. QED BY <1>10, <2>2, <2>3
<1>. QED BY <1>1, <1>2, <1>3, <1>4, <1>5, <1>7, <1>11, <1>12

LEMMA OperationsApart ==
  /\ Branches \cap StackOps = {} /\ Branches \cap Reads = {} /\ Branches \cap Modifies = {}
  /\ Branches \cap Stores = {} /\ Branches \cap RegisterOps = {}
  /\ StackOps \cap Reads = {} /\ StackOps \cap Modifies = {} /\ StackOps \cap Stores = {}
  /\ StackOps \cap RegisterOps = {}
  /\ Reads \cap Modifies = {} /\ Reads \cap Stores = {} /\ Reads \cap RegisterOps = {}
  /\ Modifies \cap Stores = {} /\ Modifies \cap RegisterOps = {} /\ Stores \cap RegisterOps = {}
BY DEF Branches, StackOps, Reads, Modifies, Stores, RegisterOps

AtCounter(n, w) == [n EXCEPT !.r.pc = w]
AtStack(n, s)   == [n EXCEPT !.r.sp = s]

LEMMA BranchDone ==
  ASSUME NEW part, NEW op \in Branches, NEW mode, NEW m, NEW n, NEW ea
  PROVE  /\ BranchTaken(op, m.r) => Done(part, op, mode, m, n, ea) = AtCounter(n, Low16(n.r.pc + ea.addr))
         /\ ~BranchTaken(op, m.r) => Done(part, op, mode, m, n, ea) = n
<1>1. op \in Branches
  OBVIOUS
<1>. QED BY <1>1, OperationsApart DEF Done, AtCounter, AtStack

LEMMA StackOpDone ==
  ASSUME NEW part, NEW op \in StackOps, NEW mode, NEW m, NEW n, NEW ea
  PROVE  Done(part, op, mode, m, n, ea) = StackOp(part, op, n, ea.addr)
<1>1. op \in StackOps
  OBVIOUS
<1>. QED BY <1>1, OperationsApart DEF Done, AtCounter, AtStack

LEMMA ReadDone ==
  ASSUME NEW part, NEW op \in Reads, NEW mode, NEW m, NEW n, NEW ea
  PROVE  Done(part, op, mode, m, n, ea) = [n EXCEPT !.r = ReadOp(op, n.r, Mem(m, ea.addr))]
<1>1. op \in Reads
  OBVIOUS
<1>. QED BY <1>1, OperationsApart DEF Done, AtCounter, AtStack

LEMMA ModifyDone ==
  ASSUME NEW part, NEW op \in Modifies, NEW mode, NEW m, NEW n, NEW ea
  PROVE  Done(part, op, mode, m, n, ea) = 
           write_byte([n EXCEPT !.r = [ModifyOp(op, m.r, Mem(m, ea.addr)).r EXCEPT !.pc = n.r.pc]],
                      ea.addr, ModifyOp(op, m.r, Mem(m, ea.addr)).m)
<1>1. op \in Modifies
  OBVIOUS
<1>. QED BY <1>1, OperationsApart DEF Done, AtCounter, AtStack

LEMMA StoreDone ==
  ASSUME NEW part, NEW op \in Stores, NEW mode, NEW m, NEW n, NEW ea,
         NEW u, u = StoreValue(op, m.r, ea.base),
         NEW at, at = IF op \in MixedStores THEN (ea.addr % 256) + 256 * u ELSE ea.addr,
         NEW sp, sp = IF op = "tas" THEN 256 + And(m.r.a, m.r.x) ELSE n.r.sp
  PROVE  Done(part, op, mode, m, n, ea) = write_byte(AtStack(n, sp), at, u)
<1>1. op \in Stores
  OBVIOUS
<1>. QED BY <1>1, OperationsApart DEF Done, AtCounter, AtStack

LEMMA RegisterDone ==
  ASSUME NEW part, NEW op \in RegisterOps, NEW mode, NEW m, NEW n, NEW ea
  PROVE  Done(part, op, mode, m, n, ea) = [n EXCEPT !.r = RegisterOp(op, n.r)]
<1>1. op \in RegisterOps
  OBVIOUS
<1>. QED BY <1>1, OperationsApart DEF Done, AtCounter, AtStack

LEMMA VectorsAreWords == NmiVector \in Word /\ IrqVector \in Word /\ ResetVector \in Word
BY WordBounds DEF NmiVector, IrqVector, ResetVector

LEMMA FollowsIsTransitive ==
  ASSUME NEW m, NEW n, NEW s, Follows(m, n), Follows(n, s)
  PROVE  Follows(m, s)
BY DEF Follows

LEMMA BreakIs ==
  ASSUME NEW part, NEW m, IsMachine(m), NEW addr
  PROVE  /\ StackOp(part, "brk", m, addr) =
              EnterHandler(part, [m EXCEPT !.r.pc = Low16(m.r.pc + 1)], IrqVector, TRUE)
         /\ Became(m, [m EXCEPT !.r.pc = Low16(m.r.pc + 1)], [m.r EXCEPT !.pc = Low16(m.r.pc + 1)], m.ram)
         /\ Follows(m, StackOp(part, "brk", m, addr))
<1>1. PICK w \in Word : w = Low16(m.r.pc + 1)
  <2>1. m.r.pc + 1 \in Int
    BY FieldsAre, WordBounds DEF IsMachine
  <2>. QED BY <2>1, LowIs
<1>2. PICK n : n = [m EXCEPT !.r.pc = w]
  OBVIOUS
<1>3. Became(m, n, [m.r EXCEPT !.pc = w], m.ram)
  BY <1>2, CounterSet
<1>4. StackOp(part, "brk", m, addr) = EnterHandler(part, n, IrqVector, TRUE)
  BY <1>1, <1>2 DEF StackOp
<1>5. Follows(n, EnterHandler(part, n, IrqVector, TRUE))
  <2>1. IsMachine(n)
    BY <1>3 DEF Became
  <2>2. /\ IsMachine(EnterHandler(part, n, IrqVector, TRUE))
        /\ EnterHandler(part, n, IrqVector, TRUE).at = n.at
        /\ EnterHandler(part, n, IrqVector, TRUE).instr = n.instr
    <3>1. PICK v \in Word : v = IrqVector
      BY VectorsAreWords
    <3>2. PICK b : b = TRUE
      OBVIOUS
    <3>3. /\ IsMachine(EnterHandler(part, n, v, b))
          /\ EnterHandler(part, n, v, b).at = n.at
          /\ EnterHandler(part, n, v, b).instr = n.instr
      BY <2>1, EnterHandlerIs
    <3>. QED BY <3>1, <3>2, <3>3
  <2>. QED BY <2>2 DEF Follows
<1>. QED BY <1>1, <1>2, <1>3, <1>4, <1>5 DEF Became, Follows

LEMMA DoneFollows ==
  ASSUME NEW part, NEW op \in Operations, NEW mode, NEW m, IsMachine(m), NEW ea, Address(ea)
  PROVE  Follows(m, Done(part, op, mode, m, Advanced(m, mode), ea))
<1>1. PICK n : n = Advanced(m, mode)
  OBVIOUS
<1>2. /\ IsMachine(n) /\ Follows(m, n) /\ n.ram = m.ram /\ n.r.sp = m.r.sp /\ n.r \in Registers
      /\ n.r.pc \in Word
  BY <1>1, AdvancedIs DEF Became, Follows
<1>3. ea.addr \in Word /\ ea.addr \in Int /\ m.r \in Registers /\ m.r.a \in Byte /\ m.r.x \in Byte
  BY FieldsAre, WordBounds DEF Address, IsMachine
<1>4. PICK v \in Byte : v = Mem(m, ea.addr)
  BY <1>3, MemIsByte
<1>5. \A q \in Registers : Follows(n, [n EXCEPT !.r = q]) /\ [n EXCEPT !.r = q].r = q
  BY <1>2, RegistersSet DEF Became, Follows
<1>6. CASE op \in Branches
  <2>1. PICK w \in Word : w = Low16(n.r.pc + ea.addr)
    <3>1. n.r.pc + ea.addr \in Int
      BY <1>2, <1>3, WordBounds
    <3>. QED BY <3>1, LowIs
  <2>2. Follows(n, AtCounter(n, w))
    BY <1>2, CounterSet DEF Became, Follows, AtCounter
  <2>3. Follows(m, AtCounter(n, w))
    BY <1>2, <2>2, FollowsIsTransitive
  <2>4. /\ BranchTaken(op, m.r) => Done(part, op, mode, m, n, ea) = AtCounter(n, w)
        /\ ~BranchTaken(op, m.r) => Done(part, op, mode, m, n, ea) = n
    BY <1>6, <2>1, BranchDone
  <2>. QED BY <1>1, <1>2, <2>3, <2>4
<1>7. CASE op \in StackOps
  <2>1. CASE op = "brk"
    <3>1. Follows(n, StackOp(part, op, n, ea.addr))
      BY <1>2, <2>1, BreakIs
    <3>. QED BY <1>1, <1>2, <1>7, <3>1, StackOpDone, FollowsIsTransitive
  <2>2. CASE op # "brk"
    <3>1. Follows(n, StackOp(part, op, n, ea.addr))
      BY <1>2, <1>3, <1>7, <2>2, StackOpIs
    <3>. QED BY <1>1, <1>2, <1>7, <3>1, StackOpDone, FollowsIsTransitive
  <2>. QED BY <2>1, <2>2
<1>8. CASE op \in Reads
  <2>1. PICK q \in Registers : q = ReadOp(op, n.r, v)
    BY <1>2, <1>8, ReadOpKeeps
  <2>2. Done(part, op, mode, m, n, ea) = [n EXCEPT !.r = q]
    BY <1>4, <1>8, <2>1, ReadDone
  <2>. QED BY <1>1, <1>2, <1>5, <2>2, FollowsIsTransitive
<1>9. CASE op \in Modifies
  <2>1. PICK s : s = ModifyOp(op, m.r, v)
    OBVIOUS
  <2>2. s.r \in Registers /\ s.m \in Byte
    BY <1>3, <1>9, <2>1, ModifyOpKeeps
  <2>3. PICK q \in Registers : q = [s.r EXCEPT !.pc = n.r.pc]
    BY <1>2, <2>2, FieldsSet
  <2>4. PICK t : t = [n EXCEPT !.r = q]
    OBVIOUS
  <2>5. Follows(n, t) /\ IsMachine(t)
    BY <1>5, <2>4 DEF Follows
  <2>6. Follows(t, write_byte(t, ea.addr, s.m))
    BY <1>3, <2>2, <2>5, WriteIs
  <2>7. Done(part, op, mode, m, n, ea) = write_byte(t, ea.addr, s.m)
    <3>1. Done(part, op, mode, m, n, ea) =
            write_byte([n EXCEPT !.r = [ModifyOp(op, m.r, Mem(m, ea.addr)).r EXCEPT !.pc = n.r.pc]],
                       ea.addr, ModifyOp(op, m.r, Mem(m, ea.addr)).m)
      BY <1>9, ModifyDone
    <3>. QED BY <1>4, <2>1, <2>3, <2>4, <3>1
  <2>. QED BY <1>1, <1>2, <2>5, <2>6, <2>7, FollowsIsTransitive
<1>10. CASE op \in Stores
  <2>1. PICK u \in Byte : u = StoreValue(op, m.r, ea.base)
    BY <1>3, <1>10, StoreValueIsByte
  <2>2. PICK at \in Word : at = IF op \in MixedStores THEN (ea.addr % 256) + 256 * u ELSE ea.addr
    <3>1. Low8(ea.addr) \in Byte
      BY <1>3, LowIs
    <3>2. Low8(ea.addr) + 256 * u \in Word
      BY <3>1, WordOf
    <3>. QED BY <1>3, <3>2 DEF Low8
  <2>3. PICK sp \in StackBegin .. StackEnd : sp = IF op = "tas" THEN 256 + And(m.r.a, m.r.x) ELSE n.r.sp
    <3>1. And(m.r.a, m.r.x) \in Int /\ 0 <= And(m.r.a, m.r.x) /\ And(m.r.a, m.r.x) <= 255
      BY MixedIsByte, ByteBounds
    <3>2. PICK k \in Int : k = And(m.r.a, m.r.x)
      BY <3>1
    <3>3. 256 + k \in Int /\ 256 <= 256 + k /\ 256 + k <= 511
      BY <3>1, <3>2
    <3>4. 256 + k \in StackBegin .. StackEnd
      BY <3>3, StackBounds
    <3>5. n.r.sp \in StackBegin .. StackEnd
      BY <1>2, FieldsAre
    <3>. QED BY <3>2, <3>4, <3>5
  <2>4. PICK q \in Registers : q = [n.r EXCEPT !.sp = sp]
    BY <1>2, FieldsSet
  <2>5. PICK t : t = [n EXCEPT !.r.sp = sp]
    OBVIOUS
  <2>6. Follows(n, t) /\ IsMachine(t)
    <3>1. t = [n EXCEPT !.r = q]
      BY <2>4, <2>5
    <3>. QED BY <1>5, <3>1 DEF Follows
  <2>7. Follows(t, write_byte(t, at, u))
    BY <2>6, WriteIs
  <2>8. Done(part, op, mode, m, n, ea) = write_byte(t, at, u)
    <3>1. Done(part, op, mode, m, n, ea) = write_byte(AtStack(n, sp), at, u)
      BY <1>10, <2>1, <2>2, <2>3, StoreDone
    <3>. QED BY <2>5, <3>1 DEF AtStack
  <2>. QED BY <1>1, <1>2, <2>6, <2>7, <2>8, FollowsIsTransitive
<1>11. CASE op \in RegisterOps
  <2>1. PICK q \in Registers : q = RegisterOp(op, n.r)
    BY <1>2, <1>11, RegisterOpKeeps
  <2>2. Done(part, op, mode, m, n, ea) = [n EXCEPT !.r = q]
    BY <1>11, <2>1, RegisterDone
  <2>. QED BY <1>1, <1>2, <1>5, <2>2, FollowsIsTransitive
<1>. QED BY <1>6, <1>7, <1>8, <1>9, <1>10, <1>11 DEF Operations

LEMMA DoneSpares ==
  ASSUME NEW part, NEW op \in Operations, NEW mode, NEW m, IsMachine(m), NEW ea, Address(ea),
         op \notin Modifies \cup Stores \cup {"brk"}
  PROVE  SparesAbove(m, Done(part, op, mode, m, Advanced(m, mode), ea))
<1>1. PICK n : n = Advanced(m, mode)
  OBVIOUS
<1>2. IsMachine(n) /\ n.ram = m.ram /\ n.r.sp = m.r.sp
  BY <1>1, AdvancedIs DEF Became
<1>3. ASSUME NEW s, s.ram = n.ram PROVE SparesAbove(m, s)
  BY <1>2, <1>3 DEF SparesAbove
<1>4. \A q : [n EXCEPT !.r = q].ram = n.ram /\ AtCounter(n, q).ram = n.ram
  BY <1>2 DEF IsMachine, AtCounter
<1>5. CASE op \in Branches
  <2>1. PICK w : w = Low16(n.r.pc + ea.addr)
    OBVIOUS
  <2>2. SparesAbove(m, AtCounter(n, w)) /\ SparesAbove(m, n)
    BY <1>3, <1>4
  <2>. QED BY <1>1, <1>5, <2>1, <2>2, BranchDone
<1>6. CASE op \in StackOps
  <2>1. ea.addr \in Word
    BY DEF Address
  <2>2. SparesAbove(n, StackOp(part, op, n, ea.addr))
    BY <1>2, <1>6, <2>1, StackOpIs
  <2>3. SparesAbove(m, StackOp(part, op, n, ea.addr))
    BY <1>2, <2>2 DEF SparesAbove
  <2>. QED BY <1>1, <1>6, <2>3, StackOpDone
<1>7. CASE op \in Reads
  <2>1. PICK q : q = ReadOp(op, n.r, Mem(m, ea.addr))
    OBVIOUS
  <2>2. Done(part, op, mode, m, n, ea) = [n EXCEPT !.r = q]
    BY <1>7, <2>1, ReadDone
  <2>. QED BY <1>1, <1>3, <1>4, <2>2
<1>8. CASE op \in RegisterOps
  <2>1. PICK q : q = RegisterOp(op, n.r)
    OBVIOUS
  <2>2. Done(part, op, mode, m, n, ea) = [n EXCEPT !.r = q]
    BY <1>8, <2>1, RegisterDone
  <2>. QED BY <1>1, <1>3, <1>4, <2>2
<1>. QED BY <1>5, <1>6, <1>7, <1>8 DEF Operations

(* The processor between two instructions. *)

CpuInv == CpuTypeOK /\ FramesOK(frames)

LEMMA NowIsMachine == ASSUME CpuTypeOK PROVE IsMachine(Now) /\ Now.r = r /\ Now.ram = ram /\ Now.instr = instr
<1>1. r \in Registers /\ HoldsBytes(ram) /\ instr \in Instructions
  BY DEF CpuTypeOK, Instructions
<1>2. r.pc \in Word
  BY <1>1, FieldsAre
<1>. QED BY <1>1, <1>2 DEF IsMachine, Now

LEMMA ExecuteFollows ==
  ASSUME NEW part \in {"nmos", "cmos"}, NEW m, IsMachine(m)
  PROVE  /\ Follows(m, Execute(part, m).m) /\ Execute(part, m).cost \in Nat
         /\ Execute(part, m).op = Opcode[part][m.instr[1]].op /\ Execute(part, m).op \in Operations
         /\ Execute(part, m).op \notin Modifies \cup Stores \cup {"brk"}
              => SparesAbove(m, Execute(part, m).m)
<1>1. PICK op : op = Opcode[part][m.instr[1]].op
  OBVIOUS
<1>2. PICK mode : mode = Opcode[part][m.instr[1]].mode
  OBVIOUS
<1>3. PICK ea : ea = EffectiveAddress(mode, m)
  OBVIOUS
<1>4. /\ op \in Operations /\ mode \in Modes /\ Execute(part, m).op = op /\ Execute(part, m).cost \in Nat
      /\ Execute(part, m).m = Done(part, op, mode, m, Advanced(m, mode), ea)
  BY <1>1, <1>2, <1>3, ExecuteIs
<1>5. Address(ea)
  BY <1>3, <1>4, EffectiveAddressIs
<1>. QED BY <1>1, <1>4, <1>5, DoneFollows, DoneSpares

LEMMA EntryFollows ==
  ASSUME NEW part, NEW m, IsMachine(m), NEW vector \in Word
  PROVE  Follows(m, EnterHandler(part, m, vector, FALSE)) /\ EnterHandler(part, m, vector, FALSE).r.i = 1
<1>1. PICK b : b = FALSE
  OBVIOUS
<1>2. Follows(m, EnterHandler(part, m, vector, b)) /\ EnterHandler(part, m, vector, b).r.i = 1
  BY EnterHandlerIs DEF Follows
<1>. QED BY <1>1, <1>2

LEMMA FrameMade ==
  ASSUME NEW kind \in {"brk", "irq", "nmi"}, NEW q \in Registers
  PROVE  Enter(kind, q) \in Frame /\ Enter(kind, q).above = 0
<1>1. q.pc \in Word /\ Flags(q) \in [FlagNames -> {0, 1}]
  BY FieldsAre, FlagsAre
<1>2. Enter(kind, q) = [kind |-> kind, pc |-> q.pc, ps |-> Flags(q), above |-> 0] /\ 0 \in Nat
  BY DEF Enter
<1>. QED BY <1>1, <1>2 DEF Frame

LEMMA RestartedIs ==
  ASSUME CpuTypeOK, NEW q \in Registers
  PROVE  Restarted(q) \in Registers
<1>1. PICK sp \in StackBegin .. StackEnd : sp = 256 + Low8(q.sp - 3)
  <2>1. q.sp - 3 \in Int
    BY FieldsAre, StackBounds
  <2>2. PICK k \in Int : k = Low8(q.sp - 3) /\ 0 <= k /\ k <= 255
    BY <2>1, LowIs, ByteBounds
  <2>3. 256 + k \in Int /\ 256 <= 256 + k /\ 256 + k <= 511
    BY <2>2
  <2>. QED BY <2>2, <2>3, StackBounds
<1>2. PICK w \in Word : w = MemWord(Now, ResetVector)
  <2>1. ResetVector \in Int
    BY VectorsAreWords, WordBounds
  <2>. QED BY <2>1, NowIsMachine, MemWordIsWord
<1>3. Restarted(q) = [q EXCEPT !.i = 1, !.d = 0, !.sp = sp, !.pc = w]
  BY <1>1, <1>2 DEF Restarted
<1>. QED BY <1>3 DEF Registers

Stepped(x, after, takes, last, served) ==
  /\ r' = last.r /\ ram' = last.ram
  /\ cost' = x.cost + 7 * Flag(flank) + 7 * Flag(takes)
  /\ jammed' = (jammed \/ x.op = "hlt")
  /\ frames' = IF takes THEN Entered(served, Enter("irq", after.r)) ELSE served

(* What one instruction makes of everything, part by part: the instruction, the NMI after it, *)
(* the IRQ after that, and the entries in service at each.                                    *)
Step(x, after, takes, last, own, served) ==
  /\ x = Execute(model, Now)
  /\ after = IF flank THEN EnterHandler(model, x.m, NmiVector, FALSE) ELSE x.m
  /\ takes = (irq # {} /\ after.r.i = 0)
  /\ last = IF takes THEN EnterHandler(model, after, IrqVector, FALSE) ELSE after
  /\ own = IF x.op = "brk" THEN Entered(frames, Enter("brk", [r EXCEPT !.pc = Low16(@ + 2)]))
           ELSE Buried(frames, Pushed(r.sp, x.m.r.sp))
  /\ served = IF flank THEN Entered(own, Enter("nmi", x.m.r)) ELSE own
  /\ Stepped(x, after, takes, last, served)

LEMMA StepTaken ==
  ASSUME ExecuteInstruction
  PROVE  \E x, after, takes, last, own, served : Step(x, after, takes, last, own, served)
<1>1. PICK x \in {Execute(model, Now)} :
      \E after \in {IF flank THEN EnterHandler(model, x.m, NmiVector, FALSE) ELSE x.m} :
      \E takes \in {irq # {} /\ after.r.i = 0} :
      \E last \in {IF takes THEN EnterHandler(model, after, IrqVector, FALSE) ELSE after} :
      \E own \in {IF x.op = "brk" THEN Entered(frames, Enter("brk", [r EXCEPT !.pc = Low16(@ + 2)])) ELSE Buried(frames, Pushed(r.sp, x.m.r.sp))} :
      \E served \in {IF flank THEN Entered(own, Enter("nmi", x.m.r)) ELSE own} :
        Stepped(x, after, takes, last, served)
  BY Zenon DEF ExecuteInstruction, Stepped
<1>2. PICK after \in {IF flank THEN EnterHandler(model, x.m, NmiVector, FALSE) ELSE x.m} :
      \E takes \in {irq # {} /\ after.r.i = 0} :
      \E last \in {IF takes THEN EnterHandler(model, after, IrqVector, FALSE) ELSE after} :
      \E own \in {IF x.op = "brk" THEN Entered(frames, Enter("brk", [r EXCEPT !.pc = Low16(@ + 2)])) ELSE Buried(frames, Pushed(r.sp, x.m.r.sp))} :
      \E served \in {IF flank THEN Entered(own, Enter("nmi", x.m.r)) ELSE own} :
        Stepped(x, after, takes, last, served)
  BY <1>1, Zenon
<1>3. PICK takes \in {irq # {} /\ after.r.i = 0} :
      \E last \in {IF takes THEN EnterHandler(model, after, IrqVector, FALSE) ELSE after} :
      \E own \in {IF x.op = "brk" THEN Entered(frames, Enter("brk", [r EXCEPT !.pc = Low16(@ + 2)])) ELSE Buried(frames, Pushed(r.sp, x.m.r.sp))} :
      \E served \in {IF flank THEN Entered(own, Enter("nmi", x.m.r)) ELSE own} :
        Stepped(x, after, takes, last, served)
  BY <1>2, Zenon
<1>4. PICK last \in {IF takes THEN EnterHandler(model, after, IrqVector, FALSE) ELSE after} :
      \E own \in {IF x.op = "brk" THEN Entered(frames, Enter("brk", [r EXCEPT !.pc = Low16(@ + 2)])) ELSE Buried(frames, Pushed(r.sp, x.m.r.sp))} :
      \E served \in {IF flank THEN Entered(own, Enter("nmi", x.m.r)) ELSE own} :
        Stepped(x, after, takes, last, served)
  BY <1>3, Zenon
<1>5. PICK own \in {IF x.op = "brk" THEN Entered(frames, Enter("brk", [r EXCEPT !.pc = Low16(@ + 2)])) ELSE Buried(frames, Pushed(r.sp, x.m.r.sp))} :
      \E served \in {IF flank THEN Entered(own, Enter("nmi", x.m.r)) ELSE own} :
        Stepped(x, after, takes, last, served)
  BY <1>4, Zenon
<1>6. PICK served \in {IF flank THEN Entered(own, Enter("nmi", x.m.r)) ELSE own} :
        Stepped(x, after, takes, last, served)
  BY <1>5, Zenon
<1>7. /\ x = Execute(model, Now)
      /\ after = IF flank THEN EnterHandler(model, x.m, NmiVector, FALSE) ELSE x.m
      /\ takes = (irq # {} /\ after.r.i = 0)
      /\ last = IF takes THEN EnterHandler(model, after, IrqVector, FALSE) ELSE after
  BY <1>1, <1>2, <1>3, <1>4, Zenon
<1>8. /\ own = IF x.op = "brk" THEN Entered(frames, Enter("brk", [r EXCEPT !.pc = Low16(@ + 2)]))
              ELSE Buried(frames, Pushed(r.sp, x.m.r.sp))
      /\ served = IF flank THEN Entered(own, Enter("nmi", x.m.r)) ELSE own
  BY <1>5, <1>6, Zenon
<1>9. Step(x, after, takes, last, own, served)
  BY <1>6, <1>7, <1>8, Zenon DEF Step
<1>. QED BY <1>9

LEMMA InstructionKeeps ==
  ASSUME CpuInv, ExecuteInstruction
  PROVE  CpuInv'
<1>1. /\ model \in {"nmos", "cmos"} /\ r \in Registers /\ HoldsBytes(ram) /\ instr \in program
      /\ program \subseteq Byte \X Byte \X Byte /\ budget \in Nat /\ FramesOK(frames)
  BY DEF CpuInv, CpuTypeOK
<1>2. PICK x, after, takes, last, own, served : Step(x, after, takes, last, own, served)
  BY StepTaken
<1>3. IsMachine(Now) /\ Now.r = r
  BY NowIsMachine DEF CpuInv
<1>4. IsMachine(x.m) /\ x.cost \in Nat
  BY <1>1, <1>2, <1>3, ExecuteFollows DEF Follows, Step
<1>5. IsMachine(after)
  BY <1>2, <1>4, EntryFollows, VectorsAreWords DEF Follows, Step
<1>6. IsMachine(last)
  BY <1>2, <1>5, EntryFollows, VectorsAreWords DEF Follows, Step
<1>7. r' \in Registers /\ HoldsBytes(ram')
  BY <1>2, <1>6 DEF IsMachine, Step, Stepped
<1>8. FramesOK(own)
  <2>1. CASE x.op = "brk"
    <3>1. PICK q \in Registers : q = [r EXCEPT !.pc = Low16(@ + 2)]
      <4>1. r.pc + 2 \in Int
        BY <1>1, FieldsAre, WordBounds
      <4>2. Low16(r.pc + 2) \in Word
        BY <4>1, LowIs
      <4>. QED BY <1>1, <4>2, FieldsSet
    <3>2. own = Entered(frames, Enter("brk", q))
      BY <1>2, <2>1, <3>1 DEF Step, Stepped
    <3>. QED BY <1>1, <3>2, FrameMade, EnteredIs
  <2>2. CASE x.op # "brk"
    <3>1. own = Buried(frames, Pushed(r.sp, x.m.r.sp))
      BY <1>2, <2>2 DEF Step, Stepped
    <3>2. Pushed(r.sp, x.m.r.sp) \in Int
      BY <1>1, <1>4, FieldsAre, PushedIs DEF IsMachine
    <3>. QED BY <1>1, <3>1, <3>2, BuriedIs
  <2>. QED BY <2>1, <2>2
<1>9. FramesOK(served)
  <2>1. Enter("nmi", x.m.r) \in Frame /\ Enter("nmi", x.m.r).above = 0
    BY <1>4, FrameMade DEF IsMachine
  <2>. QED BY <1>2, <1>8, <2>1, EnteredIs DEF Step, Stepped
<1>10. FramesOK(frames')
  <2>1. Enter("irq", after.r) \in Frame /\ Enter("irq", after.r).above = 0
    BY <1>5, FrameMade DEF IsMachine
  <2>. QED BY <1>2, <1>9, <2>1, EnteredIs DEF Step, Stepped
<1>11. cost' \in Nat
  <2>1. PICK f \in {0, 1} : f = Flag(flank)
    BY FlagIs
  <2>2. PICK g \in {0, 1} : g = Flag(takes)
    BY FlagIs
  <2>3. cost' = x.cost + 7 * f + 7 * g
    BY <1>2, <2>1, <2>2, Zenon DEF Step, Stepped
  <2>. QED BY <1>4, <2>1, <2>2, <2>3
<1>12. instr' \in program /\ budget' \in Nat /\ flank' \in BOOLEAN /\ jammed' \in BOOLEAN
  <2>1. instr' \in program /\ budget' \in Nat /\ flank' \in BOOLEAN
    <3>1. budget > 0 /\ flank' = FALSE /\ budget' = budget - 1
      BY Zenon DEF ExecuteInstruction
    <3>2. instr' \in IF budget = 1 THEN {instr} ELSE program
      BY Zenon DEF ExecuteInstruction
    <3>3. instr' \in program /\ budget' \in Nat
      BY <1>1, <3>1, <3>2
    <3>. QED BY <3>1, <3>3, Zenon
  <2>2. jammed' \in BOOLEAN
    BY <1>2, Zenon DEF Step, Stepped
  <2>. QED BY <2>1, <2>2
<1>13. \A k \in DOMAIN frames' : frames'[k].kind \in {"brk", "irq", "nmi"} /\ frames'[k].above \in Nat
  BY <1>10, FramesAre DEF Frame
<1>14. UNCHANGED <<model, program, events, irq, nmi>>
  BY DEF ExecuteInstruction
<1>15. CpuTypeOK'
  BY <1>1, <1>7, <1>11, <1>12, <1>13, <1>14 DEF CpuTypeOK, CpuInv
<1>. QED BY <1>10, <1>15 DEF CpuInv

LEMMA LinesKeep ==
  ASSUME CpuInv, NEW device \in Devices,
         cpu_irq_assert(device) \/ cpu_irq_deassert(device) \/ cpu_nmi_assert(device) \/ cpu_nmi_deassert(device)
  PROVE  CpuInv'
<1>1. UNCHANGED <<model, r, ram, instr, program, budget, cost, jammed, frames>>
  BY DEF cpu_irq_assert, cpu_irq_deassert, cpu_nmi_assert, cpu_nmi_deassert
<1>2. events' \in Nat
  BY DEF CpuInv, CpuTypeOK, cpu_irq_assert, cpu_irq_deassert, cpu_nmi_assert, cpu_nmi_deassert, Between
<1>3. irq' \subseteq Devices /\ nmi' \subseteq Devices
  BY DEF CpuInv, CpuTypeOK, cpu_irq_assert, cpu_irq_deassert, cpu_nmi_assert, cpu_nmi_deassert
<1>4. flank' \in BOOLEAN
  BY Zenon DEF CpuInv, CpuTypeOK, cpu_irq_assert, cpu_irq_deassert, cpu_nmi_assert, cpu_nmi_deassert
<1>. QED BY <1>1, <1>2, <1>3, <1>4 DEF CpuInv, CpuTypeOK

LEMMA NoFrames == FramesOK(<< >>) /\ DOMAIN << >> = {}
BY DEF FramesOK, Spaced

LEMMA RestartsKeep ==
  ASSUME CpuInv, cpu_reset \/ cpu_initialize \/ cpu_set_snapshot
  PROVE  CpuInv'
<1>1. UNCHANGED <<model, ram, instr, program, budget, cost>> /\ frames' = << >>
  BY DEF cpu_reset, cpu_initialize, cpu_set_snapshot
<1>2. events' \in Nat
  BY DEF CpuInv, CpuTypeOK, cpu_reset, cpu_initialize, cpu_set_snapshot, Between
<1>3. irq' \subseteq Devices /\ nmi' \subseteq Devices
  BY DEF CpuInv, CpuTypeOK, cpu_reset, cpu_initialize, cpu_set_snapshot
<1>4. flank' \in BOOLEAN /\ jammed' \in BOOLEAN
  BY Zenon DEF CpuInv, CpuTypeOK, cpu_reset, cpu_initialize, cpu_set_snapshot
<1>5. CpuTypeOK /\ r \in Registers
  BY DEF CpuInv, CpuTypeOK
<1>6. r' \in Registers
  <2>1. CASE cpu_reset
    BY <1>5, <2>1, RestartedIs DEF cpu_reset
  <2>2. CASE cpu_initialize
    <3>1. PICK q : q = [a |-> 255, x |-> 255, y |-> 255, sp |-> StackEnd, pc |-> r.pc,
                        c |-> 1, z |-> 1, n |-> 1, v |-> 1, d |-> 1, i |-> 1]
      OBVIOUS
    <3>2. q \in Registers
      <4>1. 255 \in Byte /\ StackEnd \in StackBegin .. StackEnd /\ r.pc \in Word
        BY <1>5, FieldsAre, ByteBounds, StackBounds DEF StackEnd
      <4>. QED BY <3>1, <4>1 DEF Registers
    <3>3. r' = Restarted(q)
      BY <2>2, <3>1 DEF cpu_initialize
    <3>. QED BY <1>5, <3>2, <3>3, RestartedIs
  <2>3. CASE cpu_set_snapshot
    BY <2>3, CpuAssumption DEF cpu_set_snapshot
  <2>. QED BY <2>1, <2>2, <2>3
<1>7. FramesOK(frames') /\ DOMAIN frames' = {}
  BY <1>1, NoFrames
<1>8. CpuTypeOK'
  BY <1>1, <1>2, <1>3, <1>4, <1>5, <1>6, <1>7 DEF CpuTypeOK
<1>. QED BY <1>7, <1>8 DEF CpuInv

LEMMA CpuStarts == ASSUME Init PROVE CpuInv
<1>1. PICK s \in Starts :
        /\ model = s.model /\ r = s.r /\ ram = s.ram /\ program = s.program
        /\ budget = s.budget /\ events = s.events
        /\ instr \in s.program
  BY DEF Init
<1>2. /\ s.model \in {"nmos", "cmos"} /\ s.r \in Registers /\ HoldsBytes(s.ram)
      /\ s.program \subseteq Byte \X Byte \X Byte
      /\ s.budget \in Nat /\ s.events \in Nat
  BY CpuAssumption
<1>3. cost = 0 /\ jammed = FALSE /\ irq = {} /\ nmi = {} /\ flank = FALSE /\ frames = << >>
  BY DEF Init
<1>4. FramesOK(frames) /\ DOMAIN frames = {}
  BY <1>3, NoFrames
<1>. QED BY <1>1, <1>2, <1>3, <1>4 DEF CpuInv, CpuTypeOK

LEMMA CpuSteps == ASSUME CpuInv, [Next]_vars PROVE CpuInv'
<1>1. CASE ExecuteInstruction
  BY <1>1, InstructionKeeps
<1>2. CASE \E device \in Devices :
             \/ cpu_irq_assert(device) \/ cpu_irq_deassert(device)
             \/ cpu_nmi_assert(device) \/ cpu_nmi_deassert(device)
  BY <1>2, LinesKeep
<1>3. CASE cpu_reset \/ cpu_initialize \/ cpu_set_snapshot
  BY <1>3, RestartsKeep
<1>4. CASE UNCHANGED vars
  BY <1>4 DEF vars, CpuInv, CpuTypeOK
<1>. QED BY <1>1, <1>2, <1>3, <1>4 DEF Next

(* For any programs and interrupts the loop of CPU.cpp keeps its registers in their widths, *)
(* the stack pointer in the stack page and memory in bytes; and the entries in service are  *)
(* the innermost first, each with the three bytes its entry pushed to itself                *)
(* (internal_cpu_execute, check_nmi, check_irq).                                            *)
THEOREM CpuIsInductive == Spec => [](CpuTypeOK /\ FramesOK(frames))
<1>1. Init => CpuInv
  BY CpuStarts
<1>2. CpuInv /\ [Next]_vars => CpuInv'
  BY CpuSteps
<1>3. CpuInv <=> CpuTypeOK /\ FramesOK(frames)
  BY DEF CpuInv
<1>. QED BY <1>1, <1>2, <1>3, PTL DEF Spec

(* Nothing else writes over the entries in service: the stack does not run into them from  *)
(* below, and no instruction that writes memory writes there.                              *)
StackIsSpared ==
  \A k \in DOMAIN frames :
    /\ frames[k].above <= 240
    /\ budget > 0 /\ Opcode[model][instr[1]].op \in Modifies \cup Stores
         => SlotsAgree(frames[k], r.sp, ram, Execute(model, Now).m.ram)
Shallow(fs) == \A k \in DOMAIN fs : fs[k].above <= 240

LEMMA EnteredDeeper ==
  ASSUME NEW fs, FramesOK(fs), NEW f \in Frame, f.above = 0, Shallow(Entered(fs, f))
  PROVE  Shallow(fs)
<1>1. SUFFICES ASSUME NEW k \in DOMAIN fs PROVE fs[k].above <= 240
  BY DEF Shallow
<1>2. Entered(fs, f)[k + 1] = Deeper(fs[k], 3) /\ FramesOK(Entered(fs, f)) /\ Len(Entered(fs, f)) = Len(fs) + 1
  BY EnteredIs
<1>3. k + 1 \in DOMAIN Entered(fs, f)
  BY <1>2, FramesAre
<1>4. Entered(fs, f)[k + 1].above <= 240
  BY <1>3 DEF Shallow
<1>5. Deeper(fs[k], 3).above = fs[k].above + 3 /\ fs[k].above \in Nat
  BY FramesAre, FrameMoved
<1>. QED BY <1>2, <1>4, <1>5

LEMMA EntryHolds ==
  ASSUME NEW m, IsMachine(m), NEW fs, FramesOK(fs), FramesKept(fs, m.r.sp, m.ram),
         NEW kind \in {"irq", "nmi"}, NEW part, NEW vector \in Word, Shallow(Entered(fs, Enter(kind, m.r)))
  PROVE  /\ FramesKept(Entered(fs, Enter(kind, m.r)), EnterHandler(part, m, vector, FALSE).r.sp,
                       EnterHandler(part, m, vector, FALSE).ram)
         /\ Shallow(fs)
<1>1. Enter(kind, m.r) \in Frame /\ Enter(kind, m.r).above = 0
  BY FrameMade DEF IsMachine
<1>2. Shallow(fs)
  BY <1>1, EnteredDeeper
<1>3. PICK b : b = FALSE
  OBVIOUS
<1>4. PICK s : s = EnterHandler(part, m, vector, b)
  OBVIOUS
<1>5. FramesKept(Entered(fs, Enter(kind, m.r)), s.r.sp, s.ram)
  <2>1. (b /\ kind = "brk") \/ (~b /\ kind # "brk")
    BY <1>3
  <2>. QED BY <1>2, <1>4, <2>1, HandlerEntered DEF Shallow
<1>. QED BY <1>2, <1>3, <1>4, <1>5

LEMMA BreakEnters ==
  ASSUME NEW part, NEW m, IsMachine(m), NEW addr
  PROVE  /\ StackOp(part, "brk", m, addr) = EnterHandler(part, AtCounter(m, Low16(m.r.pc + 1)), IrqVector, TRUE)
         /\ Became(m, AtCounter(m, Low16(m.r.pc + 1)), [m.r EXCEPT !.pc = Low16(m.r.pc + 1)], m.ram)
BY BreakIs, Zenon DEF AtCounter

LEMMA BreakEntered ==
  ASSUME CpuInv, Opcode[model][instr[1]].op = "brk", FramesKept(frames, r.sp, ram), Shallow(frames)
  PROVE  FramesKept(Entered(frames, Enter("brk", [r EXCEPT !.pc = Low16(@ + 2)])),
                    Execute(model, Now).m.r.sp, Execute(model, Now).m.ram)
<1>1. /\ IsMachine(Now) /\ Now.r = r /\ Now.ram = ram /\ Now.instr = instr /\ model \in {"nmos", "cmos"}
      /\ r \in Registers /\ FramesOK(frames)
  BY NowIsMachine DEF CpuInv, CpuTypeOK
<1>2. PICK mode : mode = Opcode[model][instr[1]].mode
  OBVIOUS
<1>3. PICK ea : ea = EffectiveAddress(mode, Now)
  OBVIOUS
<1>4. PICK n : n = Advanced(Now, mode)
  OBVIOUS
<1>5. mode = "none"
  <2>1. instr[1] \in Byte
    BY <1>1, InstructionBytes DEF IsMachine
  <2>. QED BY <1>1, <1>2, <2>1, OpcodeIsKnown DEF Known
<1>6. Execute(model, Now).m = Done(model, "brk", mode, Now, n, ea)
  BY <1>1, <1>2, <1>3, <1>4, ExecuteIs
<1>7. Done(model, "brk", mode, Now, n, ea) = StackOp(model, "brk", n, ea.addr)
  BY StackOpDone DEF StackOps
<1>8. IsMachine(n) /\ n.r = [r EXCEPT !.pc = Low16(r.pc + 1)] /\ n.ram = ram
  <2>1. OperandBytes(mode) = 0
    BY <1>5 DEF OperandBytes
  <2>2. r.pc + 1 + 0 = r.pc + 1
    BY <1>1, FieldsAre, WordBounds
  <2>. QED BY <1>1, <1>4, <2>1, <2>2, AdvancedIs DEF Became
<1>9. PICK t : t = AtCounter(n, Low16(n.r.pc + 1))
  OBVIOUS
<1>10. /\ StackOp(model, "brk", n, ea.addr) = EnterHandler(model, t, IrqVector, TRUE)
       /\ IsMachine(t) /\ t.r = [n.r EXCEPT !.pc = Low16(n.r.pc + 1)] /\ t.ram = n.ram
  <2>1. StackOp(model, "brk", n, ea.addr) = EnterHandler(model, t, IrqVector, TRUE)
    BY <1>8, <1>9, BreakEnters, Zenon
  <2>2. Became(n, t, [n.r EXCEPT !.pc = Low16(n.r.pc + 1)], n.ram)
    BY <1>8, <1>9, BreakEnters, Zenon
  <2>. QED BY <2>1, <2>2 DEF Became
<1>11. t.r = [r EXCEPT !.pc = Low16(@ + 2)]
  <2>1. PICK k \in Int : k = r.pc
    BY <1>1, FieldsAre, WordBounds
  <2>2. Low16(Low16(k + 1) + 1) = Low16(k + 2)
    BY <2>1 DEF Low16
  <2>3. n.r.pc = Low16(k + 1)
    BY <1>1, <1>8, <2>1 DEF Registers
  <2>. QED BY <1>1, <1>8, <1>10, <2>1, <2>2, <2>3 DEF Registers
<1>12. t.r.sp = r.sp
  BY <1>1, <1>11 DEF Registers
<1>13. PICK b : b = TRUE
  OBVIOUS
<1>14. PICK s : s = EnterHandler(model, t, IrqVector, b)
  OBVIOUS
<1>15. FramesKept(Entered(frames, Enter("brk", t.r)), s.r.sp, s.ram)
  <2>1. PICK kind \in {"brk", "irq", "nmi"} : kind = "brk"
    OBVIOUS
  <2>2. (b /\ kind = "brk") \/ (~b /\ kind # "brk")
    BY <1>13, <2>1
  <2>3. FramesKept(frames, t.r.sp, t.ram)
    BY <1>8, <1>10, <1>12
  <2>4. IrqVector \in Word
    BY VectorsAreWords
  <2>5. FramesKept(Entered(frames, Enter(kind, t.r)), s.r.sp, s.ram)
    BY <1>1, <1>10, <1>14, <2>2, <2>3, <2>4, HandlerEntered DEF Shallow
  <2>. QED BY <2>1, <2>5
<1>16. Execute(model, Now).m = s
  BY <1>6, <1>7, <1>10, <1>13, <1>14
<1>. QED BY <1>11, <1>15, <1>16

LEMMA OthersBury ==
  ASSUME CpuInv, budget > 0, Opcode[model][instr[1]].op # "brk", FramesKept(frames, r.sp, ram), StackIsSpared
  PROVE  FramesKept(Buried(frames, Pushed(r.sp, Execute(model, Now).m.r.sp)),
                    Execute(model, Now).m.r.sp, Execute(model, Now).m.ram)
<1>1. /\ IsMachine(Now) /\ Now.r = r /\ Now.ram = ram /\ Now.instr = instr /\ model \in {"nmos", "cmos"}
      /\ r \in Registers /\ FramesOK(frames)
  BY NowIsMachine DEF CpuInv, CpuTypeOK
<1>2. PICK s : s = Execute(model, Now).m
  OBVIOUS
<1>3. PICK op : op = Opcode[model][instr[1]].op
  OBVIOUS
<1>4. IsMachine(s) /\ (op \notin Modifies \cup Stores => SparesAbove(Now, s))
  BY <1>1, <1>2, <1>3, ExecuteFollows DEF Follows
<1>5. r.sp \in StackBegin .. StackEnd /\ s.r.sp \in StackBegin .. StackEnd
  BY <1>1, <1>4, FieldsAre DEF IsMachine
<1>6. ASSUME NEW k \in DOMAIN frames PROVE SlotsAgree(frames[k], r.sp, ram, s.ram)
  <2>1. CASE op \in Modifies \cup Stores
    BY <1>2, <1>3, <2>1 DEF StackIsSpared
  <2>2. CASE op \notin Modifies \cup Stores
    <3>1. frames[k].above <= 240
      BY DEF StackIsSpared
    <3>2. frames[k] \in Frame
      BY <1>1, FramesAre
    <3>3. SlotsHold(frames[k], r.sp, ram)
      BY DEF FramesKept
    <3>4. \A b \in DOMAIN ram : b \notin {Above(r.sp, 0), Above(r.sp, -1), Above(r.sp, -2)}
            => b \in DOMAIN s.ram /\ s.ram[b] = ram[b]
      BY <1>1, <1>4, <2>2 DEF SparesAbove
    <3>. QED BY <1>5, <3>1, <3>2, <3>3, <3>4, SlotsUntouched
  <2>. QED BY <2>1, <2>2
<1>. QED BY <1>1, <1>2, <1>5, <1>6, FramesMoved

LEMMA InstructionKeepsFrames ==
  ASSUME CpuInv, FramesKept(frames, r.sp, ram), StackIsSpared, Shallow(frames'), ExecuteInstruction
  PROVE  FramesKept(frames', r'.sp, ram')
<1>1. /\ model \in {"nmos", "cmos"} /\ r \in Registers /\ FramesOK(frames) /\ Shallow(frames)
      /\ IsMachine(Now) /\ Now.r = r /\ Now.instr = instr
  BY NowIsMachine DEF CpuInv, CpuTypeOK, StackIsSpared, Shallow
<1>2. PICK x, after, takes, last, own, served : Step(x, after, takes, last, own, served)
  BY StepTaken
<1>3. /\ x = Execute(model, Now)
      /\ flank => after = EnterHandler(model, x.m, NmiVector, FALSE) /\ served = Entered(own, Enter("nmi", x.m.r))
      /\ ~flank => after = x.m /\ served = own
  BY <1>2, Zenon DEF Step
<1>4. /\ takes => last = EnterHandler(model, after, IrqVector, FALSE) /\ frames' = Entered(served, Enter("irq", after.r))
      /\ ~takes => last = after /\ frames' = served
      /\ r' = last.r /\ ram' = last.ram
  BY <1>2, Zenon DEF Step, Stepped
<1>5. /\ x.op = "brk" => own = Entered(frames, Enter("brk", [r EXCEPT !.pc = Low16(@ + 2)]))
      /\ x.op # "brk" => own = Buried(frames, Pushed(r.sp, x.m.r.sp))
  BY <1>2, Zenon DEF Step
<1>6. IsMachine(x.m) /\ x.op = Opcode[model][instr[1]].op
  BY <1>1, <1>3, ExecuteFollows DEF Follows
<1>7. IsMachine(after)
  BY <1>3, <1>6, EntryFollows, VectorsAreWords DEF Follows
<1>8. FramesOK(own) /\ FramesKept(own, x.m.r.sp, x.m.ram)
  <2>1. CASE x.op = "brk"
    <3>1. FramesKept(own, x.m.r.sp, x.m.ram)
      BY <1>1, <1>3, <1>5, <1>6, <2>1, BreakEntered
    <3>2. PICK q \in Registers : q = [r EXCEPT !.pc = Low16(@ + 2)]
      <4>1. r.pc + 2 \in Int
        BY <1>1, FieldsAre, WordBounds
      <4>2. Low16(r.pc + 2) \in Word
        BY <4>1, LowIs
      <4>. QED BY <1>1, <4>2, FieldsSet
    <3>3. FramesOK(own)
      BY <1>1, <1>5, <2>1, <3>2, FrameMade, EnteredIs
    <3>. QED BY <3>1, <3>3
  <2>2. CASE x.op # "brk"
    <3>1. FramesKept(own, x.m.r.sp, x.m.ram)
      BY <1>3, <1>5, <1>6, <2>2, OthersBury DEF ExecuteInstruction
    <3>2. Pushed(r.sp, x.m.r.sp) \in Int
      BY <1>1, <1>6, FieldsAre, PushedIs DEF IsMachine
    <3>. QED BY <1>1, <1>5, <2>2, <3>1, <3>2, BuriedIs
  <2>. QED BY <2>1, <2>2
<1>9. FramesOK(served)
  <2>1. Enter("nmi", x.m.r) \in Frame /\ Enter("nmi", x.m.r).above = 0
    BY <1>6, FrameMade DEF IsMachine
  <2>. QED BY <1>3, <1>8, <2>1, EnteredIs
<1>10. Shallow(served)
  <2>1. Enter("irq", after.r) \in Frame /\ Enter("irq", after.r).above = 0
    BY <1>7, FrameMade DEF IsMachine
  <2>. QED BY <1>4, <1>9, <2>1, EnteredDeeper
<1>11. FramesKept(served, after.r.sp, after.ram)
  <2>1. CASE flank
    BY ZenonT(60), <1>3, <1>6, <1>8, <1>10, <2>1, EntryHolds, VectorsAreWords
  <2>2. CASE ~flank
    BY <1>3, <1>8, <2>2
  <2>. QED BY <2>1, <2>2
<1>12. CASE takes
  BY <1>4, <1>7, <1>9, <1>11, <1>12, EntryHolds, VectorsAreWords
<1>13. CASE ~takes
  BY <1>4, <1>11, <1>13
<1>. QED BY <1>12, <1>13

CpuKept == CpuInv /\ FramesKept(frames, r.sp, ram)

LEMMA KeptStarts == ASSUME Init PROVE CpuKept
<1>1. frames = << >>
  BY DEF Init
<1>. QED BY <1>1, CpuStarts, NoFrames DEF CpuKept, FramesKept

LEMMA KeptSteps == ASSUME CpuKept, StackIsSpared, StackIsSpared', [Next]_vars PROVE CpuKept'
<1>1. CpuInv'
  BY CpuSteps DEF CpuKept
<1>2. Shallow(frames')
  BY DEF StackIsSpared, Shallow
<1>3. CASE ExecuteInstruction
  BY <1>1, <1>2, <1>3, InstructionKeepsFrames DEF CpuKept
<1>4. CASE \E device \in Devices :
             \/ cpu_irq_assert(device) \/ cpu_irq_deassert(device)
             \/ cpu_nmi_assert(device) \/ cpu_nmi_deassert(device)
  <2>1. UNCHANGED <<r, ram, frames>>
    BY <1>4 DEF cpu_irq_assert, cpu_irq_deassert, cpu_nmi_assert, cpu_nmi_deassert
  <2>. QED BY <1>1, <2>1 DEF CpuKept
<1>5. CASE cpu_reset \/ cpu_initialize \/ cpu_set_snapshot
  <2>1. frames' = << >>
    BY <1>5 DEF cpu_reset, cpu_initialize, cpu_set_snapshot
  <2>. QED BY <1>1, <2>1, NoFrames DEF CpuKept, FramesKept
<1>6. CASE UNCHANGED vars
  BY <1>1, <1>6 DEF vars, CpuKept
<1>. QED BY <1>3, <1>4, <1>5, <1>6 DEF Next

LEMMA KeptHolds == ASSUME CpuKept PROVE FramesHoldTheReturn
<1>1. r \in Registers /\ HoldsBytes(ram) /\ FramesKept(frames, r.sp, ram) /\ FramesOK(frames)
  BY DEF CpuKept, CpuInv, CpuTypeOK
<1>2. SUFFICES ASSUME NEW k \in DOMAIN frames
               PROVE  /\ ram[Above(r.sp, frames[k].above + 2)] + 256 * ram[Above(r.sp, frames[k].above + 3)]
                           = frames[k].pc
                      /\ Flags(unpack_ps(r, ram[Above(r.sp, frames[k].above + 1)])) = frames[k].ps
                      /\ (Bit(ram[Above(r.sp, frames[k].above + 1)], 16) = 1) <=> (frames[k].kind = "brk")
  BY DEF FramesHoldTheReturn
<1>3. SlotsHold(frames[k], r.sp, ram)
  BY <1>1 DEF FramesKept
<1>4. ram[Above(r.sp, frames[k].above + 1)] \in Byte
  BY <1>1, <1>3 DEF SlotsHold, HoldsBytes
<1>5. Flags(unpack_ps(r, ram[Above(r.sp, frames[k].above + 1)]))
        = FlagsOf(ram[Above(r.sp, frames[k].above + 1)])
  BY <1>1, <1>4, UnpackedIs
<1>. QED BY <1>3, <1>5 DEF SlotsHold

(* While nothing else writes over them, each entry to a handler finds on the stack the flags *)
(* and the address it was entered with (check_irq, check_nmi, op_brk), however deep handlers  *)
(* nest, also where the stack wraps in its page.                                              *)
THEOREM ReturnsAreKept == Spec /\ []StackIsSpared => []FramesHoldTheReturn
<1>1. Init => CpuKept
  BY KeptStarts
<1>2. CpuKept /\ StackIsSpared /\ StackIsSpared' /\ [Next]_vars => CpuKept'
  BY KeptSteps
<1>3. CpuKept => FramesHoldTheReturn
  BY KeptHolds
<1>. QED BY <1>1, <1>2, <1>3, PTL DEF Spec

LEMMA MemHeld ==
  ASSUME NEW m, NEW addr \in DOMAIN m.ram
  PROVE  Mem(m, addr) = m.ram[addr]
BY DEF Mem

LEMMA ReturnTaken ==
  ASSUME CpuKept, Opcode[model][instr[1]].op = "rti", frames # << >>, frames[1].above = 0
  PROVE  /\ Execute(model, Now).m.r.sp = Above(r.sp, 3)
         /\ Execute(model, Now).m.r.pc = frames[1].pc
         /\ Flags(Execute(model, Now).m.r) = frames[1].ps
<1>1. /\ IsMachine(Now) /\ Now.r = r /\ Now.ram = ram /\ Now.instr = instr /\ model \in {"nmos", "cmos"}
      /\ r \in Registers /\ FramesOK(frames) /\ FramesKept(frames, r.sp, ram)
  BY NowIsMachine DEF CpuKept, CpuInv, CpuTypeOK
<1>2. PICK mode : mode = Opcode[model][instr[1]].mode
  OBVIOUS
<1>3. PICK ea : ea = EffectiveAddress(mode, Now)
  OBVIOUS
<1>4. PICK n : n = Advanced(Now, mode)
  OBVIOUS
<1>5. PICK s : s = StackOp(model, "rti", n, ea.addr)
  OBVIOUS
<1>6. Execute(model, Now).m = s
  <2>1. Execute(model, Now).m = Done(model, "rti", mode, Now, n, ea)
    BY <1>1, <1>2, <1>3, <1>4, ExecuteIs
  <2>2. Done(model, "rti", mode, Now, n, ea) = s
    BY <1>5, StackOpDone DEF StackOps
  <2>. QED BY <2>1, <2>2
<1>7. IsMachine(n) /\ n.ram = ram /\ n.r.sp = r.sp
  BY <1>1, <1>4, AdvancedIs DEF Became
<1>8. PICK sp \in StackBegin .. StackEnd : sp = r.sp
  BY <1>1, FieldsAre
<1>9. /\ s.r.sp = Above(sp, 3) /\ Flags(s.r) = FlagsOf(Mem(n, Above(sp, 1)))
      /\ s.r.pc = Mem(n, Above(sp, 2)) + 256 * Mem(n, Above(sp, 3))
  BY <1>5, <1>7, <1>8, ReturnIs
<1>10. /\ Above(sp, 1) \in DOMAIN ram /\ Above(sp, 2) \in DOMAIN ram /\ Above(sp, 3) \in DOMAIN ram
       /\ ram[Above(sp, 2)] + 256 * ram[Above(sp, 3)] = frames[1].pc
       /\ FlagsOf(ram[Above(sp, 1)]) = frames[1].ps
  <2>1. 1 \in DOMAIN frames
    BY <1>1, FramesAre
  <2>2. SlotsHold(frames[1], sp, ram)
    BY <1>1, <1>8, <2>1 DEF FramesKept
  <2>3. \A k \in {1, 2, 3} : frames[1].above + k = k
    OBVIOUS
  <2>. QED BY <2>2, <2>3 DEF SlotsHold
<1>11. Mem(n, Above(sp, 1)) = ram[Above(sp, 1)] /\ Mem(n, Above(sp, 2)) = ram[Above(sp, 2)]
       /\ Mem(n, Above(sp, 3)) = ram[Above(sp, 3)]
  BY <1>7, <1>10, MemHeld
<1>. QED BY <1>6, <1>8, <1>9, <1>10, <1>11

LEMMA TopPopped ==
  ASSUME NEW fs, FramesOK(fs), fs # << >>, fs[1].above = 0, NEW b \in Int, b + 3 = 0
  PROVE  Len(Buried(fs, b)) = Len(fs) - 1
<1>1. PICK g \in 0 .. Len(fs) :
        /\ Len(Buried(fs, b)) = Len(fs) - g
        /\ \A k \in 1 .. g : fs[k].above + b < 0
        /\ \A k \in 1 .. Len(fs) - g : k + g \in DOMAIN fs /\ fs[k + g].above + b >= 0
  <2>1. \E g \in 0 .. Len(fs) :
          /\ Len(Buried(fs, b)) = Len(fs) - g
          /\ \A k \in 1 .. g : fs[k].above + b < 0
          /\ \A k \in 1 .. Len(fs) - g :
               /\ Buried(fs, b)[k] = Deeper(fs[k + g], b)
               /\ k + g \in DOMAIN fs /\ fs[k + g].above + b >= 0
    BY BuriedIs
  <2>. QED BY <2>1
<1>2. Len(fs) \in Nat /\ DOMAIN fs = 1 .. Len(fs) /\ fs[1].above \in Nat
  BY FramesAre
<1>3. 1 \in DOMAIN fs /\ Len(fs) >= 1
  BY <1>2
<1>4. g # 0
  BY <1>1, <1>2, <1>3
<1>5. ~ (2 <= g)
  <2>1. SUFFICES ASSUME 2 <= g PROVE FALSE
    OBVIOUS
  <2>2. 2 \in DOMAIN fs /\ fs[2].above + b < 0
    BY <1>1, <1>2, <2>1
  <2>3. fs[2].above \in Nat
    BY <2>2, FramesAre
  <2>4. fs[1].above + 3 <= fs[2].above
    BY <1>3, <2>2 DEF FramesOK, Spaced
  <2>. QED BY <2>2, <2>3, <2>4
<1>6. g = 1
  BY <1>1, <1>4, <1>5
<1>. QED BY <1>1, <1>6

LEMMA ReturnLeads ==
  ASSUME CpuKept, ExecuteInstruction,
         Opcode[model][instr[1]].op = "rti", frames # << >>, frames[1].above = 0
  PROVE  IF Len(frames') = Len(frames)
         THEN frames'[1].pc = frames[1].pc /\ frames'[1].ps = frames[1].ps
         ELSE r'.pc = frames[1].pc /\ Flags(r') = frames[1].ps
<1>1. /\ model \in {"nmos", "cmos"} /\ r \in Registers /\ FramesOK(frames)
      /\ IsMachine(Now) /\ Now.r = r /\ Now.instr = instr
  BY NowIsMachine DEF CpuKept, CpuInv, CpuTypeOK
<1>2. PICK x, after, takes, last, own, served : Step(x, after, takes, last, own, served)
  BY StepTaken
<1>3. /\ x = Execute(model, Now) /\ (takes => after.r.i = 0)
      /\ flank => after = EnterHandler(model, x.m, NmiVector, FALSE) /\ served = Entered(own, Enter("nmi", x.m.r))
      /\ ~flank => after = x.m /\ served = own
  BY <1>2, Zenon DEF Step
<1>4. /\ takes => frames' = Entered(served, Enter("irq", after.r))
      /\ ~takes => last = after /\ frames' = served
      /\ r' = last.r
  BY <1>2, Zenon DEF Step, Stepped
<1>5. x.op # "brk" => own = Buried(frames, Pushed(r.sp, x.m.r.sp))
  BY <1>2, Zenon DEF Step
<1>6. IsMachine(x.m) /\ x.op = "rti"
  BY <1>1, <1>3, ExecuteFollows DEF Follows
<1>7. PICK q \in Registers : q = x.m.r
  BY <1>6 DEF IsMachine
<1>8. q.sp = Above(r.sp, 3) /\ q.pc = frames[1].pc /\ Flags(q) = frames[1].ps
  BY <1>3, <1>7, ReturnTaken
<1>9. FramesOK(own) /\ Len(own) = Len(frames) - 1
  <2>1. r.sp \in StackBegin .. StackEnd /\ q.sp \in StackBegin .. StackEnd
    BY <1>1, FieldsAre
  <2>2. 3 \in -127 .. 128
    OBVIOUS
  <2>3. PICK b \in Int : b = Pushed(r.sp, q.sp) /\ b + 3 = 0
    <3>1. Pushed(r.sp, q.sp) \in Int
      BY <2>1, PushedIs
    <3>2. Pushed(r.sp, q.sp) = 0 - 3
      BY SMTT(40), <1>8, <2>1, <2>2, PushedIs
    <3>. QED BY <3>1, <3>2
  <2>4. own = Buried(frames, b)
    BY <1>5, <1>6, <1>7, <2>3
  <2>5. FramesOK(own)
    BY <1>1, <2>4, BuriedIs
  <2>6. Len(own) = Len(frames) - 1
    BY <1>1, <2>3, <2>4, TopPopped
  <2>. QED BY <2>5, <2>6
<1>10. Len(frames) \in Nat
  BY <1>1, FramesAre
<1>11. ASSUME NEW kind \in {"irq", "nmi"}
       PROVE  /\ Len(Entered(own, Enter(kind, q))) = Len(frames)
              /\ Entered(own, Enter(kind, q))[1].pc = q.pc /\ Entered(own, Enter(kind, q))[1].ps = Flags(q)
  <2>1. PICK f : f = Enter(kind, q)
    OBVIOUS
  <2>2. f \in Frame /\ f.above = 0 /\ f.pc = q.pc /\ f.ps = Flags(q)
    BY <2>1, FrameMade DEF Enter
  <2>3. Len(Entered(own, f)) = Len(own) + 1 /\ Entered(own, f)[1] = f
    BY <1>9, <2>2, EnteredIs
  <2>. QED BY <1>9, <1>10, <2>1, <2>2, <2>3
<1>12. CASE flank
  <2>1. after.r.i = 1
    BY ZenonT(60), <1>3, <1>6, <1>12, EntryFollows, VectorsAreWords
  <2>2. ~takes
    BY <1>3, <2>1
  <2>3. frames' = Entered(own, Enter("nmi", q))
    BY <1>3, <1>4, <1>7, <1>12, <2>2, Zenon
  <2>. QED BY <1>8, <1>11, <2>3
<1>13. CASE ~flank /\ takes
  <2>1. frames' = Entered(own, Enter("irq", q))
    BY <1>3, <1>4, <1>7, <1>13
  <2>. QED BY <1>8, <1>11, <2>1
<1>14. CASE ~flank /\ ~takes
  <2>1. frames' = own /\ r' = q
    BY <1>3, <1>4, <1>7, <1>14
  <2>. QED BY <1>8, <1>9, <1>10, <2>1
<1>. QED BY <1>12, <1>13, <1>14

LEMMA OnlyInstructionsSpend == ASSUME Next, budget' # budget PROVE ExecuteInstruction
BY DEF Next, cpu_irq_assert, cpu_irq_deassert, cpu_nmi_assert, cpu_nmi_deassert, cpu_reset, cpu_initialize,
       cpu_set_snapshot

(* Under the same condition an RTI (op_rti) that finds the stack where its entry left it goes *)
(* back to the instruction and the flags the handler was entered from, also when the next     *)
(* interrupt is taken at once.                                                                *)
THEOREM ReturnsLeadBack == Spec /\ []StackIsSpared => ReturnsWhereItLeft
<1>1. Init => CpuKept
  BY KeptStarts
<1>2. CpuKept /\ StackIsSpared /\ StackIsSpared' /\ [Next]_vars => CpuKept'
  BY KeptSteps
<1>3. CpuKept /\ [Next]_vars =>
        [ budget' # budget /\ frames # << >> /\ Opcode[model][instr[1]].op = "rti" /\ frames[1].above = 0
      => IF Len(frames') = Len(frames)
         THEN frames'[1].pc = frames[1].pc /\ frames'[1].ps = frames[1].ps
         ELSE r'.pc = frames[1].pc /\ Flags(r') = frames[1].ps ]_vars
  BY ReturnLeads, OnlyInstructionsSpend
<1>. QED BY <1>1, <1>2, <1>3, PTL DEF Spec, ReturnsWhereItLeft

(* Decimal arithmetic, a digit at a time. *)

LEMMA DigitsAre ==
  ASSUME NEW b \in Byte, IsBcd(b)
  PROVE  \E h \in 0 .. 9 : \E l \in 0 .. 9 : b % 16 = l /\ b \div 16 = h /\ ToNumber(b) = 10 * h + l
<1>1. b \in Int /\ 0 <= b
  BY ByteBounds
<1>2. PICK h \in Int : h = b \div 16 /\ 0 <= h /\ h < 10
  BY <1>1 DEF IsBcd
<1>3. PICK l \in Int : l = b % 16 /\ 0 <= l /\ l < 10
  BY <1>1 DEF IsBcd
<1>4. h \in 0 .. 9 /\ l \in 0 .. 9
  BY <1>2, <1>3
<1>. QED BY <1>2, <1>3, <1>4 DEF ToNumber

LEMMA NumberShown ==
  ASSUME NEW h \in 0 .. 9, NEW l \in 0 .. 9, NEW n \in {-1, 0, 1}, NEW s \in Int, s = 100 * n + 10 * h + l
  PROVE  ToBcd((s + 100) % 100) = 16 * h + l
<1>1. PICK t \in Int : t = 10 * h + l
  OBVIOUS
<1>2. (s + 100) % 100 = t
  BY <1>1
<1>3. t \div 10 = h /\ t % 10 = l
  BY <1>1
<1>. QED BY <1>2, <1>3 DEF ToBcd

\* What one digit and the carry into it make: the digit and the carry out of it.
LEMMA DigitsAdd ==
  ASSUME NEW h \in 0 .. 9, NEW l \in 0 .. 9, NEW c \in {0, 1}
  PROVE  \E g \in {0, 1} : \E w \in 0 .. 9 : h + l + c = 10 * g + w /\ (g = 1 <=> h + l + c > 9)
<1>1. CASE h + l + c > 9
  <2>1. h + l + c - 10 \in 0 .. 9
    BY <1>1
  <2>. QED BY <1>1, <2>1
<1>2. CASE h + l + c <= 9
  <2>1. h + l + c \in 0 .. 9
    BY <1>2
  <2>. QED BY <1>2, <2>1
<1>. QED BY <1>1, <1>2

LEMMA DigitsTake ==
  ASSUME NEW h \in 0 .. 9, NEW l \in 0 .. 9, NEW c \in {0, 1}
  PROVE  \E g \in {0, 1} : \E w \in 0 .. 9 : h - l - c = w - 10 * g /\ (g = 1 <=> h - l - c < 0)
<1>1. CASE h - l - c < 0
  <2>1. h - l - c + 10 \in 0 .. 9
    BY <1>1
  <2>. QED BY <1>1, <2>1
<1>2. CASE h - l - c >= 0
  <2>1. h - l - c \in 0 .. 9
    BY <1>2
  <2>. QED BY <1>2, <2>1
<1>. QED BY <1>1, <1>2

Result(q, val, f, g, w) == [set_nz(q, val) EXCEPT !.v = f, !.c = g, !.a = w]

LEMMA ResultFields ==
  ASSUME NEW q \in Registers, NEW val, NEW f, NEW g, NEW w
  PROVE  /\ Result(q, val, f, g, w).a = w
         /\ Result(q, val, f, g, w).c = g
         /\ Result(q, val, f, g, w).z = Flag(Low8(val) = 0)
         /\ Result(q, val, f, g, w).n = Bit(val, 128)
BY DEF Registers, Result, set_nz, set_z

LEMMA LowIsShown ==
  ASSUME NEW h \in 0 .. 9, NEW l \in 0 .. 9, NEW k \in Int
  PROVE  Low8(256 * k + 16 * h + l) = 16 * h + l
BY DEF Low8

\* A digit of the NMOS subtraction: the value less six when it borrowed.
LEMMA NmosDigit ==
  ASSUME NEW g \in {0, 1}, NEW w \in 0 .. 9, w - 10 * g \in -10 .. 9, g = 1 <=> w - 10 * g < 0,
         NEW lo, lo = Low16(w - 10 * g)
  PROVE  \E low \in Int : /\ low = IF Bit(lo, 16) = 1 THEN Low16(lo - 6) ELSE lo
                          /\ low % 16 = w /\ Bit(low, 16) = g
<1>1. CASE g = 0
  <2>1. lo = w /\ Bit(lo, 16) = 0 /\ w % 16 = w
    BY <1>1 DEF Low16, Bit
  <2>. QED BY <1>1, <2>1
<1>2. CASE g = 1
  <2>1. lo = 65526 + w
    BY <1>2 DEF Low16
  <2>2. Bit(lo, 16) = 1
    BY <2>1 DEF Bit
  <2>3. Low16(lo - 6) = 65520 + w
    BY <2>1 DEF Low16
  <2>4. (65520 + w) % 16 = w /\ Bit(65520 + w, 16) = 1
    BY DEF Bit
  <2>. QED BY <1>2, <2>2, <2>3, <2>4
<1>. QED BY <1>1, <1>2

LEMMA AdcNmosExact ==
  ASSUME NEW q \in Registers, q.d = 1, NEW m \in Byte, IsBcd(q.a), IsBcd(m),
         NEW s \in Int, s = ToNumber(q.a) + ToNumber(m) + q.c
  PROVE  adc_nmos(q, m).a = ToBcd((s + 100) % 100) /\ adc_nmos(q, m).c = Flag(s > 99)
<1>1. q.a \in Byte /\ q.c \in {0, 1}
  BY FieldsAre
<1>2. PICK h \in 0 .. 9, l \in 0 .. 9 : q.a % 16 = l /\ q.a \div 16 = h /\ ToNumber(q.a) = 10 * h + l
  BY <1>1, DigitsAre
<1>3. PICK j \in 0 .. 9, k \in 0 .. 9 : m % 16 = k /\ m \div 16 = j /\ ToNumber(m) = 10 * j + k
  BY DigitsAre
<1>4. PICK c \in {0, 1} : c = q.c
  BY <1>1
<1>5. PICK g \in {0, 1}, w \in 0 .. 9 : l + k + c = 10 * g + w /\ (g = 1 <=> l + k + c > 9)
  BY DigitsAdd
<1>6. PICK e \in {0, 1}, v \in 0 .. 9 : h + j + g = 10 * e + v /\ (e = 1 <=> h + j + g > 9)
  BY DigitsAdd
<1>7. s = 100 * e + 10 * v + w
  <2>1. s = 10 * h + l + 10 * j + k + c
    BY <1>2, <1>3, <1>4
  <2>2. l + k + c = 10 * g + w /\ h + j + g = 10 * e + v
    BY <1>5, <1>6
  <2>. QED BY <2>1, <2>2
<1>8. ToBcd((s + 100) % 100) = 16 * v + w
  <2>1. e \in {-1, 0, 1}
    OBVIOUS
  <2>. QED BY <1>7, <2>1, NumberShown
<1>9. PICK lo \in Int : lo = (q.a % 16) + (m % 16) + q.c /\ lo = l + k + c
  BY <1>2, <1>3, <1>4
<1>10. PICK low \in Int : low = Adjusted(lo) /\ low = 16 * g + w
  BY <1>5, <1>9 DEF Adjusted
<1>11. PICK hi \in Int : hi = q.a \div 16 + m \div 16 + Flag(low > 15) /\ hi = h + j + g
  <2>1. Flag(low > 15) = g
    BY <1>5, <1>10 DEF Flag
  <2>. QED BY <1>2, <1>3, <2>1
<1>12. PICK high \in Int : high = Adjusted(hi) /\ high = 16 * e + v
  BY <1>6, <1>11 DEF Adjusted
<1>13. Flag(high > 15) = e /\ Flag(s > 99) = e
  BY <1>6, <1>7, <1>12 DEF Flag
<1>14. Low8((high * 16) + (low % 16)) = 16 * v + w
  <2>1. low % 16 = w
    BY <1>10
  <2>2. (high * 16) + w = 256 * e + 16 * v + w
    BY <1>12
  <2>3. Low8(256 * e + 16 * v + w) = 16 * v + w
    BY LowIsShown
  <2>. QED BY <2>1, <2>2, <2>3
<1>15. PICK val, f : adc_nmos(q, m) = Result(q, val, f, Flag(high > 15), Low8((high * 16) + (low % 16)))
  BY ZenonT(60), <1>9, <1>10, <1>11, <1>12 DEF adc_nmos, Result
<1>. QED BY <1>8, <1>13, <1>14, <1>15, ResultFields

\* The decimal branches of the three, written out.
NmosTaken(q, m, lo, low, hi, high) ==
  /\ lo = Low16((q.a % 16) - (m % 16) - (1 - q.c))
  /\ low = IF Bit(lo, 16) = 1 THEN Low16(lo - 6) ELSE lo
  /\ hi = Low16(q.a \div 16 - m \div 16 - Bit(low, 16))
  /\ high = IF Bit(hi, 16) = 1 THEN Low16(hi - 6) ELSE hi

LEMMA SbcNmosShape ==
  ASSUME NEW q, q.d = 1, NEW m, NEW lo, NEW low, NEW hi, NEW high, NmosTaken(q, m, lo, low, hi, high)
  PROVE  \E val, f : sbc_nmos(q, m) = Result(q, val, f, 1 - Bit(high, 16), Low8((high * 16) + (low % 16)))
<1>. DEFINE val == Low16(q.a - m - (1 - q.c))
            f   == Flag(Bit(q.a, 128) # Bit(val, 128) /\ Bit(q.a, 128) # Bit(m, 128))
<1>1. sbc_nmos(q, m) = IF q.d = 1
                       THEN Result(q, val, f, 1 - Bit(high, 16), Low8((high * 16) + (low % 16)))
                       ELSE Result(q, val, f, Flag(val < 256), Low8(val))
  BY ZenonT(60) DEF sbc_nmos, Result, NmosTaken
<1>. HIDE DEF val, f
<1>. QED BY <1>1

CmosAdded(q, m, lo, low, sum, res) ==
  /\ lo = (q.a % 16) + (m % 16) + q.c
  /\ low = IF lo >= 10 THEN 16 + ((lo + 6) % 16) ELSE lo
  /\ sum = low + 16 * (q.a \div 16) + 16 * (m \div 16)
  /\ res = IF sum >= 160 THEN sum + 96 ELSE sum

LEMMA AdcCmosShape ==
  ASSUME NEW q, q.d = 1, NEW m, NEW lo, NEW low, NEW sum, NEW res, CmosAdded(q, m, lo, low, sum, res)
  PROVE  \E f : adc_cmos(q, m) = Result(q, res, f, Flag(sum >= 160), Low8(res))
<1>. DEFINE lo0   == (q.a % 16) + (m % 16) + q.c
            low0  == IF lo0 >= 10 THEN 16 + ((lo0 + 6) % 16) ELSE lo0
            dec0  == low0 + 16 * (q.a \div 16) + 16 * (m \div 16)
            sum0  == IF q.d = 1 THEN dec0 ELSE q.a + m + q.c
            over0 == IF q.d = 1 THEN sum0 >= 160 ELSE sum0 >= 256
            res0  == IF q.d = 1 /\ over0 THEN sum0 + 96 ELSE sum0
            lost0 == IF over0 THEN sum0 >= 384 ELSE sum0 < 128
            f     == IF lost0 THEN 0 ELSE Flag(Bit(q.a, 128) = Bit(m, 128))
<1>1. adc_cmos(q, m) = Result(q, res0, f, Flag(over0), Low8(res0))
  BY DEF adc_cmos, Result
<1>2. sum0 = sum
  BY DEF CmosAdded
<1>. HIDE DEF sum0
<1>3. over0 <=> sum >= 160
  BY <1>2
<1>. HIDE DEF over0
<1>4. res0 = res
  BY <1>2, <1>3 DEF CmosAdded
<1>5. Flag(over0) = Flag(sum >= 160)
  BY <1>3 DEF Flag
<1>. HIDE DEF res0, f
<1>. QED BY <1>1, <1>4, <1>5

CmosTaken(q, m, t, low, sum, res) ==
  /\ t = 15 + (q.a % 16) - (m % 16) + q.c
  /\ low = IF t < 16 THEN Low16(t - 6) ELSE t - 16
  /\ sum = (IF t < 16 THEN 0 ELSE 16) + 240 + 16 * (q.a \div 16) - 16 * (m \div 16)
  /\ res = Low16((IF sum >= 256 THEN sum ELSE sum - 96) + low)

LEMMA SbcCmosShape ==
  ASSUME NEW q, q.d = 1, NEW m, NEW t, NEW low, NEW sum, NEW res, CmosTaken(q, m, t, low, sum, res)
  PROVE  \E f : sbc_cmos(q, m) = Result(q, res, f, Flag(sum >= 256), Low8(res))
<1>. DEFINE t0    == 15 + (q.a % 16) - (m % 16) + q.c
            low0  == IF t0 < 16 THEN Low16(t0 - 6) ELSE t0 - 16
            dec0  == (IF t0 < 16 THEN 0 ELSE 16) + 240 + 16 * (q.a \div 16) - 16 * (m \div 16)
            sum0  == IF q.d = 1 THEN dec0 ELSE 255 + q.a - m + q.c
            res0  == IF q.d = 0 THEN sum0
                     ELSE Low16((IF sum0 >= 256 THEN sum0 ELSE sum0 - 96) + low0)
            lost0 == IF sum0 >= 256 THEN sum0 >= 384 ELSE sum0 < 128
            f     == IF lost0 THEN 0 ELSE Flag(Bit(q.a, 128) # Bit(m, 128))
<1>1. sbc_cmos(q, m) = Result(q, res0, f, Flag(sum0 >= 256), Low8(res0))
  BY DEF sbc_cmos, Result
<1>2. sum0 = sum
  BY DEF CmosTaken
<1>3. low0 = low
  BY DEF CmosTaken
<1>. HIDE DEF sum0, low0
<1>4. res0 = res
  BY <1>2, <1>3 DEF CmosTaken
<1>. HIDE DEF res0, f
<1>. QED BY <1>1, <1>2, <1>4

LEMMA SbcNmosExact ==
  ASSUME NEW q \in Registers, q.d = 1, NEW m \in Byte, IsBcd(q.a), IsBcd(m),
         NEW s \in Int, s = ToNumber(q.a) - ToNumber(m) - (1 - q.c)
  PROVE  sbc_nmos(q, m).a = ToBcd((s + 100) % 100) /\ sbc_nmos(q, m).c = Flag(s >= 0)
<1>1. q.a \in Byte /\ q.c \in {0, 1}
  BY FieldsAre
<1>2. PICK h \in 0 .. 9, l \in 0 .. 9 : q.a % 16 = l /\ q.a \div 16 = h /\ ToNumber(q.a) = 10 * h + l
  BY <1>1, DigitsAre
<1>3. PICK j \in 0 .. 9, k \in 0 .. 9 : m % 16 = k /\ m \div 16 = j /\ ToNumber(m) = 10 * j + k
  BY DigitsAre
<1>4. PICK c \in {0, 1} : c = 1 - q.c
  BY <1>1
<1>5. PICK g \in {0, 1}, w \in 0 .. 9 : l - k - c = w - 10 * g /\ (g = 1 <=> l - k - c < 0)
  BY DigitsTake
<1>6. PICK e \in {0, 1}, v \in 0 .. 9 : h - j - g = v - 10 * e /\ (e = 1 <=> h - j - g < 0)
  BY DigitsTake
<1>7. s = 100 * (0 - e) + 10 * v + w
  <2>1. s = 10 * h + l - (10 * j + k) - c
    BY <1>2, <1>3, <1>4
  <2>2. l - k - c = w - 10 * g /\ h - j - g = v - 10 * e
    BY <1>5, <1>6
  <2>. QED BY <2>1, <2>2
<1>8. ToBcd((s + 100) % 100) = 16 * v + w
  <2>1. PICK n \in {-1, 0, 1} : n = 0 - e
    OBVIOUS
  <2>2. s = 100 * n + 10 * v + w
    BY <1>7, <2>1
  <2>. QED BY <2>2, NumberShown
<1>9. PICK lo \in Int : lo = Low16((q.a % 16) - (m % 16) - (1 - q.c)) /\ lo = Low16(w - 10 * g)
  <2>1. (q.a % 16) - (m % 16) - (1 - q.c) = w - 10 * g
    BY <1>2, <1>3, <1>4, <1>5
  <2>. QED BY <2>1 DEF Low16
<1>10. PICK low \in Int : /\ low = IF Bit(lo, 16) = 1 THEN Low16(lo - 6) ELSE lo
                          /\ low % 16 = w /\ Bit(low, 16) = g
  BY <1>9, NmosDigit
<1>11. PICK hi \in Int : hi = Low16(q.a \div 16 - m \div 16 - Bit(low, 16)) /\ hi = Low16(v - 10 * e)
  <2>1. q.a \div 16 - m \div 16 - Bit(low, 16) = v - 10 * e
    BY <1>2, <1>3, <1>6, <1>10
  <2>. QED BY <2>1 DEF Low16
<1>12. PICK high \in Int : /\ high = IF Bit(hi, 16) = 1 THEN Low16(hi - 6) ELSE hi
                           /\ high % 16 = v /\ Bit(high, 16) = e
  BY <1>11, NmosDigit
<1>13. 1 - Bit(high, 16) = Flag(s >= 0)
  BY <1>7, <1>12 DEF Flag
<1>14. Low8((high * 16) + (low % 16)) = 16 * v + w
  <2>1. PICK n \in Int : high = 16 * n + v
    BY <1>12
  <2>2. (high * 16) + w = 256 * n + 16 * v + w
    BY <2>1
  <2>3. Low8(256 * n + 16 * v + w) = 16 * v + w
    BY LowIsShown
  <2>. QED BY <1>10, <2>2, <2>3
<1>15. PICK val, f : sbc_nmos(q, m) = Result(q, val, f, 1 - Bit(high, 16), Low8((high * 16) + (low % 16)))
  <2>1. NmosTaken(q, m, lo, low, hi, high)
    BY <1>9, <1>10, <1>11, <1>12 DEF NmosTaken
  <2>. QED BY <2>1, SbcNmosShape
<1>. QED BY <1>8, <1>13, <1>14, <1>15, ResultFields

LEMMA AdcCmosExact ==
  ASSUME NEW q \in Registers, q.d = 1, NEW m \in Byte, IsBcd(q.a), IsBcd(m),
         NEW s \in Int, s = ToNumber(q.a) + ToNumber(m) + q.c
  PROVE  /\ adc_cmos(q, m).a = ToBcd((s + 100) % 100) /\ adc_cmos(q, m).c = Flag(s > 99)
         /\ adc_cmos(q, m).z = Flag(adc_cmos(q, m).a = 0) /\ adc_cmos(q, m).n = Bit(adc_cmos(q, m).a, 128)
<1>1. q.a \in Byte /\ q.c \in {0, 1}
  BY FieldsAre
<1>2. PICK h \in 0 .. 9, l \in 0 .. 9 : q.a % 16 = l /\ q.a \div 16 = h /\ ToNumber(q.a) = 10 * h + l
  BY <1>1, DigitsAre
<1>3. PICK j \in 0 .. 9, k \in 0 .. 9 : m % 16 = k /\ m \div 16 = j /\ ToNumber(m) = 10 * j + k
  BY DigitsAre
<1>4. PICK c \in {0, 1} : c = q.c
  BY <1>1
<1>5. PICK g \in {0, 1}, w \in 0 .. 9 : l + k + c = 10 * g + w /\ (g = 1 <=> l + k + c > 9)
  BY DigitsAdd
<1>6. PICK e \in {0, 1}, v \in 0 .. 9 : h + j + g = 10 * e + v /\ (e = 1 <=> h + j + g > 9)
  BY DigitsAdd
<1>7. s = 100 * e + 10 * v + w
  <2>1. s = 10 * h + l + 10 * j + k + c
    BY <1>2, <1>3, <1>4
  <2>2. l + k + c = 10 * g + w /\ h + j + g = 10 * e + v
    BY <1>5, <1>6
  <2>. QED BY <2>1, <2>2
<1>8. ToBcd((s + 100) % 100) = 16 * v + w
  <2>1. e \in {-1, 0, 1}
    OBVIOUS
  <2>. QED BY <1>7, <2>1, NumberShown
<1>9. PICK lo \in Int : lo = (q.a % 16) + (m % 16) + q.c /\ lo = l + k + c
  BY <1>2, <1>3, <1>4
<1>10. PICK low \in Int : low = (IF lo >= 10 THEN 16 + ((lo + 6) % 16) ELSE lo) /\ low = 16 * g + w
  BY <1>5, <1>9
<1>11. PICK sum \in Int : sum = low + 16 * (q.a \div 16) + 16 * (m \div 16) /\ sum = 160 * e + 16 * v + w
  <2>1. low + 16 * (q.a \div 16) + 16 * (m \div 16) = 16 * g + w + 16 * h + 16 * j
    BY <1>2, <1>3, <1>10
  <2>2. h + j + g = 10 * e + v
    BY <1>6
  <2>. QED BY <2>1, <2>2
<1>12. sum >= 160 <=> e = 1
  BY <1>11
<1>13. PICK res \in Int : res = (IF sum >= 160 THEN sum + 96 ELSE sum) /\ res = 256 * e + 16 * v + w
  BY <1>11, <1>12
<1>14. Low8(res) = 16 * v + w
  <2>1. Low8(256 * e + 16 * v + w) = 16 * v + w
    BY LowIsShown
  <2>. QED BY <1>13, <2>1
<1>15. Flag(sum >= 160) = Flag(s > 99)
  BY <1>7, <1>12 DEF Flag
<1>16. Bit(res, 128) = Bit(Low8(res), 128)
  BY DEF Bit, Low8
<1>17. PICK f : adc_cmos(q, m) = Result(q, res, f, Flag(sum >= 160), Low8(res))
  <2>1. CmosAdded(q, m, lo, low, sum, res)
    BY <1>9, <1>10, <1>11, <1>13 DEF CmosAdded
  <2>. QED BY <2>1, AdcCmosShape
<1>. QED BY <1>8, <1>14, <1>15, <1>16, <1>17, ResultFields

LEMMA SbcCmosExact ==
  ASSUME NEW q \in Registers, q.d = 1, NEW m \in Byte, IsBcd(q.a), IsBcd(m),
         NEW s \in Int, s = ToNumber(q.a) - ToNumber(m) - (1 - q.c)
  PROVE  /\ sbc_cmos(q, m).a = ToBcd((s + 100) % 100) /\ sbc_cmos(q, m).c = Flag(s >= 0)
         /\ sbc_cmos(q, m).z = Flag(sbc_cmos(q, m).a = 0) /\ sbc_cmos(q, m).n = Bit(sbc_cmos(q, m).a, 128)
<1>1. q.a \in Byte /\ q.c \in {0, 1}
  BY FieldsAre
<1>2. PICK h \in 0 .. 9, l \in 0 .. 9 : q.a % 16 = l /\ q.a \div 16 = h /\ ToNumber(q.a) = 10 * h + l
  BY <1>1, DigitsAre
<1>3. PICK j \in 0 .. 9, k \in 0 .. 9 : m % 16 = k /\ m \div 16 = j /\ ToNumber(m) = 10 * j + k
  BY DigitsAre
<1>4. PICK c \in {0, 1} : c = 1 - q.c
  BY <1>1
<1>5. PICK g \in {0, 1}, w \in 0 .. 9 : l - k - c = w - 10 * g /\ (g = 1 <=> l - k - c < 0)
  BY DigitsTake
<1>6. PICK e \in {0, 1}, v \in 0 .. 9 : h - j - g = v - 10 * e /\ (e = 1 <=> h - j - g < 0)
  BY DigitsTake
<1>7. s = 100 * (0 - e) + 10 * v + w
  <2>1. s = 10 * h + l - (10 * j + k) - c
    BY <1>2, <1>3, <1>4
  <2>2. l - k - c = w - 10 * g /\ h - j - g = v - 10 * e
    BY <1>5, <1>6
  <2>. QED BY <2>1, <2>2
<1>8. ToBcd((s + 100) % 100) = 16 * v + w
  <2>1. PICK n \in {-1, 0, 1} : n = 0 - e
    OBVIOUS
  <2>2. s = 100 * n + 10 * v + w
    BY <1>7, <2>1
  <2>. QED BY <2>2, NumberShown
<1>9. PICK t \in Int : t = 15 + (q.a % 16) - (m % 16) + q.c /\ t = 16 + w - 10 * g
  <2>1. (q.a % 16) - (m % 16) - (1 - q.c) = w - 10 * g
    BY <1>2, <1>3, <1>4, <1>5
  <2>. QED BY <1>1, <1>2, <1>3, <2>1
<1>10. t < 16 <=> g = 1
  BY <1>5, <1>9
<1>11. PICK low \in Int : low = (IF t < 16 THEN Low16(t - 6) ELSE t - 16) /\ low = w
  <2>1. g = 1 => Low16(t - 6) = w
    BY <1>9 DEF Low16
  <2>. QED BY <1>9, <1>10, <2>1
<1>12. PICK sum \in Int : /\ sum = (IF t < 16 THEN 0 ELSE 16) + 240 + 16 * (q.a \div 16) - 16 * (m \div 16)
                          /\ sum = 256 + 16 * v - 160 * e
  <2>1. PICK p \in Int : p = (IF t < 16 THEN 0 ELSE 16) /\ p = 16 - 16 * g
    BY <1>10
  <2>4. 16 * (q.a \div 16) = 16 * h /\ 16 * (m \div 16) = 16 * j
    BY <1>2, <1>3
  <2>2. p + 240 + 16 * (q.a \div 16) - 16 * (m \div 16) = 256 - 16 * g + 16 * h - 16 * j
    BY <2>1, <2>4
  <2>3. h - j - g = v - 10 * e
    BY <1>6
  <2>. QED BY <2>1, <2>2, <2>3
<1>13. sum >= 256 <=> e = 0
  BY <1>12
<1>14. PICK res \in Int : /\ res = Low16((IF sum >= 256 THEN sum ELSE sum - 96) + low)
                          /\ res = 256 * (1 - e) + 16 * v + w
  <2>1. (IF sum >= 256 THEN sum ELSE sum - 96) + low = 256 * (1 - e) + 16 * v + w
    BY <1>11, <1>12, <1>13
  <2>2. Low16(256 * (1 - e) + 16 * v + w) = 256 * (1 - e) + 16 * v + w
    BY DEF Low16
  <2>. QED BY <2>1, <2>2
<1>15. Low8(res) = 16 * v + w
  <2>1. PICK n \in Int : n = 1 - e
    OBVIOUS
  <2>2. Low8(256 * n + 16 * v + w) = 16 * v + w
    BY LowIsShown
  <2>. QED BY <1>14, <2>1, <2>2
<1>16. Flag(sum >= 256) = Flag(s >= 0)
  BY <1>7, <1>13 DEF Flag
<1>17. Bit(res, 128) = Bit(Low8(res), 128)
  BY DEF Bit, Low8
<1>18. PICK f : sbc_cmos(q, m) = Result(q, res, f, Flag(sum >= 256), Low8(res))
  <2>1. CmosTaken(q, m, t, low, sum, res)
    BY <1>9, <1>11, <1>12, <1>14 DEF CmosTaken
  <2>. QED BY <2>1, SbcCmosShape
<1>. QED BY <1>8, <1>15, <1>16, <1>17, <1>18, ResultFields

LEMMA ArithmeticOpcodes ==
  /\ Opcode["nmos"][105].op = "adc_nmos" /\ Opcode["nmos"][105].mode = "imm"
  /\ Opcode["nmos"][233].op = "sbc_nmos" /\ Opcode["nmos"][233].mode = "imm"
  /\ Opcode["cmos"][105].op = "adc_cmos" /\ Opcode["cmos"][105].mode = "imm"
  /\ Opcode["cmos"][233].op = "sbc_cmos" /\ Opcode["cmos"][233].mode = "imm"
<1>1. /\ Entry(NmosRows, 105).op = "adc_nmos" /\ Entry(NmosRows, 105).mode = "imm"
      /\ Entry(NmosRows, 233).op = "sbc_nmos" /\ Entry(NmosRows, 233).mode = "imm"
  <2>1. NmosRows[7][10] = <<"imm", "adc_nmos", 2>> /\ NmosRows[15][10] = <<"imm", "sbc_nmos", 2>>
    BY DEF NmosRows, NmosRow6, NmosRowE
  <2>2. (105 \div 16) + 1 = 7 /\ (105 % 16) + 1 = 10 /\ (233 \div 16) + 1 = 15 /\ (233 % 16) + 1 = 10
    OBVIOUS
  <2>. QED BY <2>1, <2>2 DEF Entry
<1>2. /\ Entry(CmosRows, 105).op = "adc_cmos" /\ Entry(CmosRows, 105).mode = "imm"
      /\ Entry(CmosRows, 233).op = "sbc_cmos" /\ Entry(CmosRows, 233).mode = "imm"
  <2>1. CmosRows[7][10] = <<"imm", "adc_cmos", 2>> /\ CmosRows[15][10] = <<"imm", "sbc_cmos", 2>>
    BY DEF CmosRows, CmosRow6, CmosRowE
  <2>2. (105 \div 16) + 1 = 7 /\ (105 % 16) + 1 = 10 /\ (233 \div 16) + 1 = 15 /\ (233 % 16) + 1 = 10
    OBVIOUS
  <2>. QED BY <2>1, <2>2 DEF Entry
<1>3. \A n \in {105, 233} : Opcode["nmos"][n] = Entry(NmosRows, n) /\ Opcode["cmos"][n] = Entry(CmosRows, n)
  <2>1. 105 \in 0 .. 255 /\ 233 \in 0 .. 255
    OBVIOUS
  <2>. QED BY <2>1 DEF Opcode
<1>. QED BY <1>1, <1>2, <1>3

LEMMA ArithmeticDone ==
  ASSUME CpuInv, ExecuteInstruction, irq = {}, ~flank, instr[1] \in {105, 233}
  PROVE  \E q \in Registers : /\ q.a = r.a /\ q.c = r.c /\ q.d = r.d
                              /\ Mem(Now, Low16(r.pc + 1)) \in Byte
                              /\ r' = ReadOp(Opcode[model][instr[1]].op, q, Mem(Now, Low16(r.pc + 1)))
<1>0. PICK op : op = Opcode[model][instr[1]].op
  OBVIOUS
<1>1. /\ model \in {"nmos", "cmos"} /\ r \in Registers
      /\ IsMachine(Now) /\ Now.r = r /\ Now.instr = instr /\ Now.at = r.pc
  BY NowIsMachine DEF CpuInv, CpuTypeOK, Now
<1>2. PICK x, after, takes, last, own, served : Step(x, after, takes, last, own, served)
  BY StepTaken
<1>3. x = Execute(model, Now) /\ after = x.m
  BY <1>2, Zenon DEF Step
<1>4. ~takes
  BY <1>2, Zenon DEF Step
<1>5. last = after /\ r' = last.r
  BY <1>2, <1>4, Zenon DEF Step, Stepped
<1>6. PICK mode : mode = Opcode[model][instr[1]].mode
  OBVIOUS
<1>7. mode = "imm" /\ op \in Reads
  BY <1>0, <1>1, <1>6, ArithmeticOpcodes DEF Reads
<1>8. PICK ea : ea = EffectiveAddress(mode, Now)
  OBVIOUS
<1>9. ea.addr = Low16(r.pc + 1)
  BY <1>1, <1>7, <1>8 DEF EffectiveAddress, Plain
<1>10. PICK n : n = Advanced(Now, mode)
  OBVIOUS
<1>11. x.m = Done(model, op, mode, Now, n, ea)
  BY <1>0, <1>1, <1>3, <1>6, <1>8, <1>10, ExecuteIs
<1>12. IsMachine(n) /\ n.r \in Registers /\ n.r = [r EXCEPT !.pc = Low16(r.pc + 1 + OperandBytes(mode))]
  BY <1>1, <1>10, AdvancedIs DEF Became
<1>13. PICK q \in Registers : q = n.r
  BY <1>12
<1>14. q.a = r.a /\ q.c = r.c /\ q.d = r.d
  BY <1>1, <1>12, <1>13 DEF Registers
<1>15. PICK v \in Byte : v = Mem(Now, ea.addr)
  <2>1. r.pc + 1 \in Int
    BY <1>1, FieldsAre, WordBounds
  <2>2. ea.addr \in Int
    BY <1>9, <2>1, LowIs, WordBounds
  <2>. QED BY <1>1, <2>2, MemIsByte
<1>16. PICK w : w = ReadOp(op, q, v)
  OBVIOUS
<1>17. x.m = [n EXCEPT !.r = w]
  <2>1. Done(model, op, mode, Now, n, ea) = [n EXCEPT !.r = ReadOp(op, n.r, Mem(Now, ea.addr))]
    BY <1>7, ReadDone
  <2>. QED BY <1>11, <1>13, <1>15, <1>16, <2>1
<1>18. r' = w
  BY <1>3, <1>5, <1>12, <1>17 DEF IsMachine
<1>. QED BY <1>0, <1>9, <1>14, <1>15, <1>16, <1>18

LEMMA DecimalIs ==
  ASSUME CpuInv, ExecuteInstruction, irq = {}, ~flank, r.d = 1, instr[1] \in {105, 233},
         NEW op, op = Opcode[model][instr[1]].op,
         NEW m, m = Mem(Now, Low16(r.pc + 1)), IsBcd(r.a), IsBcd(m),
         NEW sum, sum = IF op \in {"adc_nmos", "adc_cmos"} THEN ToNumber(r.a) + ToNumber(m) + r.c
                        ELSE ToNumber(r.a) - ToNumber(m) - (1 - r.c)
  PROVE  /\ r'.a = ToBcd((sum + 100) % 100)
         /\ r'.c = IF op \in {"adc_nmos", "adc_cmos"} THEN Flag(sum > 99) ELSE Flag(sum >= 0)
         /\ model = "cmos" => r'.z = Flag(r'.a = 0) /\ r'.n = Bit(r'.a, 128)
<1>1. PICK q \in Registers : q.a = r.a /\ q.c = r.c /\ q.d = r.d /\ m \in Byte /\ r' = ReadOp(op, q, m)
  <2>1. \E q \in Registers : /\ q.a = r.a /\ q.c = r.c /\ q.d = r.d
                             /\ Mem(Now, Low16(r.pc + 1)) \in Byte
                             /\ r' = ReadOp(Opcode[model][instr[1]].op, q, Mem(Now, Low16(r.pc + 1)))
    BY ArithmeticDone
  <2>. QED BY <2>1
<1>2. model \in {"nmos", "cmos"} /\ r \in Registers
  BY DEF CpuInv, CpuTypeOK
<1>3. PICK s \in Int : s = sum
  <2>1. ToNumber(r.a) \in Int /\ ToNumber(m) \in Int /\ r.c \in Int
    BY <1>1, <1>2, FieldsAre, ByteBounds DEF ToNumber
  <2>. QED BY <2>1
<1>4. IsBcd(q.a) /\ q.d = 1
  BY <1>1
<1>5. CASE model = "nmos" /\ instr[1] = 105
  <2>1. op = "adc_nmos" /\ s = ToNumber(q.a) + ToNumber(m) + q.c
    BY <1>1, <1>3, <1>5, ArithmeticOpcodes
  <2>2. r' = adc_nmos(q, m)
    BY <1>1, <2>1 DEF ReadOp
  <2>. QED BY <1>1, <1>3, <1>4, <1>5, <2>1, <2>2, AdcNmosExact
<1>6. CASE model = "nmos" /\ instr[1] = 233
  <2>1. op = "sbc_nmos" /\ s = ToNumber(q.a) - ToNumber(m) - (1 - q.c)
    BY <1>1, <1>3, <1>6, ArithmeticOpcodes
  <2>2. r' = sbc_nmos(q, m)
    BY <1>1, <2>1 DEF ReadOp
  <2>. QED BY <1>1, <1>3, <1>4, <1>6, <2>1, <2>2, SbcNmosExact
<1>7. CASE model = "cmos" /\ instr[1] = 105
  <2>1. op = "adc_cmos" /\ s = ToNumber(q.a) + ToNumber(m) + q.c
    BY <1>1, <1>3, <1>7, ArithmeticOpcodes
  <2>2. r' = adc_cmos(q, m)
    BY <1>1, <2>1 DEF ReadOp
  <2>. QED BY <1>1, <1>3, <1>4, <1>7, <2>1, <2>2, AdcCmosExact
<1>8. CASE model = "cmos" /\ instr[1] = 233
  <2>1. op = "sbc_cmos" /\ s = ToNumber(q.a) - ToNumber(m) - (1 - q.c)
    BY <1>1, <1>3, <1>8, ArithmeticOpcodes
  <2>2. r' = sbc_cmos(q, m)
    BY <1>1, <2>1 DEF ReadOp
  <2>. QED BY <1>1, <1>3, <1>4, <1>8, <2>1, <2>2, SbcCmosExact
<1>. QED BY <1>2, <1>5, <1>6, <1>7, <1>8

(* For any operands of two decimal digits, ADC and SBC of both processors (op_adc_nmos,     *)
(* op_sbc_nmos, op_adc_cmos, op_sbc_cmos) give the decimal sum or difference with its carry, *)
(* and on the 65C02 flags of the result.                                                     *)
THEOREM DecimalIsExact == Spec => DecimalArithmeticIsExact
<1>1. Init => CpuInv
  BY CpuStarts
<1>2. CpuInv /\ [Next]_vars => CpuInv'
  BY CpuSteps
<1>3. CpuInv /\ [Next]_vars =>
     [ LET op  == Opcode[model][instr[1]].op
           m   == Mem(Now, Low16(r.pc + 1))
           adds == op \in {"adc_nmos", "adc_cmos"}
           sum == IF adds THEN ToNumber(r.a) + ToNumber(m) + r.c
                  ELSE ToNumber(r.a) - ToNumber(m) - (1 - r.c)
       IN  budget' # budget /\ r.d = 1 /\ irq = {} /\ flank = FALSE
           /\ instr[1] \in {105, 233} /\ IsBcd(r.a) /\ IsBcd(m)
           => /\ r'.a = ToBcd((sum + 100) % 100)
              /\ r'.c = IF adds THEN Flag(sum > 99) ELSE Flag(sum >= 0)
              /\ model = "cmos" => r'.z = Flag(r'.a = 0) /\ r'.n = Bit(r'.a, 128) ]_vars
  <2>. SUFFICES ASSUME CpuInv, Next, budget' # budget, r.d = 1, irq = {}, flank = FALSE,
                       instr[1] \in {105, 233}, IsBcd(r.a), IsBcd(Mem(Now, Low16(r.pc + 1)))
                PROVE  LET op  == Opcode[model][instr[1]].op
                           m   == Mem(Now, Low16(r.pc + 1))
                           adds == op \in {"adc_nmos", "adc_cmos"}
                           sum == IF adds THEN ToNumber(r.a) + ToNumber(m) + r.c
                                  ELSE ToNumber(r.a) - ToNumber(m) - (1 - r.c)
                       IN  /\ r'.a = ToBcd((sum + 100) % 100)
                           /\ r'.c = IF adds THEN Flag(sum > 99) ELSE Flag(sum >= 0)
                           /\ model = "cmos" => r'.z = Flag(r'.a = 0) /\ r'.n = Bit(r'.a, 128)
    BY Zenon DEF vars
  <2>1. ExecuteInstruction
    BY OnlyInstructionsSpend
  <2>2. PICK op, m : op = Opcode[model][instr[1]].op /\ m = Mem(Now, Low16(r.pc + 1))
    OBVIOUS
  <2>3. PICK sum : sum = IF op \in {"adc_nmos", "adc_cmos"} THEN ToNumber(r.a) + ToNumber(m) + r.c
                         ELSE ToNumber(r.a) - ToNumber(m) - (1 - r.c)
    OBVIOUS
  <2>4. ~flank /\ IsBcd(m)
    BY <2>2
  <2>5. /\ r'.a = ToBcd((sum + 100) % 100)
        /\ r'.c = IF op \in {"adc_nmos", "adc_cmos"} THEN Flag(sum > 99) ELSE Flag(sum >= 0)
        /\ model = "cmos" => r'.z = Flag(r'.a = 0) /\ r'.n = Bit(r'.a, 128)
    BY <2>1, <2>2, <2>3, <2>4, DecimalIs
  <2>. QED BY <2>2, <2>3, <2>5, Zenon
<1>. QED BY <1>1, <1>2, <1>3, PTL DEF Spec, DecimalArithmeticIsExact

(* The debugger's table and the processor's, entry by entry. *)

Pushes == {"pha", "phx", "phy", "php"}
Pulls  == {"pla", "plx", "ply", "plp"}
Direct == {"zpg", "zpgx", "zpgy", "abs", "absx", "absy", "indx", "indy", "izpg"}

\* AddressMode, column k of a row.
ModeIn(column, k, n) ==
  CASE n = 32 -> "abs" [] n = 128 -> "rel" [] n = 160 \/ n = 192 \/ n = 224 -> "imm" [] n = 20 -> "zpg"
    [] n = 28 \/ n = 156 -> "abs" [] n = 150 \/ n = 182 -> "zpgy" [] n = 190 -> "absy"
    [] n = 108 -> "iabs" [] n = 124 -> "iabsx" [] OTHER -> column[k]
Column(h) == IF h % 2 = 1 THEN EvenColumn ELSE OddColumn
Length(said) == IF said = "imp" THEN 1 ELSE IF said \in {"abs", "absx", "absy", "iabs", "iabsx"} THEN 3 ELSE 2

\* What the two say of opcode n: the debugger of its mode, the processor of mode and operation.
Agree(said, n, mode, op) ==
  /\ op = "hlt" \/ Length(said) = 1 + OperandBytes(mode)
  /\ mode = "rel" => said = "rel"
  /\ op \in Branches => mode = "rel"
  /\ op = "jmp" => \/ mode = "abs" /\ said = "abs" /\ n # 32
                   \/ mode \in {"iabs_nmos", "iabs_cmos"} /\ said = "iabs"
                   \/ mode = "iabsx" /\ said = "iabsx"
  /\ op = "jsr" => n = 32 /\ mode = "abs" /\ said = "abs"
  /\ op = "rts" => n = 96 /\ said = "imp"
  /\ op = "rti" => n = 64 /\ said = "imp"
  /\ op = "brk" => n = 0 /\ said = "imp"
  /\ op \in Reads \cup Modifies \cup Stores => mode = "imm" \/ (mode \in Direct /\ said = mode /\ n # 32)
  /\ op \in Pushes => said = "imp" /\ n \in {8, 72, 90, 218}
  /\ op \in Pulls => said = "imp" /\ n \in {40, 104, 122, 250}

LEMMA CmosRowsAgree ==
  \A h \in 1 .. 16 : \A k \in 1 .. 16 :
    Agree(ModeIn(Column(h), k, 16 * (h - 1) + (k - 1)), 16 * (h - 1) + (k - 1),
          CmosRows[h][k][1], CmosRows[h][k][2])
<1>1. \A k \in 1 .. 16 : Agree(ModeIn(EvenColumn, k, k - 1), k - 1, CmosRow0[k][1], CmosRow0[k][2])
  BY DEF Agree, Pushes, Pulls, Direct, Length, OperandBytes, ModeIn, Branches, Reads, Modifies, Stores,
         EvenColumn, CmosRow0
<1>2. \A k \in 1 .. 16 : Agree(ModeIn(OddColumn, k, 16 + (k - 1)), 16 + (k - 1), CmosRow1[k][1], CmosRow1[k][2])
  BY DEF Agree, Pushes, Pulls, Direct, Length, OperandBytes, ModeIn, Branches, Reads, Modifies, Stores,
         OddColumn, CmosRow1
<1>3. \A k \in 1 .. 16 : Agree(ModeIn(EvenColumn, k, 32 + (k - 1)), 32 + (k - 1), CmosRow2[k][1], CmosRow2[k][2])
  BY DEF Agree, Pushes, Pulls, Direct, Length, OperandBytes, ModeIn, Branches, Reads, Modifies, Stores,
         EvenColumn, CmosRow2
<1>4. \A k \in 1 .. 16 : Agree(ModeIn(OddColumn, k, 48 + (k - 1)), 48 + (k - 1), CmosRow3[k][1], CmosRow3[k][2])
  BY DEF Agree, Pushes, Pulls, Direct, Length, OperandBytes, ModeIn, Branches, Reads, Modifies, Stores,
         OddColumn, CmosRow3
<1>5. \A k \in 1 .. 16 : Agree(ModeIn(EvenColumn, k, 64 + (k - 1)), 64 + (k - 1), CmosRow4[k][1], CmosRow4[k][2])
  BY DEF Agree, Pushes, Pulls, Direct, Length, OperandBytes, ModeIn, Branches, Reads, Modifies, Stores,
         EvenColumn, CmosRow4
<1>6. \A k \in 1 .. 16 : Agree(ModeIn(OddColumn, k, 80 + (k - 1)), 80 + (k - 1), CmosRow5[k][1], CmosRow5[k][2])
  BY DEF Agree, Pushes, Pulls, Direct, Length, OperandBytes, ModeIn, Branches, Reads, Modifies, Stores,
         OddColumn, CmosRow5
<1>7. \A k \in 1 .. 16 : Agree(ModeIn(EvenColumn, k, 96 + (k - 1)), 96 + (k - 1), CmosRow6[k][1], CmosRow6[k][2])
  BY DEF Agree, Pushes, Pulls, Direct, Length, OperandBytes, ModeIn, Branches, Reads, Modifies, Stores,
         EvenColumn, CmosRow6
<1>8. \A k \in 1 .. 16 : Agree(ModeIn(OddColumn, k, 112 + (k - 1)), 112 + (k - 1), CmosRow7[k][1], CmosRow7[k][2])
  BY DEF Agree, Pushes, Pulls, Direct, Length, OperandBytes, ModeIn, Branches, Reads, Modifies, Stores,
         OddColumn, CmosRow7
<1>9. \A k \in 1 .. 16 : Agree(ModeIn(EvenColumn, k, 128 + (k - 1)), 128 + (k - 1), CmosRow8[k][1], CmosRow8[k][2])
  BY DEF Agree, Pushes, Pulls, Direct, Length, OperandBytes, ModeIn, Branches, Reads, Modifies, Stores,
         EvenColumn, CmosRow8
<1>10. \A k \in 1 .. 16 : Agree(ModeIn(OddColumn, k, 144 + (k - 1)), 144 + (k - 1), CmosRow9[k][1], CmosRow9[k][2])
  BY DEF Agree, Pushes, Pulls, Direct, Length, OperandBytes, ModeIn, Branches, Reads, Modifies, Stores,
         OddColumn, CmosRow9
<1>11. \A k \in 1 .. 16 : Agree(ModeIn(EvenColumn, k, 160 + (k - 1)), 160 + (k - 1), CmosRowA[k][1], CmosRowA[k][2])
  BY DEF Agree, Pushes, Pulls, Direct, Length, OperandBytes, ModeIn, Branches, Reads, Modifies, Stores,
         EvenColumn, CmosRowA
<1>12. \A k \in 1 .. 16 : Agree(ModeIn(OddColumn, k, 176 + (k - 1)), 176 + (k - 1), CmosRowB[k][1], CmosRowB[k][2])
  BY DEF Agree, Pushes, Pulls, Direct, Length, OperandBytes, ModeIn, Branches, Reads, Modifies, Stores,
         OddColumn, CmosRowB
<1>13. \A k \in 1 .. 16 : Agree(ModeIn(EvenColumn, k, 192 + (k - 1)), 192 + (k - 1), CmosRowC[k][1], CmosRowC[k][2])
  BY DEF Agree, Pushes, Pulls, Direct, Length, OperandBytes, ModeIn, Branches, Reads, Modifies, Stores,
         EvenColumn, CmosRowC
<1>14. \A k \in 1 .. 16 : Agree(ModeIn(OddColumn, k, 208 + (k - 1)), 208 + (k - 1), CmosRowD[k][1], CmosRowD[k][2])
  BY DEF Agree, Pushes, Pulls, Direct, Length, OperandBytes, ModeIn, Branches, Reads, Modifies, Stores,
         OddColumn, CmosRowD
<1>15. \A k \in 1 .. 16 : Agree(ModeIn(EvenColumn, k, 224 + (k - 1)), 224 + (k - 1), CmosRowE[k][1], CmosRowE[k][2])
  BY DEF Agree, Pushes, Pulls, Direct, Length, OperandBytes, ModeIn, Branches, Reads, Modifies, Stores,
         EvenColumn, CmosRowE
<1>16. \A k \in 1 .. 16 : Agree(ModeIn(OddColumn, k, 240 + (k - 1)), 240 + (k - 1), CmosRowF[k][1], CmosRowF[k][2])
  BY SMTT(40) DEF Agree, Pushes, Pulls, Direct, Length, OperandBytes, ModeIn, Branches, Reads, Modifies, Stores,
         OddColumn, CmosRowF
<1>17. SUFFICES ASSUME NEW h \in 1 .. 16
               PROVE  \A k \in 1 .. 16 :
                        Agree(ModeIn(Column(h), k, 16 * (h - 1) + (k - 1)),
                              16 * (h - 1) + (k - 1), CmosRows[h][k][1], CmosRows[h][k][2])
  OBVIOUS
<1>18. CASE h = 1
  BY <1>18, <1>1 DEF CmosRows, Column
<1>19. CASE h = 2
  BY <1>19, <1>2 DEF CmosRows, Column
<1>20. CASE h = 3
  BY <1>20, <1>3 DEF CmosRows, Column
<1>21. CASE h = 4
  BY <1>21, <1>4 DEF CmosRows, Column
<1>22. CASE h = 5
  BY <1>22, <1>5 DEF CmosRows, Column
<1>23. CASE h = 6
  BY <1>23, <1>6 DEF CmosRows, Column
<1>24. CASE h = 7
  BY <1>24, <1>7 DEF CmosRows, Column
<1>25. CASE h = 8
  BY <1>25, <1>8 DEF CmosRows, Column
<1>26. CASE h = 9
  BY <1>26, <1>9 DEF CmosRows, Column
<1>27. CASE h = 10
  BY <1>27, <1>10 DEF CmosRows, Column
<1>28. CASE h = 11
  BY <1>28, <1>11 DEF CmosRows, Column
<1>29. CASE h = 12
  BY <1>29, <1>12 DEF CmosRows, Column
<1>30. CASE h = 13
  BY <1>30, <1>13 DEF CmosRows, Column
<1>31. CASE h = 14
  BY <1>31, <1>14 DEF CmosRows, Column
<1>32. CASE h = 15
  BY <1>32, <1>15 DEF CmosRows, Column
<1>33. CASE h = 16
  BY <1>33, <1>16 DEF CmosRows, Column
<1>. QED BY SMTT(40), <1>18, <1>19, <1>20, <1>21, <1>22, <1>23, <1>24, <1>25, <1>26, <1>27, <1>28, <1>29, <1>30, <1>31, <1>32, <1>33

LEMMA NmosRowsAgree ==
  \A h \in 1 .. 16 : \A k \in {2, 6, 10, 14} :
    Agree(ModeIn(Column(h), k, 16 * (h - 1) + (k - 1)), 16 * (h - 1) + (k - 1),
          NmosRows[h][k][1], NmosRows[h][k][2])
<1>1. \A k \in {2, 6, 10, 14} : Agree(ModeIn(EvenColumn, k, k - 1), k - 1, NmosRow0[k][1], NmosRow0[k][2])
  BY DEF Agree, Pushes, Pulls, Direct, Length, OperandBytes, ModeIn, Branches, Reads, Modifies, Stores,
         EvenColumn, NmosRow0
<1>2. \A k \in {2, 6, 10, 14} : Agree(ModeIn(OddColumn, k, 16 + (k - 1)), 16 + (k - 1), NmosRow1[k][1], NmosRow1[k][2])
  BY DEF Agree, Pushes, Pulls, Direct, Length, OperandBytes, ModeIn, Branches, Reads, Modifies, Stores,
         OddColumn, NmosRow1
<1>3. \A k \in {2, 6, 10, 14} : Agree(ModeIn(EvenColumn, k, 32 + (k - 1)), 32 + (k - 1), NmosRow2[k][1], NmosRow2[k][2])
  BY DEF Agree, Pushes, Pulls, Direct, Length, OperandBytes, ModeIn, Branches, Reads, Modifies, Stores,
         EvenColumn, NmosRow2
<1>4. \A k \in {2, 6, 10, 14} : Agree(ModeIn(OddColumn, k, 48 + (k - 1)), 48 + (k - 1), NmosRow3[k][1], NmosRow3[k][2])
  BY DEF Agree, Pushes, Pulls, Direct, Length, OperandBytes, ModeIn, Branches, Reads, Modifies, Stores,
         OddColumn, NmosRow3
<1>5. \A k \in {2, 6, 10, 14} : Agree(ModeIn(EvenColumn, k, 64 + (k - 1)), 64 + (k - 1), NmosRow4[k][1], NmosRow4[k][2])
  BY DEF Agree, Pushes, Pulls, Direct, Length, OperandBytes, ModeIn, Branches, Reads, Modifies, Stores,
         EvenColumn, NmosRow4
<1>6. \A k \in {2, 6, 10, 14} : Agree(ModeIn(OddColumn, k, 80 + (k - 1)), 80 + (k - 1), NmosRow5[k][1], NmosRow5[k][2])
  BY DEF Agree, Pushes, Pulls, Direct, Length, OperandBytes, ModeIn, Branches, Reads, Modifies, Stores,
         OddColumn, NmosRow5
<1>7. \A k \in {2, 6, 10, 14} : Agree(ModeIn(EvenColumn, k, 96 + (k - 1)), 96 + (k - 1), NmosRow6[k][1], NmosRow6[k][2])
  BY DEF Agree, Pushes, Pulls, Direct, Length, OperandBytes, ModeIn, Branches, Reads, Modifies, Stores,
         EvenColumn, NmosRow6
<1>8. \A k \in {2, 6, 10, 14} : Agree(ModeIn(OddColumn, k, 112 + (k - 1)), 112 + (k - 1), NmosRow7[k][1], NmosRow7[k][2])
  BY DEF Agree, Pushes, Pulls, Direct, Length, OperandBytes, ModeIn, Branches, Reads, Modifies, Stores,
         OddColumn, NmosRow7
<1>9. \A k \in {2, 6, 10, 14} : Agree(ModeIn(EvenColumn, k, 128 + (k - 1)), 128 + (k - 1), NmosRow8[k][1], NmosRow8[k][2])
  BY DEF Agree, Pushes, Pulls, Direct, Length, OperandBytes, ModeIn, Branches, Reads, Modifies, Stores,
         EvenColumn, NmosRow8
<1>10. \A k \in {2, 6, 10, 14} : Agree(ModeIn(OddColumn, k, 144 + (k - 1)), 144 + (k - 1), NmosRow9[k][1], NmosRow9[k][2])
  BY DEF Agree, Pushes, Pulls, Direct, Length, OperandBytes, ModeIn, Branches, Reads, Modifies, Stores,
         OddColumn, NmosRow9
<1>11. \A k \in {2, 6, 10, 14} : Agree(ModeIn(EvenColumn, k, 160 + (k - 1)), 160 + (k - 1), NmosRowA[k][1], NmosRowA[k][2])
  BY DEF Agree, Pushes, Pulls, Direct, Length, OperandBytes, ModeIn, Branches, Reads, Modifies, Stores,
         EvenColumn, NmosRowA
<1>12. \A k \in {2, 6, 10, 14} : Agree(ModeIn(OddColumn, k, 176 + (k - 1)), 176 + (k - 1), NmosRowB[k][1], NmosRowB[k][2])
  BY DEF Agree, Pushes, Pulls, Direct, Length, OperandBytes, ModeIn, Branches, Reads, Modifies, Stores,
         OddColumn, NmosRowB
<1>13. \A k \in {2, 6, 10, 14} : Agree(ModeIn(EvenColumn, k, 192 + (k - 1)), 192 + (k - 1), NmosRowC[k][1], NmosRowC[k][2])
  BY DEF Agree, Pushes, Pulls, Direct, Length, OperandBytes, ModeIn, Branches, Reads, Modifies, Stores,
         EvenColumn, NmosRowC
<1>14. \A k \in {2, 6, 10, 14} : Agree(ModeIn(OddColumn, k, 208 + (k - 1)), 208 + (k - 1), NmosRowD[k][1], NmosRowD[k][2])
  BY DEF Agree, Pushes, Pulls, Direct, Length, OperandBytes, ModeIn, Branches, Reads, Modifies, Stores,
         OddColumn, NmosRowD
<1>15. \A k \in {2, 6, 10, 14} : Agree(ModeIn(EvenColumn, k, 224 + (k - 1)), 224 + (k - 1), NmosRowE[k][1], NmosRowE[k][2])
  BY DEF Agree, Pushes, Pulls, Direct, Length, OperandBytes, ModeIn, Branches, Reads, Modifies, Stores,
         EvenColumn, NmosRowE
<1>16. \A k \in {2, 6, 10, 14} : Agree(ModeIn(OddColumn, k, 240 + (k - 1)), 240 + (k - 1), NmosRowF[k][1], NmosRowF[k][2])
  BY SMTT(40) DEF Agree, Pushes, Pulls, Direct, Length, OperandBytes, ModeIn, Branches, Reads, Modifies, Stores,
         OddColumn, NmosRowF
<1>17. SUFFICES ASSUME NEW h \in 1 .. 16
               PROVE  \A k \in {2, 6, 10, 14} :
                        Agree(ModeIn(Column(h), k, 16 * (h - 1) + (k - 1)),
                              16 * (h - 1) + (k - 1), NmosRows[h][k][1], NmosRows[h][k][2])
  OBVIOUS
<1>18. CASE h = 1
  BY <1>18, <1>1 DEF NmosRows, Column
<1>19. CASE h = 2
  BY <1>19, <1>2 DEF NmosRows, Column
<1>20. CASE h = 3
  BY <1>20, <1>3 DEF NmosRows, Column
<1>21. CASE h = 4
  BY <1>21, <1>4 DEF NmosRows, Column
<1>22. CASE h = 5
  BY <1>22, <1>5 DEF NmosRows, Column
<1>23. CASE h = 6
  BY <1>23, <1>6 DEF NmosRows, Column
<1>24. CASE h = 7
  BY <1>24, <1>7 DEF NmosRows, Column
<1>25. CASE h = 8
  BY <1>25, <1>8 DEF NmosRows, Column
<1>26. CASE h = 9
  BY <1>26, <1>9 DEF NmosRows, Column
<1>27. CASE h = 10
  BY <1>27, <1>10 DEF NmosRows, Column
<1>28. CASE h = 11
  BY <1>28, <1>11 DEF NmosRows, Column
<1>29. CASE h = 12
  BY <1>29, <1>12 DEF NmosRows, Column
<1>30. CASE h = 13
  BY <1>30, <1>13 DEF NmosRows, Column
<1>31. CASE h = 14
  BY <1>31, <1>14 DEF NmosRows, Column
<1>32. CASE h = 15
  BY <1>32, <1>15 DEF NmosRows, Column
<1>33. CASE h = 16
  BY <1>33, <1>16 DEF NmosRows, Column
<1>. QED BY <1>18, <1>19, <1>20, <1>21, <1>22, <1>23, <1>24, <1>25, <1>26, <1>27, <1>28, <1>29, <1>30, <1>31, <1>32, <1>33

LEMMA ModeIsInColumn ==
  ASSUME NEW n \in Byte, NEW h \in 1 .. 16, NEW k \in 1 .. 16, h = (n \div 16) + 1, k = (n % 16) + 1
  PROVE  AddressMode(n) = ModeIn(Column(h), k, n)
<1>1. n \in Int
  BY ByteBounds
<1>2. PICK half \in Int : half = (n \div 16) % 2
  BY <1>1
<1>3. half = 0 <=> h % 2 = 1
  BY <1>1, <1>2
<1>4. PICK column : column = Column(h)
  OBVIOUS
<1>5. column = IF half = 0 THEN EvenColumn ELSE OddColumn
  BY <1>3, <1>4 DEF Column
<1>6. ModeIn(column, k, n) = CASE n = 32 -> "abs" [] n = 128 -> "rel" [] n \in {160, 192, 224} -> "imm"
        [] n = 20 -> "zpg" [] n \in {28, 156} -> "abs" [] n \in {150, 182} -> "zpgy" [] n = 190 -> "absy"
        [] n = 108 -> "iabs" [] n = 124 -> "iabsx" [] OTHER -> column[k]
  BY DEF ModeIn
<1>7. column[k] = IF (n \div 16) % 2 = 0 THEN EvenColumn[(n % 16) + 1] ELSE OddColumn[(n % 16) + 1]
  BY <1>2, <1>5
<1>. QED BY <1>4, <1>6, <1>7 DEF AddressMode

LEMMA CmosInRow ==
  ASSUME NEW n \in Byte, NEW h \in 1 .. 16, NEW k \in 1 .. 16, h = (n \div 16) + 1, k = (n % 16) + 1
  PROVE  Opcode["cmos"][n].mode = CmosRows[h][k][1] /\ Opcode["cmos"][n].op = CmosRows[h][k][2]
<1>1. Opcode["cmos"][n] = Entry(CmosRows, n)
  BY DEF Opcode, Byte
<1>2. Entry(CmosRows, n) = [mode |-> CmosRows[h][k][1], op |-> CmosRows[h][k][2], cycles |-> CmosRows[h][k][3]]
  BY DEF Entry
<1>. QED BY <1>1, <1>2

LEMMA NmosInRow ==
  ASSUME NEW n \in Byte, NEW h \in 1 .. 16, NEW k \in 1 .. 16, h = (n \div 16) + 1, k = (n % 16) + 1
  PROVE  Opcode["nmos"][n].mode = NmosRows[h][k][1] /\ Opcode["nmos"][n].op = NmosRows[h][k][2]
<1>1. Opcode["nmos"][n] = Entry(NmosRows, n)
  BY DEF Opcode, Byte
<1>2. Entry(NmosRows, n) = [mode |-> NmosRows[h][k][1], op |-> NmosRows[h][k][2], cycles |-> NmosRows[h][k][3]]
  BY DEF Entry
<1>. QED BY <1>1, <1>2

LEMMA TablesAgree ==
  ASSUME NEW part \in {"nmos", "cmos"}, NEW n \in Byte, Described(part, n)
  PROVE  Agree(AddressMode(n), n, Opcode[part][n].mode, Opcode[part][n].op)
<1>1. PICK h \in 1 .. 16 : h = (n \div 16) + 1
  BY DEF Byte
<1>2. PICK k \in 1 .. 16 : k = (n % 16) + 1
  BY DEF Byte
<1>3. n = 16 * (h - 1) + (k - 1)
  <2>1. n \in Int
    BY ByteBounds
  <2>. QED BY <1>1, <1>2, <2>1
<1>4. AddressMode(n) = ModeIn(Column(h), k, n)
  BY <1>1, <1>2, ModeIsInColumn
<1>5. Agree(AddressMode(n), n, Opcode["cmos"][n].mode, Opcode["cmos"][n].op)
  <2>1. Opcode["cmos"][n].mode = CmosRows[h][k][1] /\ Opcode["cmos"][n].op = CmosRows[h][k][2]
    BY SMTT(40), <1>1, <1>2, CmosInRow
  <2>2. Agree(ModeIn(Column(h), k, n), n, CmosRows[h][k][1], CmosRows[h][k][2])
    BY <1>3, CmosRowsAgree
  <2>. QED BY SMTT(40), <1>4, <2>1, <2>2
<1>6. CASE part = "cmos"
  BY <1>5, <1>6
<1>7. CASE part = "nmos" /\ Opcode["nmos"][n].op = Opcode["cmos"][n].op /\ Opcode["nmos"][n].mode = Opcode["cmos"][n].mode
  BY <1>5, <1>7
<1>8. CASE part = "nmos" /\ n % 4 = 1
  <2>1. k \in {2, 6, 10, 14}
    <3>1. n \in Int
      BY ByteBounds
    <3>2. (k - 1) % 4 = 1
      BY SMTT(40), <1>2, <1>8, <3>1
    <3>. QED BY <3>2
  <2>2. Agree(ModeIn(Column(h), k, n), n, NmosRows[h][k][1], NmosRows[h][k][2])
    BY ZenonT(60), <1>3, <2>1, NmosRowsAgree
  <2>3. Opcode["nmos"][n].mode = NmosRows[h][k][1] /\ Opcode["nmos"][n].op = NmosRows[h][k][2]
    BY <1>1, <1>2, NmosInRow
  <2>. QED BY <1>4, <1>8, <2>2, <2>3
<1>9. CASE part = "nmos" /\ n = 108
  <2>1. h = 7 /\ k = 13
    BY <1>1, <1>2, <1>9
  <2>2. Opcode["nmos"][n].mode = NmosRows[h][k][1] /\ Opcode["nmos"][n].op = NmosRows[h][k][2]
    BY <1>1, <1>2, NmosInRow
  <2>3. NmosRows[h][k][1] = "iabs_nmos" /\ NmosRows[h][k][2] = "jmp"
    BY <2>1 DEF NmosRows, NmosRow6
  <2>4. AddressMode(n) = "iabs"
    BY <1>9 DEF AddressMode
  <2>5. Agree("iabs", n, "iabs_nmos", "jmp")
    BY <1>9 DEF Agree, Length, OperandBytes, Branches, Reads, Modifies, Stores, Pushes, Pulls
  <2>. QED BY <1>9, <2>2, <2>3, <2>4, <2>5
<1>10. part = "nmos" => \/ Opcode["nmos"][n].op = Opcode["cmos"][n].op /\ Opcode["nmos"][n].mode = Opcode["cmos"][n].mode
                        \/ n % 4 = 1
                        \/ n = 108
  BY DEF Described, Documented
<1>. QED BY <1>6, <1>7, <1>8, <1>9, <1>10

(* Where the debugger says an operand is, and where the processor finds it. *)

LEMMA SlotIsAbove == ASSUME NEW sp, NEW k PROVE StackSlot(sp, k) = Above(sp, k)
BY DEF StackSlot, Above, StackBegin

\* GetTargets, mode by mode.
Says(m, said, low, word, pointer) ==
  /\ said = "abs" => pointer = word
  /\ said = "absx" => pointer = Low16(word + m.r.x)
  /\ said = "absy" => pointer = Low16(word + m.r.y)
  /\ said = "iabs" => pointer = MemWord(m, word)
  /\ said = "iabsx" => pointer = MemWord(m, Low16(word + m.r.x))
  /\ said = "zpg"  => pointer = low
  /\ said = "zpgx" => pointer = Low8(low + m.r.x)
  /\ said = "zpgy" => pointer = Low8(low + m.r.y)
  /\ said = "indx" => pointer = Low16(MemWord(m, Low8(low + m.r.x)) + 0)
  /\ said = "indy" => pointer = Low16(MemWord(m, low) + m.r.y)
  /\ said = "izpg" => pointer = Low16(MemWord(m, low) + 0)
  /\ said = "rel"  => pointer = Low16(m.at + 2 + (IF low <= 127 THEN low ELSE -low))
Calls(m, said, word, pointer) ==
  /\ said = "abs" => pointer = word
  /\ said = "imp" /\ m.instr[1] \in StackWrites \cup StackReads => pointer = StackTargets(m, m.instr[1]).pointer

LEMMA PointersSaid ==
  ASSUME NEW m
  PROVE  LET said == AddressMode(m.instr[1])
             word == m.instr[2] + 256 * m.instr[3]
         IN  /\ m.instr[1] # JsrOpcode => Says(m, said, m.instr[2], word, GetTargets(m, FALSE).pointer)
             /\ Calls(m, said, word, GetTargets(m, FALSE).pointer)
<1>1. PICK said : said = AddressMode(m.instr[1])
  OBVIOUS
<1>2. PICK low : low = m.instr[2]
  OBVIOUS
<1>3. PICK word : word = m.instr[2] + 256 * m.instr[3]
  OBVIOUS
<1>4. PICK pointer : pointer = GetTargets(m, FALSE).pointer
  OBVIOUS
<1>5. CASE said \in {"abs", "absx", "absy"}
  BY <1>1, <1>2, <1>3, <1>4, <1>5, ZenonT(60) DEF GetTargets, NoTargets, Says, Calls
<1>6. CASE said \in {"iabs", "iabsx"}
  BY <1>1, <1>2, <1>3, <1>4, <1>6, ZenonT(60) DEF GetTargets, NoTargets, Says, Calls
<1>7. CASE said \in {"zpg", "zpgx", "zpgy"}
  BY <1>1, <1>2, <1>3, <1>4, <1>7, ZenonT(60) DEF GetTargets, NoTargets, Says, Calls
<1>8. CASE said \in {"indx", "indy", "izpg"}
  BY <1>1, <1>2, <1>3, <1>4, <1>8, ZenonT(60) DEF GetTargets, NoTargets, Says, Calls
<1>9. CASE said = "rel"
  BY <1>1, <1>2, <1>3, <1>4, <1>9, ZenonT(60) DEF GetTargets, NoTargets, Says, Calls
<1>10. CASE said = "imp"
  BY <1>1, <1>2, <1>3, <1>4, <1>10 DEF GetTargets, Says, Calls
<1>11. CASE said \notin {"abs", "absx", "absy", "iabs", "iabsx", "zpg", "zpgx", "zpgy", "indx", "indy", "izpg", "rel", "imp"}
  BY <1>1, <1>2, <1>3, <1>4, <1>11 DEF Says, Calls
<1>. QED BY <1>1, <1>2, <1>3, <1>4, <1>5, <1>6, <1>7, <1>8, <1>9, <1>10, <1>11

LEMMA WordInPage ==
  ASSUME NEW m, NEW p \in Byte, p # 255
  PROVE  ZeroPageWord(m, p) = MemWord(m, p)
<1>1. p \in Int /\ 0 <= p /\ p < 255
  BY ByteBounds
<1>2. Low8(p + 1) = p + 1
  BY <1>1 DEF Low8
<1>. QED BY <1>2 DEF ZeroPageWord, MemWord

LEMMA WordStays == ASSUME NEW w \in Word PROVE Low16(w) = w /\ Low16(w + 0) = w
<1>1. w \in Int /\ 0 <= w /\ w <= 65535
  BY WordBounds
<1>. QED BY <1>1 DEF Low16

LEMMA OperandFound ==
  ASSUME NEW m, IsMachine(m), NEW mode \in Direct, AddressMode(m.instr[1]) = mode, m.instr[1] # 32,
         ~WrapsItsPointer(m)
  PROVE  GetTargets(m, FALSE).pointer = EffectiveAddress(mode, m).addr
<1>1. PICK low \in Byte : low = m.instr[2]
  BY InstructionBytes DEF IsMachine
<1>2. PICK word \in Word : word = m.instr[2] + 256 * m.instr[3]
  BY InstructionBytes, WordOf DEF IsMachine
<1>3. m.r.x \in Byte /\ m.r.y \in Byte
  BY FieldsAre DEF IsMachine
<1>4. PICK p \in Byte : p = Low8(low + m.r.x)
  <2>1. low + m.r.x \in Int
    BY <1>3, ByteBounds
  <2>. QED BY <2>1, LowIs
<1>5. PICK pointer : pointer = GetTargets(m, FALSE).pointer
  OBVIOUS
<1>10. Says(m, mode, low, word, pointer)
  BY <1>1, <1>2, <1>5, PointersSaid DEF JsrOpcode
<1>6. CASE mode \in {"zpg", "zpgx", "zpgy", "abs"}
  <2>1. /\ mode = "zpg" => EffectiveAddress(mode, m).addr = low
        /\ mode = "zpgx" => EffectiveAddress(mode, m).addr = Low8(low + m.r.x)
        /\ mode = "zpgy" => EffectiveAddress(mode, m).addr = Low8(low + m.r.y)
        /\ mode = "abs" => EffectiveAddress(mode, m).addr = word
    BY <1>1, <1>2, <1>6 DEF EffectiveAddress, Plain
  <2>2. /\ mode = "zpg" => pointer = low
        /\ mode = "zpgx" => pointer = Low8(low + m.r.x)
        /\ mode = "zpgy" => pointer = Low8(low + m.r.y)
        /\ mode = "abs" => pointer = word
    BY <1>10 DEF Says
  <2>. QED BY <1>5, <1>6, <2>1, <2>2
<1>7. CASE mode \in {"absx", "absy"}
  <2>1. /\ mode = "absx" => EffectiveAddress(mode, m).addr = Low16(word + m.r.x)
        /\ mode = "absy" => EffectiveAddress(mode, m).addr = Low16(word + m.r.y)
    BY <1>2, <1>7 DEF EffectiveAddress, Indexed
  <2>2. /\ mode = "absx" => pointer = Low16(word + m.r.x)
        /\ mode = "absy" => pointer = Low16(word + m.r.y)
    BY <1>10 DEF Says
  <2>. QED BY <1>5, <1>7, <2>1, <2>2
<1>8. CASE mode \in {"indx", "izpg"}
  <2>1. PICK q \in Byte : q = IF mode = "indx" THEN p ELSE low
    OBVIOUS
  <2>2. q # 255
    BY <1>1, <1>4, <1>8, <2>1 DEF WrapsItsPointer
  <2>3. PICK w \in Word : w = MemWord(m, q)
    BY MemWordIsWord, ByteBounds
  <2>4. EffectiveAddress(mode, m).addr = w
    <3>1. EffectiveAddress(mode, m).addr = ZeroPageWord(m, q)
      BY <1>1, <1>4, <1>8, <2>1 DEF EffectiveAddress, Plain
    <3>. QED BY <2>2, <2>3, <3>1, WordInPage
  <2>5. pointer = Low16(w + 0)
    <3>1. /\ mode = "indx" => pointer = Low16(MemWord(m, Low8(low + m.r.x)) + 0)
          /\ mode = "izpg" => pointer = Low16(MemWord(m, low) + 0)
      BY <1>10 DEF Says
    <3>. QED BY <1>4, <1>8, <2>1, <2>3, <3>1
  <2>. QED BY <1>5, <2>4, <2>5, WordStays
<1>9. CASE mode = "indy"
  <2>1. low # 255
    BY <1>1, <1>9 DEF WrapsItsPointer
  <2>2. EffectiveAddress(mode, m).addr = Low16(ZeroPageWord(m, low) + m.r.y)
    BY <1>1, <1>9 DEF EffectiveAddress, Indexed
  <2>3. ZeroPageWord(m, low) = MemWord(m, low)
    BY <2>1, WordInPage
  <2>4. pointer = Low16(MemWord(m, low) + m.r.y)
    BY <1>9, <1>10 DEF Says
  <2>. QED BY <1>5, <2>2, <2>3, <2>4
<1>. QED BY <1>6, <1>7, <1>8, <1>9 DEF Direct

(* Where it says a jump, a call, a return or a branch goes. *)

LEMMA JumpFound ==
  ASSUME NEW m, IsMachine(m), NEW mode, NEW said, said = AddressMode(m.instr[1]), ~WrapsItsPointer(m), m.instr[1] # 32,
         \/ mode = "abs" /\ said = "abs"
         \/ mode \in {"iabs_nmos", "iabs_cmos"} /\ said = "iabs"
         \/ mode = "iabsx" /\ said = "iabsx"
  PROVE  GetTargets(m, FALSE).pointer = EffectiveAddress(mode, m).addr
<1>1. PICK low \in Byte : low = m.instr[2]
  BY InstructionBytes DEF IsMachine
<1>2. PICK word \in Word : word = m.instr[2] + 256 * m.instr[3]
  BY InstructionBytes, WordOf DEF IsMachine
<1>3. PICK pointer : pointer = GetTargets(m, FALSE).pointer
  OBVIOUS
<1>4. /\ said = "abs" => pointer = word
      /\ said = "iabs" => pointer = MemWord(m, word)
      /\ said = "iabsx" => pointer = MemWord(m, Low16(word + m.r.x))
  <2>1. Says(m, said, low, word, pointer)
    BY <1>1, <1>2, <1>3, PointersSaid DEF JsrOpcode
  <2>. QED BY <2>1 DEF Says
<1>5. CASE mode = "abs"
  <2>1. EffectiveAddress(mode, m).addr = word
    BY <1>2, <1>5 DEF EffectiveAddress, Plain
  <2>. QED BY <1>3, <1>4, <1>5, <2>1
<1>6. CASE mode = "iabs_cmos"
  <2>1. EffectiveAddress(mode, m).addr = MemWord(m, word)
    BY <1>2, <1>6 DEF EffectiveAddress, Plain
  <2>. QED BY <1>3, <1>4, <1>6, <2>1
<1>7. CASE mode = "iabs_nmos"
  <2>1. low # 255
    BY <1>1, <1>7 DEF WrapsItsPointer
  <2>2. EffectiveAddress(mode, m).addr = Mem(m, word) + 256 * Mem(m, IF low = 255 THEN word - 255 ELSE word + 1)
    BY <1>1, <1>2, <1>7 DEF EffectiveAddress, Plain
  <2>3. EffectiveAddress(mode, m).addr = MemWord(m, word)
    BY <2>1, <2>2 DEF MemWord
  <2>. QED BY <1>3, <1>4, <1>7, <2>3
<1>8. CASE mode = "iabsx"
  <2>1. PICK w \in Int : w = word + m.r.x /\ 0 <= w /\ w < 65535
    <3>1. word \in Int /\ 0 <= word /\ m.r.x \in Int /\ 0 <= m.r.x
      BY FieldsAre, ByteBounds, WordBounds DEF IsMachine
    <3>2. ~(word + m.r.x >= 65535)
      <4>1. said = "iabsx"
        BY <1>8
      <4>. QED BY <1>2, <4>1 DEF WrapsItsPointer
    <3>. QED BY <3>1, <3>2
  <2>2. Low16(w) = w
    BY <2>1 DEF Low16
  <2>3. EffectiveAddress(mode, m).addr = MemWord(m, w)
    BY <1>2, <1>8, <2>1 DEF EffectiveAddress, Plain
  <2>4. pointer = MemWord(m, Low16(word + m.r.x))
    BY <1>4, <1>8
  <2>5. Low16(word + m.r.x) = w
    BY <2>1, <2>2
  <2>. QED BY <1>3, <2>3, <2>4, <2>5
<1>9. mode \in {"abs", "iabs_cmos", "iabs_nmos", "iabsx"}
  OBVIOUS
<1>. QED BY <1>5, <1>6, <1>7, <1>8, <1>9

LEMMA MemSame == ASSUME NEW m, NEW n, n.at = m.at, n.instr = m.instr, n.ram = m.ram, NEW addr PROVE Mem(n, addr) = Mem(m, addr)
BY DEF Mem

LEMMA SlotsBack ==
  ASSUME NEW m, IsMachine(m), m.instr[1] \in {RtsOpcode, RtiOpcode}
  PROVE  LET k == IF m.instr[1] = RtiOpcode THEN 1 ELSE 0
             back == Mem(m, Above(m.r.sp, k + 1)) + 256 * Mem(m, Above(m.r.sp, k + 2))
         IN  StackTargets(m, m.instr[1]).pointer = IF m.instr[1] = RtiOpcode THEN back ELSE Low16(back + 1)
<1>1. PICK sp \in Int : sp = m.r.sp
  BY FieldsAre, StackBounds DEF IsMachine
<1>2. CASE m.instr[1] = RtiOpcode
  <2>1. Above(sp + 1, 1) = Above(sp, 1 + 1) /\ Above(sp + 1, 2) = Above(sp, 1 + 2)
    <3>1. sp + 1 + 1 = sp + (1 + 1) /\ sp + 1 + 2 = sp + (1 + 2)
      OBVIOUS
    <3>. QED BY <3>1 DEF Above
  <2>2. StackTargets(m, m.instr[1]).pointer
          = Mem(m, StackSlot(sp + 1, 1)) + 256 * Mem(m, StackSlot(sp + 1, 2))
    BY <1>1, <1>2 DEF StackTargets, RtiOpcode, RtsOpcode, BrkOpcode
  <2>3. StackTargets(m, m.instr[1]).pointer = Mem(m, Above(sp, 1 + 1)) + 256 * Mem(m, Above(sp, 1 + 2))
    BY <2>1, <2>2, SlotIsAbove
  <2>. QED BY <1>1, <1>2, <2>3
<1>3. CASE m.instr[1] = RtsOpcode /\ m.instr[1] # RtiOpcode
  <2>1. StackTargets(m, m.instr[1]).pointer
          = Low16(Mem(m, StackSlot(sp, 1)) + 256 * Mem(m, StackSlot(sp, 2)) + 1)
    BY <1>1, <1>3 DEF StackTargets, RtiOpcode, RtsOpcode, BrkOpcode
  <2>2. StackTargets(m, m.instr[1]).pointer = Low16(Mem(m, Above(sp, 1)) + 256 * Mem(m, Above(sp, 2)) + 1)
    BY <2>1, SlotIsAbove
  <2>. QED BY <1>1, <1>3, <2>2
<1>. QED BY <1>2, <1>3

LEMMA ReturnFound ==
  ASSUME NEW part, NEW m, IsMachine(m), NEW mode, NEW addr, NEW op \in {"rts", "rti"},
         m.instr[1] = IF op = "rti" THEN RtiOpcode ELSE RtsOpcode
  PROVE  StackOp(part, op, Advanced(m, mode), addr).r.pc = StackTargets(m, m.instr[1]).pointer
<1>1. PICK n : n = Advanced(m, mode)
  OBVIOUS
<1>2. IsMachine(n) /\ n.at = m.at /\ n.instr = m.instr /\ n.ram = m.ram /\ n.r.sp = m.r.sp
  BY <1>1, AdvancedIs DEF Became
<1>3. RtiOpcode # RtsOpcode
  BY DEF RtiOpcode, RtsOpcode
<1>4. \A a : Mem(n, a) = Mem(m, a)
  BY <1>2, MemSame
<1>5. CASE op = "rti"
  <2>1. StackOp(part, "rti", n, addr).r.pc = Mem(n, Above(n.r.sp, 2)) + 256 * Mem(n, Above(n.r.sp, 3))
    BY <1>2, ReturnIs
  <2>2. StackTargets(m, m.instr[1]).pointer = Mem(m, Above(m.r.sp, 1 + 1)) + 256 * Mem(m, Above(m.r.sp, 1 + 2))
    BY <1>5, SlotsBack
  <2>3. StackTargets(m, m.instr[1]).pointer = Mem(m, Above(m.r.sp, 2)) + 256 * Mem(m, Above(m.r.sp, 3))
    BY <2>2
  <2>. QED BY <1>1, <1>2, <1>4, <1>5, <2>1, <2>3
<1>6. CASE op = "rts"
  <2>1. PICK p : p = PopWord(n)
    OBVIOUS
  <2>2. p.v = Mem(n, Above(n.r.sp, 1)) + 256 * Mem(n, Above(n.r.sp, 2)) /\ IsMachine(p.m)
    BY ZenonT(60), <1>2, <2>1, PopWordIs DEF Became
  <2>3. PICK w : w = Low16(p.v + 1)
    OBVIOUS
  <2>4. StackOp(part, "rts", n, addr) = AtCounter(p.m, w)
    BY <2>1, <2>3 DEF StackOp, AtCounter
  <2>5. AtCounter(p.m, w).r.pc = w
    BY <2>2 DEF AtCounter, IsMachine, Registers
  <2>6. StackTargets(m, m.instr[1]).pointer
          = Low16(Mem(m, Above(m.r.sp, 0 + 1)) + 256 * Mem(m, Above(m.r.sp, 0 + 2)) + 1)
    BY <1>3, <1>6, SlotsBack
  <2>7. StackTargets(m, m.instr[1]).pointer
          = Low16(Mem(m, Above(m.r.sp, 1)) + 256 * Mem(m, Above(m.r.sp, 2)) + 1)
    BY <2>6
  <2>. QED BY <1>1, <1>2, <1>4, <1>6, <2>2, <2>3, <2>4, <2>5, <2>7
<1>. QED BY <1>5, <1>6

LEMMA BranchFound ==
  ASSUME NEW m, IsMachine(m), AddressMode(m.instr[1]) = "rel", m.instr[1] # JsrOpcode, m.instr[2] <= 127, m.at = m.r.pc
  PROVE  GetTargets(m, FALSE).pointer
           = Low16(Advanced(m, "rel").r.pc + EffectiveAddress("rel", m).addr)
<1>1. PICK low \in Byte : low = m.instr[2]
  BY InstructionBytes DEF IsMachine
<1>2. PICK at \in Word : at = m.at
  BY DEF IsMachine
<1>3. low \in Int /\ 0 <= low /\ low <= 127 /\ at \in Int
  BY <1>1, ByteBounds, WordBounds
<1>4. GetTargets(m, FALSE).pointer = Low16(at + 2 + low)
  <2>1. PICK word : word = m.instr[2] + 256 * m.instr[3]
    OBVIOUS
  <2>2. PICK pointer : pointer = GetTargets(m, FALSE).pointer
    OBVIOUS
  <2>3. Says(m, "rel", low, word, pointer)
    BY <1>1, <2>1, <2>2, PointersSaid
  <2>4. pointer = Low16(m.at + 2 + (IF low <= 127 THEN low ELSE -low))
    BY <2>3 DEF Says
  <2>. QED BY <1>2, <1>3, <2>2, <2>4
<1>5. EffectiveAddress("rel", m).addr = low
  BY <1>1, <1>3 DEF EffectiveAddress, Plain, SignExtended
<1>6. Advanced(m, "rel").r.pc = Low16(at + 1 + 1)
  <2>1. Advanced(m, "rel").r.pc = Low16(m.r.pc + 1 + OperandBytes("rel"))
    BY AdvancedIs
  <2>2. OperandBytes("rel") = 1
    BY DEF OperandBytes
  <2>. QED BY <1>2, <2>1, <2>2
<1>7. Low16(Low16(at + 1 + 1) + low) = Low16(at + 2 + low)
  BY <1>3 DEF Low16
<1>. QED BY <1>4, <1>5, <1>6, <1>7

LEMMA EntrySpares ==
  ASSUME NEW m, IsMachine(m), NEW ps, NEW a \in Int, a > 511
  PROVE  /\ a \in DOMAIN EntryMemory(m, ps) <=> a \in DOMAIN m.ram
         /\ a \in DOMAIN m.ram => EntryMemory(m, ps)[a] = m.ram[a]
<1>1. PICK sp \in Int : sp = m.r.sp /\ sp <= 511
  BY FieldsAre, StackBounds DEF IsMachine
<1>2. PICK one \in Int : one = Above(sp, -1) /\ one <= 511
  BY <1>1, AboveNear, StackBounds
<1>3. PICK two \in Int : two = Above(sp, -2) /\ two <= 511
  BY <1>1, AboveNear, StackBounds
<1>4. a # sp /\ a # one /\ a # two
  BY <1>1, <1>2, <1>3
<1>5. PICK hi : hi = m.r.pc \div 256
  OBVIOUS
<1>6. PICK lo : lo = Low8(m.r.pc)
  OBVIOUS
<1>7. PICK first : first = WithByte(m.ram, sp, hi)
  OBVIOUS
<1>8. PICK second : second = WithByte(first, one, lo)
  OBVIOUS
<1>9. EntryMemory(m, ps) = WithByte(second, two, ps)
  BY <1>1, <1>2, <1>3, <1>5, <1>6, <1>7, <1>8 DEF EntryMemory
<1>10. (a \in DOMAIN first <=> a \in DOMAIN m.ram) /\ (a \in DOMAIN m.ram => first[a] = m.ram[a])
  BY <1>4, <1>7 DEF WithByte
<1>11. (a \in DOMAIN second <=> a \in DOMAIN first) /\ (a \in DOMAIN first => second[a] = first[a])
  BY <1>4, <1>8 DEF WithByte
<1>12. /\ a \in DOMAIN WithByte(second, two, ps) <=> a \in DOMAIN second
       /\ a \in DOMAIN second => WithByte(second, two, ps)[a] = second[a]
  BY <1>4 DEF WithByte
<1>. QED BY <1>9, <1>10, <1>11, <1>12

LEMMA HandlerStarts ==
  ASSUME NEW part, NEW m, IsMachine(m), NEW vector \in Word, vector > 511, NEW break
  PROVE  EnterHandler(part, m, vector, break).r.pc = MemWord(m, vector)
<1>1. PICK e : e = EnterHandler(part, m, vector, break)
  OBVIOUS
<1>2. PICK ps : ps = pack_ps(m.r) - (IF break THEN 0 ELSE 16)
  OBVIOUS
<1>3. IsMachine(e) /\ e.at = m.at /\ e.instr = m.instr /\ e.ram = EntryMemory(m, ps)
  BY <1>1, <1>2, EnterHandlerIs
<1>4. PICK s : s = push(PushWord(m, m.r.pc), pack_ps(m.r) - (IF break THEN 0 ELSE 16))
  OBVIOUS
<1>5. PICK t : t = [s EXCEPT !.r.i = 1, !.r.d = IF part = "cmos" THEN 0 ELSE @]
  OBVIOUS
<1>6. PICK w : w = MemWord(t, vector)
  OBVIOUS
<1>7. e = AtCounter(t, w)
  BY <1>1, <1>4, <1>5, <1>6 DEF EnterHandler, AtCounter
<1>8. t.at = e.at /\ t.instr = e.instr /\ t.ram = e.ram /\ e.r.pc = w
  BY <1>3, <1>7 DEF AtCounter, IsMachine, Registers
<1>9. ASSUME NEW a \in Int, a > 511 PROVE Mem(t, a) = Mem(m, a)
  <2>1. /\ a \in DOMAIN t.ram <=> a \in DOMAIN m.ram
        /\ a \in DOMAIN m.ram => t.ram[a] = m.ram[a]
    BY <1>3, <1>8, <1>9, EntrySpares
  <2>. QED BY <1>3, <1>8, <2>1 DEF Mem
<1>10. vector \in Int /\ vector + 1 \in Int /\ vector + 1 > 511
  BY WordBounds
<1>11. Mem(t, vector) = Mem(m, vector) /\ Mem(t, vector + 1) = Mem(m, vector + 1)
  BY <1>9, <1>10
<1>. QED BY <1>1, <1>6, <1>8, <1>11 DEF MemWord

LEMMA BreakFound ==
  ASSUME NEW part, NEW m, IsMachine(m), NEW mode, NEW addr
  PROVE  StackOp(part, "brk", Advanced(m, mode), addr).r.pc = MemWord(m, IrqVector)
<1>1. PICK n : n = Advanced(m, mode)
  OBVIOUS
<1>2. IsMachine(n) /\ n.at = m.at /\ n.instr = m.instr /\ n.ram = m.ram
  BY <1>1, AdvancedIs DEF Became
<1>3. PICK b : b = [n EXCEPT !.r.pc = Low16(n.r.pc + 1)]
  OBVIOUS
<1>4. IsMachine(b) /\ b.at = m.at /\ b.instr = m.instr /\ b.ram = m.ram
  BY <1>2, <1>3, BreakIs DEF Became
<1>5. PICK break : break = TRUE
  OBVIOUS
<1>6. StackOp(part, "brk", n, addr) = EnterHandler(part, b, IrqVector, break)
  BY <1>2, <1>3, <1>5, BreakIs
<1>7. EnterHandler(part, b, IrqVector, break).r.pc = MemWord(b, IrqVector)
  <2>1. IrqVector \in Word /\ IrqVector > 511
    BY VectorsAreWords DEF IrqVector
  <2>. QED BY <1>4, <2>1, HandlerStarts
<1>8. MemWord(b, IrqVector) = MemWord(m, IrqVector)
  BY <1>4, MemSame DEF MemWord
<1>. QED BY <1>1, <1>6, <1>7, <1>8

LEMMA PopAddressIs == ASSUME NEW sp \in StackBegin .. StackEnd PROVE PopAddress(sp) = Above(sp, 1)
<1>1. sp \in Int /\ 256 <= sp /\ sp <= 511
  BY StackBounds
<1>. QED BY <1>1 DEF PopAddress, Above, Low8, StackBegin, StackEnd

LEMMA SlotsNamed ==
  ASSUME NEW m, IsMachine(m), NEW n, n = m.instr[1], n \in {8, 72, 90, 218, 40, 104, 122, 250}
  PROVE  StackTargets(m, n).pointer = IF n \in StackWrites THEN m.r.sp ELSE PopAddress(m.r.sp)
<1>1. PICK sp \in StackBegin .. StackEnd : sp = m.r.sp
  BY FieldsAre DEF IsMachine
<1>2. n # RtiOpcode /\ n # RtsOpcode /\ n # BrkOpcode
  BY DEF RtiOpcode, RtsOpcode, BrkOpcode
<1>3. StackTargets(m, n).pointer = StackSlot(sp, IF n \in StackWrites THEN 0 ELSE 1)
  BY <1>1, <1>2 DEF StackTargets, NoTargets
<1>4. StackSlot(sp, 0) = sp
  BY SlotIsAbove, AboveNone
<1>5. StackSlot(sp, 1) = PopAddress(sp)
  BY SlotIsAbove, PopAddressIs
<1>. QED BY <1>1, <1>3, <1>4, <1>5

LEMMA OffsetComesBack ==
  ASSUME NEW low \in Byte, NEW at \in Word, at + 2 + Displacement(low) \in Word
  PROVE  CalcRelativeOffset(at, Low16(at + 2 + SignExtended(low))) = [byte |-> low, bad |-> FALSE]
<1>1. low \in Int /\ 0 <= low /\ low <= 255 /\ at \in Int
  BY ByteBounds, WordBounds
<1>2. PICK d \in Int : d = Displacement(low) /\ -128 <= d /\ d <= 127 /\ (d = low \/ d = low - 256)
  BY <1>1 DEF Displacement
<1>3. Low16(at + 2 + SignExtended(low)) = at + 2 + d
  <2>1. at + 2 + d \in Int /\ 0 <= at + 2 + d /\ at + 2 + d <= 65535
    BY <1>2, WordBounds
  <2>2. SignExtended(low) = d \/ SignExtended(low) = d + 65536
    BY <1>1, <1>2 DEF SignExtended, Displacement
  <2>. QED BY <1>1, <1>2, <2>1, <2>2 DEF Low16
<1>4. PICK t \in Int : t = at + 2 + d
  BY <1>1, <1>2
<1>5. t - at - 2 = d
  BY <1>1, <1>2, <1>4
<1>6. Low8(d) = low
  BY <1>1, <1>2 DEF Low8
<1>7. CalcRelativeOffset(at, t) = [byte |-> Low8(d), bad |-> (d > 127 \/ d < -128)]
  BY <1>5 DEF CalcRelativeOffset
<1>8. (d > 127 \/ d < -128) = FALSE
  BY <1>2
<1>. QED BY <1>3, <1>4, <1>6, <1>7, <1>8

LEMMA LengthIs == ASSUME NEW n PROVE GetOpmodeOpbyte(n) = Length(AddressMode(n))
BY DEF GetOpmodeOpbyte, Length

\* Where control goes, op by op.
LEMMA GoesWhereSaid ==
  ASSUME NEW part, NEW m, IsMachine(m), m.at = m.r.pc, NEW mode \in Modes, NEW op, Goes(op),
         NEW n \in Byte, n = m.instr[1], Agree(AddressMode(n), n, mode, op),
         ~WrapsItsPointer(m), ~BranchesBack(m), op \in Branches => BranchTaken(op, m.r)
  PROVE  GetTargets(m, FALSE).pointer = Done(part, op, mode, m, Advanced(m, mode), EffectiveAddress(mode, m)).r.pc
<1>1. PICK ea : ea = EffectiveAddress(mode, m)
  OBVIOUS
<1>2. Address(ea)
  BY <1>1, EffectiveAddressIs
<1>3. PICK a : a = Advanced(m, mode)
  OBVIOUS
<1>4. IsMachine(a) /\ a.r \in Registers /\ a.r.pc \in Word
  BY <1>3, AdvancedIs DEF Became
<1>5. PICK done : done = Done(part, op, mode, m, a, ea)
  OBVIOUS
<1>6. PICK pointer : pointer = GetTargets(m, FALSE).pointer
  OBVIOUS
<1>7. PICK said : said = AddressMode(n)
  OBVIOUS
<1>8. PICK word : word = m.instr[2] + 256 * m.instr[3]
  OBVIOUS
<1>9. Calls(m, said, word, pointer)
  BY <1>6, <1>7, <1>8, PointersSaid
<1>10. CASE op \in Branches
  <2>1. mode = "rel" /\ said = "rel"
    BY <1>7, <1>10 DEF Agree
  <2>2. m.instr[2] \in Byte /\ ~(m.instr[2] > 127)
    BY <1>7, <2>1, InstructionBytes DEF BranchesBack, IsMachine
  <2>3. m.instr[2] <= 127
    BY SMTT(40), <2>2, ByteBounds
  <2>4. n # JsrOpcode
    BY <1>7, <2>1 DEF AddressMode, JsrOpcode
  <2>5. pointer = Low16(a.r.pc + ea.addr)
    BY <1>1, <1>3, <1>6, <1>7, <2>1, <2>3, <2>4, BranchFound
  <2>6. PICK w : w = Low16(a.r.pc + ea.addr)
    OBVIOUS
  <2>7. done = AtCounter(a, w)
    BY <1>5, <1>10, <2>6, BranchDone
  <2>8. AtCounter(a, w).r.pc = w
    BY <1>4 DEF AtCounter, IsMachine, Registers
  <2>. QED BY <1>1, <1>3, <1>5, <1>6, <2>5, <2>6, <2>7, <2>8
<1>11. CASE op \in {"jmp", "jsr", "rts", "rti", "brk"}
  <2>1. done = StackOp(part, op, a, ea.addr)
    BY <1>5, <1>11, StackOpDone DEF StackOps
  <2>2. PICK w : w = ea.addr
    OBVIOUS
  <2>3. CASE op = "jmp"
    <3>1. pointer = w
      <4>1. n # 32 /\ (\/ mode = "abs" /\ said = "abs"
                       \/ mode \in {"iabs_nmos", "iabs_cmos"} /\ said = "iabs"
                       \/ mode = "iabsx" /\ said = "iabsx")
        <5>1. \/ mode = "abs" /\ said = "abs" /\ n # 32
              \/ mode \in {"iabs_nmos", "iabs_cmos"} /\ said = "iabs"
              \/ mode = "iabsx" /\ said = "iabsx"
          BY <1>7, <2>3 DEF Agree
        <5>2. n = 32 => said = "abs"
          BY <1>7 DEF AddressMode
        <5>. QED BY <5>1, <5>2
      <4>. QED BY <1>1, <1>6, <1>7, <2>2, <4>1, JumpFound
    <3>2. done = AtCounter(a, w)
      BY <2>1, <2>2, <2>3 DEF StackOp, AtCounter
    <3>3. AtCounter(a, w).r.pc = w
      BY <1>4 DEF AtCounter, IsMachine, Registers
    <3>. QED BY <1>1, <1>3, <1>5, <1>6, <3>1, <3>2, <3>3
  <2>4. CASE op = "jsr"
    <3>1. n = 32 /\ mode = "abs" /\ said = "abs"
      BY <1>7, <2>4 DEF Agree
    <3>2. pointer = word
      BY <1>9, <3>1 DEF Calls
    <3>3. w = word
      BY <1>1, <1>8, <2>2, <3>1 DEF EffectiveAddress, Plain
    <3>4. PICK p : p = PushWord(a, Low16(a.r.pc - 1))
      OBVIOUS
    <3>5. IsMachine(p)
      <4>1. Low16(a.r.pc - 1) \in Word
        BY <1>4, WordBounds, LowIs
      <4>. QED BY <1>4, <3>4, <4>1, PushWordIs DEF Became
    <3>6. done = AtCounter(p, w)
      BY <2>1, <2>2, <2>4, <3>4 DEF StackOp, AtCounter
    <3>7. AtCounter(p, w).r.pc = w
      BY <3>5 DEF AtCounter, IsMachine, Registers
    <3>. QED BY <1>1, <1>3, <1>5, <1>6, <3>2, <3>3, <3>6, <3>7
  <2>5. CASE op \in {"rts", "rti"}
    <3>1. said = "imp" /\ n = IF op = "rti" THEN RtiOpcode ELSE RtsOpcode
      BY <1>7, <2>5 DEF Agree, RtiOpcode, RtsOpcode
    <3>2. n \in StackWrites \cup StackReads
      BY <3>1 DEF StackWrites, StackReads, RtiOpcode, RtsOpcode
    <3>3. pointer = StackTargets(m, n).pointer
      BY <1>9, <3>1, <3>2 DEF Calls
    <3>4. StackOp(part, op, a, w).r.pc = StackTargets(m, n).pointer
      <4>1. m.instr[1] = IF op = "rti" THEN RtiOpcode ELSE RtsOpcode
        BY <3>1
      <4>2. StackOp(part, op, Advanced(m, mode), w).r.pc = StackTargets(m, m.instr[1]).pointer
        BY <2>5, <4>1, ReturnFound
      <4>. QED BY <1>3, <4>2
    <3>. QED BY <1>1, <1>3, <1>5, <1>6, <2>1, <2>2, <3>3, <3>4
  <2>6. CASE op = "brk"
    <3>1. said = "imp" /\ n = BrkOpcode
      BY <1>7, <2>6 DEF Agree, BrkOpcode
    <3>2. n \in StackWrites \cup StackReads
      BY <3>1 DEF StackWrites, BrkOpcode
    <3>3. pointer = StackTargets(m, n).pointer
      BY <1>9, <3>1, <3>2 DEF Calls
    <3>4. StackTargets(m, n).pointer = MemWord(m, IrqVector)
      BY <3>1 DEF StackTargets, BrkOpcode, RtiOpcode, RtsOpcode
    <3>5. StackOp(part, "brk", a, ea.addr).r.pc = MemWord(m, IrqVector)
      BY <1>3, BreakFound
    <3>. QED BY <1>1, <1>3, <1>5, <1>6, <2>1, <2>6, <3>3, <3>4, <3>5
  <2>. QED BY <1>11, <2>3, <2>4, <2>5, <2>6
<1>. QED BY <1>10, <1>11 DEF Goes

\* The parts of DebuggerPredictsTheCpu.
LEMMA OperandSaid ==
  ASSUME NEW m, IsMachine(m), NEW mode, mode # "imm", NEW op \in Reads \cup Modifies \cup Stores,
         NEW n, n = m.instr[1], Agree(AddressMode(n), n, mode, op), ~WrapsItsPointer(m)
  PROVE  GetTargets(m, FALSE).pointer = EffectiveAddress(mode, m).addr
<1>1. mode \in Direct /\ AddressMode(n) = mode /\ n # 32
  BY DEF Agree
<1>. QED BY <1>1, OperandFound

LEMMA SlotSaid ==
  ASSUME NEW m, IsMachine(m), NEW mode, NEW op \in StackOps \ {"jmp", "hlt", "brk", "rti", "rts", "jsr"},
         NEW n, n = m.instr[1], Agree(AddressMode(n), n, mode, op)
  PROVE  GetTargets(m, FALSE).pointer = IF n \in StackWrites THEN m.r.sp ELSE PopAddress(m.r.sp)
<1>1. op \in Pushes \/ op \in Pulls
  BY DEF StackOps, Pushes, Pulls
<1>2. AddressMode(n) = "imp" /\ n \in {8, 72, 90, 218, 40, 104, 122, 250}
  BY <1>1 DEF Agree
<1>3. n \in StackWrites \cup StackReads
  BY <1>2 DEF StackWrites, StackReads
<1>4. PICK pointer : pointer = GetTargets(m, FALSE).pointer
  OBVIOUS
<1>5. PICK word : word = m.instr[2] + 256 * m.instr[3]
  OBVIOUS
<1>6. Calls(m, AddressMode(n), word, pointer)
  BY <1>4, <1>5, PointersSaid
<1>7. pointer = StackTargets(m, n).pointer
  BY <1>2, <1>3, <1>6 DEF Calls
<1>8. StackTargets(m, n).pointer = IF n \in StackWrites THEN m.r.sp ELSE PopAddress(m.r.sp)
  BY <1>2, SlotsNamed
<1>. QED BY <1>4, <1>7, <1>8

(* For any program, on either processor, what the debugger shows beside the next instruction *)
(* (_6502_GetTargets, GetOpmodeOpbyte, CalcRelativeOffset) is what the processor does with    *)
(* it: its length, the address of its operand, and where a jump, call, return or branch goes, *)
(* but for the cases the README names.                                                        *)
THEOREM DebuggerIsRight == Spec => []DebuggerPredictsTheCpu
<1>1. CpuTypeOK => DebuggerPredictsTheCpu
  <2>. SUFFICES ASSUME CpuTypeOK, Described(model, instr[1]) PROVE DebuggerPredictsTheCpu
    BY DEF DebuggerPredictsTheCpu
  <2>1. IsMachine(Now) /\ Now.r = r /\ Now.instr = instr /\ Now.at = r.pc
    BY NowIsMachine DEF Now
  <2>2. PICK part \in {"nmos", "cmos"} : part = model
    BY DEF CpuTypeOK
  <2>3. PICK m : m = Now
    OBVIOUS
  <2>4. PICK n \in Byte : n = instr[1]
    BY <2>1, InstructionBytes DEF IsMachine
  <2>5. PICK desc : desc = Opcode[part][n]
    OBVIOUS
  <2>6. PICK mode \in Modes : mode = desc.mode
    BY <2>5, OpcodeIsKnown
  <2>7. PICK op : op = desc.op
    OBVIOUS
  <2>8. PICK ea : ea = EffectiveAddress(mode, m)
    OBVIOUS
  <2>9. PICK said : said = GetTargets(m, FALSE).pointer
    OBVIOUS
  <2>10. PICK next : next = Done(part, op, mode, m, Advanced(m, mode), ea).r.pc
    OBVIOUS
  <2>11. Execute(part, m).m.r.pc = next
    <3>1. Execute(part, m).m = Done(part, desc.op, desc.mode, m, Advanced(m, desc.mode), EffectiveAddress(desc.mode, m))
      BY <2>1, <2>3, <2>4, <2>5, ExecuteIs
    <3>. QED BY <2>6, <2>7, <2>8, <2>10, <3>1
  <2>12. Agree(AddressMode(n), n, mode, op)
    BY <2>2, <2>4, <2>5, <2>6, <2>7, TablesAgree
  <2>13. GetOpmodeOpbyte(n) = 1 + OperandBytes(mode) \/ op = "hlt"
    BY <2>12, LengthIs DEF Agree
  <2>14. ASSUME Goes(op), ~WrapsItsPointer(m), ~BranchesBack(m), op \in Branches => BranchTaken(op, m.r)
         PROVE  said = next
    BY <2>1, <2>3, <2>4, <2>8, <2>9, <2>10, <2>12, <2>14, GoesWhereSaid
  <2>15. ASSUME op \in Reads \cup Modifies \cup Stores, mode # "imm", ~WrapsItsPointer(m)
         PROVE  said = ea.addr
    BY <2>1, <2>3, <2>4, <2>8, <2>9, <2>12, <2>15, OperandSaid
  <2>16. ASSUME op \in StackOps \ {"jmp", "hlt", "brk", "rti", "rts", "jsr"}
         PROVE  said = IF n \in StackWrites THEN m.r.sp ELSE PopAddress(m.r.sp)
    BY <2>1, <2>3, <2>4, <2>9, <2>12, <2>16, SlotSaid
  <2>17. ASSUME mode = "rel", r.pc + 2 + Displacement(instr[2]) \in Word
         PROVE  CalcRelativeOffset(r.pc, Low16(r.pc + 2 + ea.addr)) = [byte |-> instr[2], bad |-> FALSE]
    <3>1. PICK low \in Byte : low = instr[2]
      BY <2>1, InstructionBytes DEF IsMachine
    <3>2. PICK at \in Word : at = r.pc
      BY <2>1, FieldsAre DEF IsMachine
    <3>3. ea.addr = SignExtended(low)
      BY <2>1, <2>3, <2>8, <2>17, <3>1 DEF EffectiveAddress, Plain
    <3>4. CalcRelativeOffset(at, Low16(at + 2 + SignExtended(low))) = [byte |-> low, bad |-> FALSE]
      BY <2>17, <3>1, <3>2, OffsetComesBack
    <3>. QED BY <3>1, <3>2, <3>3, <3>4
  <2>18. m.r = r
    BY <2>1, <2>3
  <2>. QED
    BY <2>2, <2>3, <2>4, <2>5, <2>6, <2>7, <2>8, <2>9, <2>11, <2>13, <2>14, <2>15, <2>16, <2>17, <2>18
    DEF DebuggerPredictsTheCpu
<1>. QED BY <1>1, CpuIsInductive, PTL

=============================================================================
