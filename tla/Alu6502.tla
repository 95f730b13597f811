------------------------------ MODULE Alu6502 ------------------------------
(* What the operations of CPU.cpp do to the registers, one operator per       *)
(* operation. The register record holds the flags unpacked, as                *)
(* CpuLoopContext keeps them, with D and I beside them: c, z, n, v, d, i are  *)
(* 0 or 1. Arithmetic keeps the widths of the code: uint8_t registers and     *)
(* uint16_t intermediates.                                                    *)
EXTENDS Integers

Low8(v)   == v % 256
Low16(v)  == v % 65536
Bit(v, place) == (v \div place) % 2
Flag(p)   == IF p THEN 1 ELSE 0

(* A bit is named by its place, 1 to 128; of a wider value And, Or and Xor    *)
(* take the low byte.                                                         *)
Places    == {1, 2, 4, 8, 16, 32, 64, 128}
ByteOf(bits) == bits[1] + 2 * bits[2] + 4 * bits[4] + 8 * bits[8]
                + 16 * bits[16] + 32 * bits[32] + 64 * bits[64] + 128 * bits[128]
And(a, b) == ByteOf([k \in Places |-> Flag(Bit(a, k) = 1 /\ Bit(b, k) = 1)])
Or(a, b)  == ByteOf([k \in Places |-> Flag(Bit(a, k) = 1 \/ Bit(b, k) = 1)])
Xor(a, b) == ByteOf([k \in Places |-> Flag(Bit(a, k) # Bit(b, k))])

set_z(r, v)  == [r EXCEPT !.z = Flag(Low8(v) = 0)]
set_nz(r, v) == [set_z(r, v) EXCEPT !.n = Bit(v, 128)]

(* pack_ps and unpack_ps: the reserved and break bits read as ones. *)
pack_ps(r) == 128 * r.n + 64 * r.v + 32 + 16 + 8 * r.d + 4 * r.i + 2 * r.z + r.c
unpack_ps_keeps_d(r, ps) ==                  \* a broken unpack_ps
  [r EXCEPT !.n = Bit(ps, 128), !.v = Bit(ps, 64), !.i = Bit(ps, 4), !.z = Bit(ps, 2), !.c = Bit(ps, 1)]
unpack_ps(r, ps) ==
  [r EXCEPT !.n = Bit(ps, 128), !.v = Bit(ps, 64), !.d = Bit(ps, 8),
            !.i = Bit(ps, 4), !.z = Bit(ps, 2), !.c = Bit(ps, 1)]

------------------------------------------------------------------------------
(* Addition and subtraction. The NMOS part takes N, V and Z of a decimal      *)
(* operation from the binary sum; the 65C02 takes N and Z from the result.    *)

Overflow(a, m, sum) == Flag(Bit(a, 128) = Bit(m, 128) /\ Bit(a, 128) # Bit(sum, 128))

(* Past nine, a digit wraps into the next one. *)
Adjusted_late(digit) == IF digit > 10 THEN digit + 6 ELSE digit   \* a broken Adjusted
Adjusted(digit) == IF digit > 9 THEN digit + 6 ELSE digit

adc_nmos(r, m) ==
  LET val  == r.a + m + r.c
      lo   == (r.a % 16) + (m % 16) + r.c
      low  == Adjusted(lo)
      hi   == r.a \div 16 + m \div 16 + Flag(low > 15)
      high == Adjusted(hi)
  IN  IF r.d = 1
      THEN [set_nz(r, val) EXCEPT !.v = Overflow(r.a, m, val), !.c = Flag(high > 15),
                                  !.a = Low8((high * 16) + (low % 16))]
      ELSE [set_nz(r, val) EXCEPT !.v = Overflow(r.a, m, val), !.c = Flag(val > 255),
                                  !.a = Low8(val)]

(* m is up to 16 bits wide: op_ins hands over the sum it did not truncate. *)
sbc_nmos(r, m) ==
  LET val  == Low16(r.a - m - (1 - r.c))
      lo   == Low16((r.a % 16) - (m % 16) - (1 - r.c))
      low  == IF Bit(lo, 16) = 1 THEN Low16(lo - 6) ELSE lo
      hi   == Low16(r.a \div 16 - m \div 16 - Bit(low, 16))
      high == IF Bit(hi, 16) = 1 THEN Low16(hi - 6) ELSE hi
      ovf  == Flag(Bit(r.a, 128) # Bit(val, 128) /\ Bit(r.a, 128) # Bit(m, 128))
  IN  IF r.d = 1
      THEN [set_nz(r, val) EXCEPT !.v = ovf, !.c = 1 - Bit(high, 16),
                                  !.a = Low8((high * 16) + (low % 16))]
      ELSE [set_nz(r, val) EXCEPT !.v = ovf, !.c = Flag(val < 256), !.a = Low8(val)]

(* The 65C02's V starts as "the signs agree" and is withdrawn by the range of *)
(* the sum.                                                                   *)
adc_cmos(r, m) ==
  LET lo   == (r.a % 16) + (m % 16) + r.c
      low  == IF lo >= 10 THEN 16 + ((lo + 6) % 16) ELSE lo
      dec  == low + 16 * (r.a \div 16) + 16 * (m \div 16)
      sum  == IF r.d = 1 THEN dec ELSE r.a + m + r.c
      over == IF r.d = 1 THEN sum >= 160 ELSE sum >= 256
      res  == IF r.d = 1 /\ over THEN sum + 96 ELSE sum
      lost == IF over THEN sum >= 384 ELSE sum < 128
  IN  [set_nz(r, res) EXCEPT !.v = IF lost THEN 0 ELSE Flag(Bit(r.a, 128) = Bit(m, 128)),
                             !.c = Flag(over), !.a = Low8(res)]

sbc_cmos(r, m) ==
  LET t    == 15 + (r.a % 16) - (m % 16) + r.c
      low  == IF t < 16 THEN Low16(t - 6) ELSE t - 16
      dec  == (IF t < 16 THEN 0 ELSE 16) + 240 + 16 * (r.a \div 16) - 16 * (m \div 16)
      sum  == IF r.d = 1 THEN dec ELSE 255 + r.a - m + r.c
      no_borrow == sum >= 256
      res  == IF r.d = 0 THEN sum
              ELSE Low16((IF no_borrow THEN sum ELSE sum - 96) + low)
      lost == IF no_borrow THEN sum >= 384 ELSE sum < 128
  IN  [set_nz(r, res) EXCEPT !.v = IF lost THEN 0 ELSE Flag(Bit(r.a, 128) # Bit(m, 128)),
                             !.c = Flag(no_borrow), !.a = Low8(res)]

compare(r, reg, m) == [set_nz(r, Low16(reg - m)) EXCEPT !.c = Flag(reg >= m)]
bit_test(r, m) == [r EXCEPT !.z = Flag(And(r.a, m) = 0)]
load_a(r, v) == [set_nz(r, v) EXCEPT !.a = Low8(v)]

------------------------------------------------------------------------------
(* Shifts: the value moved and the carry it leaves. *)
asl(r, m) == LET v == m * 2         IN [r |-> [set_nz(r, v) EXCEPT !.c = Flag(v > 255)], m |-> Low8(v)]
rol(r, m) == LET v == m * 2 + r.c   IN [r |-> [set_nz(r, v) EXCEPT !.c = Flag(v > 255)], m |-> Low8(v)]
lsr(r, m) == LET v == m \div 2      IN [r |-> [set_z(r, v) EXCEPT !.c = m % 2, !.n = 0], m |-> v]
ror(r, m) == LET v == m \div 2 + 128 * r.c
             IN [r |-> [set_nz(r, v) EXCEPT !.c = m % 2], m |-> v]

(* AND, then a rotate whose flags come from the middle bits. *)
arr(r, m) ==
  LET t    == And(r.a, m)
      v    == t \div 2 + 128 * r.c
      d1   == IF (v % 16) + (v % 2) > 5 THEN (v \div 16) * 16 + ((v + 6) % 16) ELSE v
      fix  == (d1 \div 16) * 16 + 16 * Bit(d1, 16) > 80
      d2   == IF fix THEN (d1 % 16) + (((d1 + 96) \div 16) % 16) * 16 ELSE d1
  IN  IF r.d = 1
      THEN [set_z(r, v) EXCEPT !.n = r.c, !.v = Flag(Bit(v, 64) # Bit(t, 64)),
                               !.c = Flag(fix), !.a = Low8(d2)]
      ELSE [set_nz(r, v) EXCEPT !.c = Bit(v, 64), !.v = Flag(Bit(v, 64) # Bit(v, 32)),
                                !.a = Low8(v)]

(* Operations that read the operand and leave memory alone. *)
ReadOp(op, r, m) ==
  CASE op = "lda" -> load_a(r, m)
    [] op = "ldx" -> [set_nz(r, m) EXCEPT !.x = m]
    [] op = "ldy" -> [set_nz(r, m) EXCEPT !.y = m]
    [] op = "lax" -> [load_a(r, m) EXCEPT !.x = m]
    [] op = "and" -> load_a(r, And(r.a, m))
    [] op = "ora" -> load_a(r, Or(r.a, m))
    [] op = "eor" -> load_a(r, Xor(r.a, m))
    [] op = "bit" -> [bit_test(r, m) EXCEPT !.n = Bit(m, 128), !.v = Bit(m, 64)]
    [] op = "biti" -> bit_test(r, m)
    [] op = "cmp" -> compare(r, r.a, m)
    [] op = "cpx" -> compare(r, r.x, m)
    [] op = "cpy" -> compare(r, r.y, m)
    [] op = "adc_nmos" -> adc_nmos(r, m)
    [] op = "sbc_nmos" -> sbc_nmos(r, m)
    [] op = "adc_cmos" -> adc_cmos(r, m)
    [] op = "sbc_cmos" -> sbc_cmos(r, m)
    [] op = "arr" -> arr(r, m)
    [] op = "alr" -> LET s == lsr(r, And(r.a, m)) IN [s.r EXCEPT !.a = s.m]
    [] op = "anc" -> LET s == load_a(r, And(r.a, m)) IN [s EXCEPT !.c = s.n]
    [] op = "oal" -> LET s == load_a(r, And(Or(r.a, 238), m)) IN [s EXCEPT !.x = s.a]
    [] op = "xaa" -> load_a(r, And(r.x, m))
    [] op = "las" -> LET v == And(m, r.sp) IN [load_a(r, v) EXCEPT !.x = v, !.sp = 256 + v]
    [] op = "sax" -> LET t == And(r.a, r.x)
                     IN [compare(r, t, m) EXCEPT !.x = Low8(t - m)]

(* Operations that read, change and write the operand. The unofficial ones    *)
(* use the changed value before it is cut to a byte.                          *)
ModifyOp(op, r, m) ==
  CASE op = "asl" -> asl(r, m)
    [] op = "rol" -> rol(r, m)
    [] op = "lsr" -> lsr(r, m)
    [] op = "ror" -> ror(r, m)
    [] op = "inc" -> [r |-> set_nz(r, m + 1), m |-> Low8(m + 1)]
    [] op = "dec" -> [r |-> set_nz(r, Low16(m - 1)), m |-> Low8(m - 1)]
    [] op = "trb" -> [r |-> bit_test(r, m), m |-> And(m, 255 - r.a)]
    [] op = "tsb" -> [r |-> bit_test(r, m), m |-> Or(m, r.a)]
    [] op = "aso" -> LET s == asl(r, m) IN [s EXCEPT !.r = load_a(s.r, Or(r.a, s.m))]
    [] op = "rla" -> LET s == rol(r, m) IN [s EXCEPT !.r = load_a(s.r, And(r.a, s.m))]
    [] op = "lse" -> LET s == lsr(r, m) IN [s EXCEPT !.r = load_a(s.r, Xor(r.a, s.m))]
    [] op = "rra" -> LET s == ror(r, m)
                     IN [s EXCEPT !.r = adc_nmos([r EXCEPT !.c = m % 2], s.m)]
    [] op = "dcm" -> [r |-> compare(r, r.a, Low16(m - 1)), m |-> Low8(m - 1)]
    [] op = "ins" -> [r |-> sbc_nmos(r, m + 1), m |-> Low8(m + 1)]

(* What a store writes. Four unofficial ones mix in the high byte of the base *)
(* address plus one, and write where the result says: see EffectiveAddress.   *)
HighPlusOne(base) == Low8(base \div 256 + 1)
StoreValue(op, r, base) ==
  CASE op = "sta" -> r.a
    [] op = "stx" -> r.x
    [] op = "sty" -> r.y
    [] op = "stz" -> 0
    [] op = "axs" -> And(r.a, r.x)
    [] op = "axa" -> And(And(r.a, r.x), HighPlusOne(base))
    [] op = "tas" -> And(And(r.a, r.x), HighPlusOne(base))
    [] op = "say" -> And(r.y, HighPlusOne(base))
    [] op = "xas" -> And(r.x, HighPlusOne(base))

(* Operations on registers and flags alone. *)
RegisterOp(op, r) ==
  CASE op = "nop" -> r
    [] op = "tax" -> [set_nz(r, r.a) EXCEPT !.x = r.a]
    [] op = "txa" -> [set_nz(r, r.x) EXCEPT !.a = r.x]
    [] op = "tay" -> [set_nz(r, r.a) EXCEPT !.y = r.a]
    [] op = "tya" -> [set_nz(r, r.y) EXCEPT !.a = r.y]
    [] op = "tsx" -> [set_nz(r, r.sp) EXCEPT !.x = Low8(r.sp)]
    [] op = "txs" -> [r EXCEPT !.sp = 256 + r.x]
    [] op = "ina" -> load_a(r, Low8(r.a + 1))
    [] op = "dea" -> load_a(r, Low8(r.a - 1))
    [] op = "inx" -> [set_nz(r, r.x + 1) EXCEPT !.x = Low8(r.x + 1)]
    [] op = "dex" -> [set_nz(r, Low8(r.x - 1)) EXCEPT !.x = Low8(r.x - 1)]
    [] op = "iny" -> [set_nz(r, r.y + 1) EXCEPT !.y = Low8(r.y + 1)]
    [] op = "dey" -> [set_nz(r, Low8(r.y - 1)) EXCEPT !.y = Low8(r.y - 1)]
    [] op = "asla" -> LET s == asl(r, r.a) IN [s.r EXCEPT !.a = s.m]
    [] op = "lsra" -> LET s == lsr(r, r.a) IN [s.r EXCEPT !.a = s.m]
    [] op = "rola" -> LET s == rol(r, r.a) IN [s.r EXCEPT !.a = s.m]
    [] op = "rora" -> LET s == ror(r, r.a) IN [s.r EXCEPT !.a = s.m]
    [] op = "clc" -> [r EXCEPT !.c = 0]
    [] op = "sec" -> [r EXCEPT !.c = 1]
    [] op = "clv" -> [r EXCEPT !.v = 0]
    [] op = "cli" -> [r EXCEPT !.i = 0]
    [] op = "sei" -> [r EXCEPT !.i = 1]
    [] op = "cld" -> [r EXCEPT !.d = 0]
    [] op = "sed" -> [r EXCEPT !.d = 1]

Reads  == {"lda", "ldx", "ldy", "lax", "and", "ora", "eor", "bit", "biti", "cmp", "cpx",
           "cpy", "adc_nmos", "sbc_nmos", "adc_cmos", "sbc_cmos", "arr", "alr", "anc",
           "oal", "xaa", "las", "sax"}
Modifies == {"asl", "rol", "lsr", "ror", "inc", "dec", "trb", "tsb", "aso", "rla", "lse",
             "rra", "dcm", "ins"}
Stores == {"sta", "stx", "sty", "stz", "axs", "axa", "tas", "say", "xas"}

(* The unofficial stores that move the address along with the value. *)
MixedStores == {"axa", "say", "tas", "xas"}
=============================================================================
