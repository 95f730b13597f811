---------------------------- MODULE Opcodes6502 ----------------------------
(* The opcode tables of CPU.cpp, one for the NMOS 6502 of the Apple ][, ][+     *)
(* and //e and one for the 65C02 of the Enhanced //e. An entry names what the   *)
(* handler calls in the order it calls it: the addressing mode ("none" when it  *)
(* calls no addr_ function), the operation, and the base cycles. A branch is    *)
(* named for its condition; a handler that only forms an address is a "nop".    *)
EXTENDS Naturals, Sequences

NmosRow0 ==
  << <<"none","brk",7>>, <<"indx","ora",6>>, <<"none","hlt",2>>, <<"indx","aso",8>>,
     <<"zpg","nop",3>>, <<"zpg","ora",3>>, <<"zpg","asl",5>>, <<"zpg","aso",5>>,
     <<"none","php",3>>, <<"imm","ora",2>>, <<"none","asla",2>>, <<"imm","anc",2>>,
     <<"absx","nop",4>>, <<"abs","ora",4>>, <<"abs","asl",6>>, <<"abs","aso",6>> >>

NmosRow1 ==
  << <<"rel","bpl",2>>, <<"indy","ora",5>>, <<"none","hlt",2>>, <<"indy","aso",8>>,
     <<"zpgx","nop",4>>, <<"zpgx","ora",4>>, <<"zpgx","asl",6>>, <<"zpgx","aso",6>>,
     <<"none","clc",2>>, <<"absy","ora",4>>, <<"none","nop",2>>, <<"absy","aso",7>>,
     <<"absx","nop",4>>, <<"absx","ora",4>>, <<"absx","asl",6>>, <<"absx","aso",7>> >>

NmosRow2 ==
  << <<"abs","jsr",6>>, <<"indx","and",6>>, <<"none","hlt",2>>, <<"indx","rla",8>>,
     <<"zpg","bit",3>>, <<"zpg","and",3>>, <<"zpg","rol",5>>, <<"zpg","rla",5>>,
     <<"none","plp",4>>, <<"imm","and",2>>, <<"none","rola",2>>, <<"imm","anc",2>>,
     <<"abs","bit",4>>, <<"abs","and",2>>, <<"abs","rol",6>>, <<"abs","rla",6>> >>

NmosRow3 ==
  << <<"rel","bmi",2>>, <<"indy","and",5>>, <<"none","hlt",2>>, <<"indy","rla",8>>,
     <<"zpgx","nop",4>>, <<"zpgx","and",4>>, <<"zpgx","rol",6>>, <<"zpgx","rla",6>>,
     <<"none","sec",2>>, <<"absy","and",4>>, <<"none","nop",2>>, <<"absy","rla",7>>,
     <<"absx","nop",4>>, <<"absx","and",4>>, <<"absx","rol",6>>, <<"absx","rla",7>> >>

NmosRow4 ==
  << <<"none","rti",6>>, <<"indx","eor",6>>, <<"none","hlt",2>>, <<"indx","lse",8>>,
     <<"zpg","nop",3>>, <<"zpg","eor",3>>, <<"zpg","lsr",5>>, <<"zpg","lse",5>>,
     <<"none","pha",3>>, <<"imm","eor",2>>, <<"none","lsra",2>>, <<"imm","alr",2>>,
     <<"abs","jmp",3>>, <<"abs","eor",4>>, <<"abs","lsr",6>>, <<"abs","lse",6>> >>

NmosRow5 ==
  << <<"rel","bvc",2>>, <<"indy","eor",5>>, <<"none","hlt",2>>, <<"indy","lse",8>>,
     <<"zpgx","nop",4>>, <<"zpgx","eor",4>>, <<"zpgx","lsr",6>>, <<"zpgx","lse",6>>,
     <<"none","cli",2>>, <<"absy","eor",4>>, <<"none","nop",2>>, <<"absy","lse",7>>,
     <<"absx","nop",4>>, <<"absx","eor",4>>, <<"absx","lsr",6>>, <<"absx","lse",7>> >>

NmosRow6 ==
  << <<"none","rts",6>>, <<"indx","adc_nmos",6>>, <<"none","hlt",2>>, <<"indx","rra",8>>,
     <<"zpg","nop",3>>, <<"zpg","adc_nmos",3>>, <<"zpg","ror",5>>, <<"zpg","rra",5>>,
     <<"none","pla",4>>, <<"imm","adc_nmos",2>>, <<"none","rora",2>>, <<"imm","arr",2>>,
     <<"iabs_nmos","jmp",6>>, <<"abs","adc_nmos",4>>, <<"abs","ror",6>>, <<"abs","rra",6>> >>

NmosRow7 ==
  << <<"rel","bvs",2>>, <<"indy","adc_nmos",5>>, <<"none","hlt",2>>, <<"indy","rra",8>>,
     <<"zpgx","nop",4>>, <<"zpgx","adc_nmos",4>>, <<"zpgx","ror",6>>, <<"zpgx","rra",6>>,
     <<"none","sei",2>>, <<"absy","adc_nmos",4>>, <<"none","nop",2>>, <<"absy","rra",7>>,
     <<"absx","nop",4>>, <<"absx","adc_nmos",4>>, <<"absx","ror",6>>, <<"absx","rra",7>> >>

NmosRow8 ==
  << <<"imm","nop",2>>, <<"indx","sta",6>>, <<"imm","nop",2>>, <<"indx","axs",6>>,
     <<"zpg","sty",3>>, <<"zpg","sta",3>>, <<"zpg","stx",3>>, <<"zpg","axs",3>>,
     <<"none","dey",2>>, <<"imm","nop",2>>, <<"none","txa",2>>, <<"imm","xaa",2>>,
     <<"abs","sty",4>>, <<"abs","sta",4>>, <<"abs","stx",4>>, <<"abs","axs",4>> >>

NmosRow9 ==
  << <<"rel","bcc",2>>, <<"indy","sta",6>>, <<"none","hlt",2>>, <<"indy","axa",6>>,
     <<"zpgx","sty",4>>, <<"zpgx","sta",4>>, <<"zpgy","stx",4>>, <<"zpgy","axs",4>>,
     <<"none","tya",2>>, <<"absy","sta",5>>, <<"none","txs",2>>, <<"absy","tas",5>>,
     <<"absx","say",5>>, <<"absx","sta",5>>, <<"absy","xas",5>>, <<"absy","axa",5>> >>

NmosRowA ==
  << <<"imm","ldy",2>>, <<"indx","lda",6>>, <<"imm","ldx",2>>, <<"indx","lax",6>>,
     <<"zpg","ldy",3>>, <<"zpg","lda",3>>, <<"zpg","ldx",3>>, <<"zpg","lax",3>>,
     <<"none","tay",2>>, <<"imm","lda",2>>, <<"none","tax",2>>, <<"imm","oal",2>>,
     <<"abs","ldy",4>>, <<"abs","lda",4>>, <<"abs","ldx",4>>, <<"abs","lax",4>> >>

NmosRowB ==
  << <<"rel","bcs",2>>, <<"indy","lda",5>>, <<"none","hlt",2>>, <<"indy","lax",5>>,
     <<"zpgx","ldy",4>>, <<"zpgx","lda",4>>, <<"zpgy","ldx",4>>, <<"zpgy","lax",4>>,
     <<"none","clv",2>>, <<"absy","lda",4>>, <<"none","tsx",2>>, <<"absy","las",4>>,
     <<"absx","ldy",4>>, <<"absx","lda",4>>, <<"absy","ldx",4>>, <<"absy","lax",4>> >>

NmosRowC ==
  << <<"imm","cpy",2>>, <<"indx","cmp",6>>, <<"imm","nop",2>>, <<"indx","dcm",8>>,
     <<"zpg","cpy",3>>, <<"zpg","cmp",3>>, <<"zpg","dec",5>>, <<"zpg","dcm",5>>,
     <<"none","iny",2>>, <<"imm","cmp",2>>, <<"none","dex",2>>, <<"imm","sax",2>>,
     <<"abs","cpy",4>>, <<"abs","cmp",4>>, <<"abs","dec",5>>, <<"abs","dcm",6>> >>

NmosRowD ==
  << <<"rel","bne",2>>, <<"indy","cmp",5>>, <<"none","hlt",2>>, <<"indy","dcm",8>>,
     <<"zpgx","nop",4>>, <<"zpgx","cmp",4>>, <<"zpgx","dec",6>>, <<"zpgx","dcm",6>>,
     <<"none","cld",2>>, <<"absy","cmp",4>>, <<"none","nop",2>>, <<"absy","dcm",7>>,
     <<"absx","nop",4>>, <<"absx","cmp",4>>, <<"absx","dec",6>>, <<"absx","dcm",7>> >>

NmosRowE ==
  << <<"imm","cpx",2>>, <<"indx","sbc_nmos",6>>, <<"imm","nop",2>>, <<"indx","ins",8>>,
     <<"zpg","cpx",3>>, <<"zpg","sbc_nmos",3>>, <<"zpg","inc",5>>, <<"zpg","ins",5>>,
     <<"none","inx",2>>, <<"imm","sbc_nmos",2>>, <<"none","nop",2>>, <<"imm","sbc_nmos",2>>,
     <<"abs","cpx",4>>, <<"abs","sbc_nmos",4>>, <<"abs","inc",6>>, <<"abs","ins",6>> >>

NmosRowF ==
  << <<"rel","beq",2>>, <<"indy","sbc_nmos",5>>, <<"none","hlt",2>>, <<"indy","ins",8>>,
     <<"zpgx","nop",4>>, <<"zpgx","sbc_nmos",4>>, <<"zpgx","inc",6>>, <<"zpgx","ins",6>>,
     <<"none","sed",2>>, <<"absy","sbc_nmos",4>>, <<"none","nop",2>>, <<"absy","ins",7>>,
     <<"absx","nop",4>>, <<"absx","sbc_nmos",4>>, <<"absx","inc",6>>, <<"absx","ins",7>> >>

(* The 65C02. *)
CmosRow0 ==
  << <<"none","brk",7>>, <<"indx","ora",6>>, <<"imm","nop",2>>, <<"none","nop",2>>,
     <<"zpg","tsb",5>>, <<"zpg","ora",3>>, <<"zpg","asl",5>>, <<"none","nop",2>>,
     <<"none","php",3>>, <<"imm","ora",2>>, <<"none","asla",2>>, <<"none","nop",2>>,
     <<"abs","tsb",6>>, <<"abs","ora",4>>, <<"abs","asl",6>>, <<"none","nop",2>> >>

CmosRow1 ==
  << <<"rel","bpl",2>>, <<"indy","ora",5>>, <<"izpg","ora",5>>, <<"none","nop",2>>,
     <<"zpg","trb",5>>, <<"zpgx","ora",4>>, <<"zpgx","asl",6>>, <<"none","nop",2>>,
     <<"none","clc",2>>, <<"absy","ora",4>>, <<"none","ina",2>>, <<"none","nop",2>>,
     <<"abs","trb",6>>, <<"absx","ora",4>>, <<"absx","asl",6>>, <<"none","nop",2>> >>

CmosRow2 ==
  << <<"abs","jsr",6>>, <<"indx","and",6>>, <<"imm","nop",2>>, <<"none","nop",2>>,
     <<"zpg","bit",3>>, <<"zpg","and",3>>, <<"zpg","rol",5>>, <<"none","nop",2>>,
     <<"none","plp",4>>, <<"imm","and",2>>, <<"none","rola",2>>, <<"none","nop",2>>,
     <<"abs","bit",4>>, <<"abs","and",2>>, <<"abs","rol",6>>, <<"none","nop",2>> >>

CmosRow3 ==
  << <<"rel","bmi",2>>, <<"indy","and",5>>, <<"izpg","and",5>>, <<"none","nop",2>>,
     <<"zpgx","bit",4>>, <<"zpgx","and",4>>, <<"zpgx","rol",6>>, <<"none","nop",2>>,
     <<"none","sec",2>>, <<"absy","and",4>>, <<"none","dea",2>>, <<"none","nop",2>>,
     <<"absx","bit",4>>, <<"absx","and",4>>, <<"absx","rol",6>>, <<"none","nop",2>> >>

CmosRow4 ==
  << <<"none","rti",6>>, <<"indx","eor",6>>, <<"imm","nop",2>>, <<"none","nop",2>>,
     <<"zpg","nop",3>>, <<"zpg","eor",3>>, <<"zpg","lsr",5>>, <<"none","nop",2>>,
     <<"none","pha",3>>, <<"imm","eor",2>>, <<"none","lsra",2>>, <<"none","nop",2>>,
     <<"abs","jmp",3>>, <<"abs","eor",4>>, <<"abs","lsr",6>>, <<"none","nop",2>> >>

CmosRow5 ==
  << <<"rel","bvc",2>>, <<"indy","eor",5>>, <<"izpg","eor",5>>, <<"none","nop",2>>,
     <<"zpgx","nop",4>>, <<"zpgx","eor",4>>, <<"zpgx","lsr",6>>, <<"none","nop",2>>,
     <<"none","cli",2>>, <<"absy","eor",4>>, <<"none","phy",3>>, <<"none","nop",2>>,
     <<"absx","nop",8>>, <<"absx","eor",4>>, <<"absx","lsr",6>>, <<"none","nop",2>> >>

CmosRow6 ==
  << <<"none","rts",6>>, <<"indx","adc_cmos",6>>, <<"imm","nop",2>>, <<"none","nop",2>>,
     <<"zpg","stz",3>>, <<"zpg","adc_cmos",3>>, <<"zpg","ror",5>>, <<"none","nop",2>>,
     <<"none","pla",4>>, <<"imm","adc_cmos",2>>, <<"none","rora",2>>, <<"none","nop",2>>,
     <<"iabs_cmos","jmp",6>>, <<"abs","adc_cmos",4>>, <<"abs","ror",6>>, <<"none","nop",2>> >>

CmosRow7 ==
  << <<"rel","bvs",2>>, <<"indy","adc_cmos",5>>, <<"izpg","adc_cmos",5>>, <<"none","nop",2>>,
     <<"zpgx","stz",4>>, <<"zpgx","adc_cmos",4>>, <<"zpgx","ror",6>>, <<"none","nop",2>>,
     <<"none","sei",2>>, <<"absy","adc_cmos",4>>, <<"none","ply",4>>, <<"none","nop",2>>,
     <<"iabsx","jmp",6>>, <<"absx","adc_cmos",4>>, <<"absx","ror",6>>, <<"none","nop",2>> >>

CmosRow8 ==
  << <<"rel","bra",2>>, <<"indx","sta",6>>, <<"imm","nop",2>>, <<"none","nop",2>>,
     <<"zpg","sty",3>>, <<"zpg","sta",3>>, <<"zpg","stx",3>>, <<"none","nop",2>>,
     <<"none","dey",2>>, <<"imm","biti",2>>, <<"none","txa",2>>, <<"none","nop",2>>,
     <<"abs","sty",4>>, <<"abs","sta",4>>, <<"abs","stx",4>>, <<"none","nop",2>> >>

CmosRow9 ==
  << <<"rel","bcc",2>>, <<"indy","sta",6>>, <<"izpg","sta",5>>, <<"none","nop",2>>,
     <<"zpgx","sty",4>>, <<"zpgx","sta",4>>, <<"zpgy","stx",4>>, <<"none","nop",2>>,
     <<"none","tya",2>>, <<"absy","sta",5>>, <<"none","txs",2>>, <<"none","nop",2>>,
     <<"abs","stz",4>>, <<"absx","sta",5>>, <<"absx","stz",5>>, <<"none","nop",2>> >>

CmosRowA ==
  << <<"imm","ldy",2>>, <<"indx","lda",6>>, <<"imm","ldx",2>>, <<"none","nop",2>>,
     <<"zpg","ldy",3>>, <<"zpg","lda",3>>, <<"zpg","ldx",3>>, <<"none","nop",2>>,
     <<"none","tay",2>>, <<"imm","lda",2>>, <<"none","tax",2>>, <<"none","nop",2>>,
     <<"abs","ldy",4>>, <<"abs","lda",4>>, <<"abs","ldx",4>>, <<"none","nop",2>> >>

CmosRowB ==
  << <<"rel","bcs",2>>, <<"indy","lda",5>>, <<"izpg","lda",5>>, <<"none","nop",2>>,
     <<"zpgx","ldy",4>>, <<"zpgx","lda",4>>, <<"zpgy","ldx",4>>, <<"none","nop",2>>,
     <<"none","clv",2>>, <<"absy","lda",4>>, <<"none","tsx",2>>, <<"none","nop",2>>,
     <<"absx","ldy",4>>, <<"absx","lda",4>>, <<"absy","ldx",4>>, <<"none","nop",2>> >>

CmosRowC ==
  << <<"imm","cpy",2>>, <<"indx","cmp",6>>, <<"imm","nop",2>>, <<"none","nop",2>>,
     <<"zpg","cpy",3>>, <<"zpg","cmp",3>>, <<"zpg","dec",5>>, <<"none","nop",2>>,
     <<"none","iny",2>>, <<"imm","cmp",2>>, <<"none","dex",2>>, <<"none","nop",2>>,
     <<"abs","cpy",4>>, <<"abs","cmp",4>>, <<"abs","dec",5>>, <<"none","nop",2>> >>

CmosRowD ==
  << <<"rel","bne",2>>, <<"indy","cmp",5>>, <<"izpg","cmp",5>>, <<"none","nop",2>>,
     <<"zpgx","nop",4>>, <<"zpgx","cmp",4>>, <<"zpgx","dec",6>>, <<"none","nop",2>>,
     <<"none","cld",2>>, <<"absy","cmp",4>>, <<"none","phx",3>>, <<"none","nop",2>>,
     <<"absx","nop",4>>, <<"absx","cmp",4>>, <<"absx","dec",6>>, <<"none","nop",2>> >>

CmosRowE ==
  << <<"imm","cpx",2>>, <<"indx","sbc_cmos",6>>, <<"imm","nop",2>>, <<"none","nop",2>>,
     <<"zpg","cpx",3>>, <<"zpg","sbc_cmos",3>>, <<"zpg","inc",5>>, <<"none","nop",2>>,
     <<"none","inx",2>>, <<"imm","sbc_cmos",2>>, <<"none","nop",2>>, <<"none","nop",2>>,
     <<"abs","cpx",4>>, <<"abs","sbc_cmos",4>>, <<"abs","inc",6>>, <<"none","nop",2>> >>

CmosRowF ==
  << <<"rel","beq",2>>, <<"indy","sbc_cmos",5>>, <<"izpg","sbc_cmos",5>>, <<"none","nop",2>>,
     <<"zpgx","nop",4>>, <<"zpgx","sbc_cmos",4>>, <<"zpgx","inc",6>>, <<"none","nop",2>>,
     <<"none","sed",2>>, <<"absy","sbc_cmos",4>>, <<"none","plx",4>>, <<"none","nop",2>>,
     <<"absx","nop",4>>, <<"absx","sbc_cmos",4>>, <<"absx","inc",6>>, <<"none","nop",2>> >>

NmosRows == << NmosRow0, NmosRow1, NmosRow2, NmosRow3, NmosRow4, NmosRow5,
               NmosRow6, NmosRow7, NmosRow8, NmosRow9, NmosRowA, NmosRowB,
               NmosRowC, NmosRowD, NmosRowE, NmosRowF >>

CmosRows == << CmosRow0, CmosRow1, CmosRow2, CmosRow3, CmosRow4, CmosRow5,
               CmosRow6, CmosRow7, CmosRow8, CmosRow9, CmosRowA, CmosRowB,
               CmosRowC, CmosRowD, CmosRowE, CmosRowF >>

Entry(rows, n) ==
  LET e == rows[(n \div 16) + 1][(n % 16) + 1]
  IN  [mode |-> e[1], op |-> e[2], cycles |-> e[3]]

(* What cpu_execute_loop takes its handlers from. *)
Opcode == [model \in {"nmos", "cmos"} |->
             [n \in 0 .. 255 |-> Entry(IF model = "cmos" THEN CmosRows ELSE NmosRows, n)]]
=============================================================================
