-------------------------------- MODULE Pia6821 --------------------------------
(***************************************************************************)
(* The MC6821 of apple2/chips/6821.cpp.  A byte is the set of its lines    *)
(* that are high, so that the masks of the code are intersections.  Both   *)
(* sides of the chip are one record; they differ in which access starts    *)
(* the handshake on their second control line, a read for A and a write    *)
(* for B, and in what a read of the data returns.                          *)
(* The second half is a pair of such sides whose control lines a device    *)
(* drives, with what the program and the device have done so far kept      *)
(* beside it.                                                              *)
(***************************************************************************)
EXTENDS Integers

CONSTANTS PiaControls,   \* the values the program writes to a control register
          MaxPiaSteps    \* bound: accesses and edges of a behaviour

VARIABLES pia,           \* "a", "b" |-> the side
          served,        \* side |-> the data was accessed after the last C1 edge
          piaSteps

piaVars == <<pia, served, piaSteps>>

Lines == 0 .. 7
Sides == {"a", "b"}

(* The bits of a control register.                                         *)
Flags == {"irq1", "irq2"}

PiaReset == [out |-> {}, ddr |-> {}, cr |-> {}, in |-> Lines,
             c1 |-> FALSE, c2 |-> FALSE, oc2 |-> 0, irq |-> FALSE]

(* update_interrupts, one side.                                            *)
PiaInterrupt(s) ==
    \/ {"irq1", "c1_en"} \subseteq s.cr
    \/ {"irq2", "c2_lvl"} \subseteq s.cr /\ "c2_out" \notin s.cr

UpdateInterrupts(s) == [s EXCEPT !.irq = PiaInterrupt(s)]

(* The second control line as an output: by an access of the data that     *)
(* starts a handshake or a pulse, or by the register itself.               *)
Handshakes(s) == "c2_out" \in s.cr /\ "c2_sel" \notin s.cr

AfterDataAccess(s) ==
    IF Handshakes(s) THEN [s EXCEPT !.oc2 = IF "c2_lvl" \in s.cr THEN 1 ELSE 0] ELSE s

PiaSelected(s) == "ddr" \in s.cr

(* pia_6821_read of a data register: on side A the pins, on side B the     *)
(* latch where it drives them.                                             *)
PiaData(side, s) ==
    IF ~PiaSelected(s) THEN s.ddr
    ELSE IF side = "a" THEN s.in
    ELSE (s.out \cap s.ddr) \cup (s.in \ s.ddr)

PiaRead(side, s) ==
    IF ~PiaSelected(s) THEN s
    ELSE LET cleared == UpdateInterrupts([s EXCEPT !.cr = @ \ Flags])
         IN IF side = "a" THEN AfterDataAccess(cleared) ELSE cleared

(* pia_6821_write of a data register; what the listener is given.          *)
PiaWrite(side, s, val) ==
    IF ~PiaSelected(s) THEN [s EXCEPT !.ddr = val]
    ELSE IF side = "b" THEN AfterDataAccess([s EXCEPT !.out = val])
    ELSE [s EXCEPT !.out = val]

PiaOutput(s) == s.out \cap s.ddr

(* pia_6821_write of a control register keeps the flags.                   *)
PiaControl(s, val) ==
    LET set == [s EXCEPT !.cr = (@ \cap Flags) \cup (val \ Flags)]
    IN UpdateInterrupts(IF {"c2_out", "c2_sel"} \subseteq set.cr
                        THEN [set EXCEPT !.oc2 = IF "c2_lvl" \in set.cr THEN 1 ELSE 0]
                        ELSE set)

(* What a control register reads as.                                       *)
PiaStatus(s) == IF "c2_out" \in s.cr THEN s.cr \ {"irq2"} ELSE s.cr

(* pia_6821_set_ca1 and its three siblings.                                *)
ActiveEdge(falling, old, level) == old # level /\ level = ~falling

\* (A plausible bug: an edge does not end the handshake.)
PiaSetC1_keeps_c2(s, level) ==
    IF ~ActiveEdge("c1_sel" \in s.cr, s.c1, level) THEN [s EXCEPT !.c1 = level]
    ELSE UpdateInterrupts([s EXCEPT !.c1 = level, !.cr = @ \cup {"irq1"}])

PiaSetC1(s, level) ==
    IF ~ActiveEdge("c1_sel" \in s.cr, s.c1, level) THEN [s EXCEPT !.c1 = level]
    ELSE UpdateInterrupts([s EXCEPT !.c1 = level, !.cr = @ \cup {"irq1"},
                                    !.oc2 = IF Handshakes(s) /\ "c2_lvl" \notin s.cr
                                            THEN 1 ELSE @])

PiaSetC2(s, level) ==
    IF "c2_out" \in s.cr \/ ~ActiveEdge("c2_sel" \in s.cr, s.c2, level)
    THEN [s EXCEPT !.c2 = level]
    ELSE UpdateInterrupts([s EXCEPT !.c2 = level, !.cr = @ \cup {"irq2"}])

-----------------------------------------------------------------------------
(* The chip between a program and a device.                                *)

PiaStep(side, next, nowServed) ==
    /\ piaSteps < MaxPiaSteps
    /\ piaSteps' = piaSteps + 1
    /\ pia' = [pia EXCEPT ![side] = next]
    /\ served' = [served EXCEPT ![side] = nowServed]

ReadData(side) ==
    PiaStep(side, PiaRead(side, pia[side]),
            served[side] \/ (side = "a" /\ PiaSelected(pia[side])))

WriteData(side) ==
    PiaStep(side, PiaWrite(side, pia[side], {}),
            served[side] \/ (side = "b" /\ PiaSelected(pia[side])))

WriteControl(side) ==
    \E val \in PiaControls : PiaStep(side, PiaControl(pia[side], val), served[side])

DriveC1(side) ==
    LET level == ~pia[side].c1
    IN PiaStep(side, PiaSetC1(pia[side], level),
               served[side] /\ ~ActiveEdge("c1_sel" \in pia[side].cr, pia[side].c1, level))

DriveC2(side) == PiaStep(side, PiaSetC2(pia[side], ~pia[side].c2), served[side])

PiaInit ==
    /\ pia = [side \in Sides |-> PiaReset]
    /\ served = [side \in Sides |-> FALSE]
    /\ piaSteps = 0

PiaNext ==
    \E side \in Sides :
        \/ ReadData(side) \/ WriteData(side) \/ WriteControl(side)
        \/ DriveC1(side) \/ DriveC2(side)

PiaSpec == PiaInit /\ [][PiaNext]_piaVars

-----------------------------------------------------------------------------
(* Each interrupt output says whether a flag that is enabled is up, and a  *)
(* step in handshake mode leaves the second line low exactly while the     *)
(* data has been accessed and the device has not answered on the first.    *)
(* The first line may be answered, the mode changed and the data accessed  *)
(* in any order.                                                           *)
HandshakeFollowsTheData ==
    [][\A side \in Sides :
          LET s == pia'[side]
          IN /\ s.irq = PiaInterrupt(s)
             /\ Handshakes(s) /\ "c2_lvl" \notin s.cr /\ served'[side] # served[side] =>
                  (s.oc2 = 0) = served'[side]]_piaVars
=============================================================================
