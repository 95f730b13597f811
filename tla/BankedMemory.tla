---------------------------- MODULE BankedMemory ----------------------------
(***************************************************************************)
(* The memory of an Apple II as a program sees it: banks of storage, a     *)
(* set of switches that say which bank an address reads and which it       *)
(* writes, and nothing else.  Turning a switch moves no data.  There is    *)
(* no image, no shadow table, no dirty bit and nothing to write back:      *)
(* PagedMemory, the cache Memory.cpp really keeps, implements this.        *)
(***************************************************************************)
EXTENDS MemoryMap

VARIABLES
  bank,     \* [Store -> Value], what every bank holds
  mapped,   \* the switches in force
  view,     \* [Pages -> Value], what the 6502 reads at each page
  era       \* flips when all RAM is replaced, so that nothing else passes for it

vars == <<bank, mapped, view, era>>

Alternate(m, flag) == IF flag \in m THEN "aux" ELSE "main"

\* With 80STORE on, PAGE2 and not RAMRD/RAMWRT picks the bank of text page 1,
\* and of hi-res page 1 as well when HIRES is on.
PickedByPage2(m, p) ==
  "80STORE" \in m /\ (p = "txt" \/ (p = "hgr" /\ "HIRES" \in m))

CardRam(m, p) ==
  <<Alternate(m, "ALTZP"),
    IF p = "d0" /\ "HRAM_BANK2" \notin m THEN "cx" ELSE p>>

ReadFrom(m, p) ==
  CASE p = "zp" -> <<Alternate(m, "ALTZP"), p>>
    [] p \in RamPages ->
         <<Alternate(m, IF PickedByPage2(m, p) THEN "PAGE2" ELSE "AUXREAD"), p>>
    [] p \in CardPages ->
         IF "HIGHRAM" \in m THEN CardRam(m, p) ELSE <<"rom", p>>
    [] p \in SlotPages ->
         IF "SLOTCXROM" \in m /\ (p = "c3" => "SLOTC3ROM" \in m)
         THEN <<"slot", p>> ELSE <<"internal", p>>

\* The stores a write to p reaches: one, or none.
WriteTo(m, p) ==
  CASE p = "zp" -> {ReadFrom(m, p)}
    [] p \in RamPages ->
         {<<Alternate(m, IF PickedByPage2(m, p) THEN "PAGE2" ELSE "AUXWRITE"), p>>}
    [] p \in CardPages -> IF "HRAM_WRITE" \in m THEN {CardRam(m, p)} ELSE {}
    [] p \in SlotPages -> {}

Put(targets, v) == [s \in Store |-> IF s \in targets THEN v ELSE bank[s]]

See == view' = [p \in Pages |-> bank'[ReadFrom(mapped', p)]]

PowerUp == [s \in Store |-> IF s \in RomStore THEN Factory ELSE Blank]

Init ==
  /\ bank = PowerUp
  /\ mapped = ResetMode
  /\ view = [p \in Pages |-> bank[ReadFrom(mapped, p)]]
  /\ era = FALSE

\* An instruction stores a byte.
Write(p, v) ==
  /\ bank' = Put(WriteTo(mapped, p), v)
  /\ UNCHANGED <<mapped, era>>
  /\ See

\* A byte goes where the page is read: a push, or a program the host loads.
Deposit(p, v) ==
  /\ bank' = Put({ReadFrom(mapped, p)}, v)
  /\ UNCHANGED <<mapped, era>>
  /\ See

\* The switches change and no bank does.
Remap == /\ mapped' \in Mode
         /\ UNCHANGED <<bank, era>>
         /\ See

\* A card presents other bytes in its ROM page.
Swap(p, v) ==
  /\ bank' = Put({<<"slot", p>>}, v)
  /\ UNCHANGED <<mapped, era>>
  /\ See

\* Power-up or a save state puts new contents in all RAM, and in no ROM.
Refill ==
  /\ mapped' \in Mode
  /\ bank' \in [Store -> Value]
  /\ \A s \in Store \ RamStore : bank'[s] = bank[s]
  /\ era' = ~era
  /\ See

Next ==
  \/ \E p \in Pages, v \in Value : Write(p, v) \/ Deposit(p, v)
  \/ \E p \in SlotPages \cap Pages, v \in Value : Swap(p, v)
  \/ Remap
  \/ Refill

Spec == Init /\ [][Next]_vars
=============================================================================
