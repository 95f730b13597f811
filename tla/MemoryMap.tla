----------------------------- MODULE MemoryMap -----------------------------
(***************************************************************************)
(* The names BankedMemory and PagedMemory share: one representative page   *)
(* for every range of the 6502's address space that Memory.cpp maps by a   *)
(* rule of its own, the storage a page can stand for, and the soft         *)
(* switches.                                                               *)
(*   zp   $00-$01     page zero and the stack                              *)
(*   ram  $02-$BF     except the two display ranges below                  *)
(*   txt  $04-$07     text page 1                                          *)
(*   hgr  $20-$3F     hi-res page 1                                        *)
(*   cx   $C0-$C7     except $C3: slot ROM.  Its RAM is where bank 1 of    *)
(*                    the language card lives (LC_BANK_SIZE below $D0)     *)
(*   c3   $C3         slot 3's ROM                                         *)
(*   d0   $D0-$DF     language card, two banks                             *)
(*   e0   $E0-$FF     language card, one bank                              *)
(* A byte is enough of a page: the code moves pages whole and a page has   *)
(* one shadow, one write target and one dirty bit.                         *)
(***************************************************************************)
CONSTANTS
  Value,      \* what a byte can hold
  Blank,      \* the byte power-up leaves in RAM
  Factory,    \* the byte every ROM holds
  Pages,      \* the pages of this instance, a subset of AllPages
  Switches    \* the soft switches this machine has besides the language card's

RamPages == {"ram", "txt", "hgr"}
SlotPages == {"cx", "c3"}
CardPages == {"d0", "e0"}
AllPages == {"zp"} \cup RamPages \cup SlotPages \cup CardPages

CardFlags == {"HRAM_BANK2", "HIGHRAM", "HRAM_WRITE"}
EESwitches == {"80STORE", "AUXREAD", "AUXWRITE", "SLOTCXROM", "ALTZP",
               "SLOTC3ROM", "PAGE2", "HIRES"}

\* memmain and memaux are 64K each whatever is mapped; bank 1 of $D0 is
\* kept in the 4K under the slot ROMs.
RamBanks == {"main", "aux"}
RamHomes == Pages \cup (IF "d0" \in Pages THEN {"cx"} ELSE {})
RamStore == RamBanks \X RamHomes
RomStore == ({"rom"} \X (CardPages \cap Pages))
              \cup ({"internal"} \X (SlotPages \cap Pages))
SlotStore == {"slot"} \X (SlotPages \cap Pages)
Store == RamStore \cup RomStore \cup SlotStore

Mode == SUBSET (Switches \cup CardFlags \cup {"SLOTCXROM"})

\* What RESET' on a //e and power-up on every model leave on; a II never
\* moves SLOTCXROM away from it.
ResetMode == {"HRAM_BANK2", "HRAM_WRITE", "SLOTCXROM"}

ASSUME MemoryMapAssumption ==
  /\ Blank \in Value
  /\ Factory \in Value
  /\ Pages \subseteq AllPages
  /\ Switches \subseteq EESwitches
=============================================================================
