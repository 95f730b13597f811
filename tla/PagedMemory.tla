---------------------------- MODULE PagedMemory ----------------------------
(***************************************************************************)
(* apple2/Memory.cpp: the 6502 fetches and reads from one flat 64K image   *)
(* (mem), a write-back cache of whichever banks the soft switches map.     *)
(* memshadow says which bank each page of the image stands for, memwrite   *)
(* where a store to the page goes, memdirty which pages have to be copied  *)
(* back when their shadow changes.  CPU.cpp writes through memwrite and    *)
(* pushes straight into the image; cards, the program loader and save      *)
(* states reach into image and banks from outside.                         *)
(***************************************************************************)
EXTENDS MemoryMap

CONSTANTS
  LoadModes   \* the switch settings a save state may hold

ASSUME LoadModesAssumption == LoadModes \subseteq Mode

VARIABLES
  mode,       \* mem_mode, the switches as the program last set them
  changing,   \* mode_changing: the tables are to be rebuilt at the next switch
  pending,    \* the switch the instruction at pc is known to be, or {}
  shadow,     \* memshadow
  wr,         \* memwrite: "image", "nowhere" (a null pointer), or a store
  image,      \* mem
  store,      \* memmain, memaux, memrom, cx_rom_internal, cx_rom_peripheral
  dirty,      \* the pages whose bit 0 is set in memdirty
  applied,    \* history: the switches the tables were last built from
  era         \* history: flips when power-up or a save state replaces all RAM

tables == <<shadow, wr, applied>>
data == <<image, store, dirty>>
vars == <<mode, changing, pending, tables, data, era>>

-----------------------------------------------------------------------------
\* The tables mem_update_paging builds.

Bank(m, flag) == IF flag \in m THEN "aux" ELSE "main"

\* Mutant: the auxiliary card keeps no language card of its own.
LcRamMainOnly(m, p) == <<"main", IF p = "d0" /\ "HRAM_BANK2" \notin m THEN "cx" ELSE p>>

LcRam(m, p) == <<Bank(m, "ALTZP"), IF p = "d0" /\ "HRAM_BANK2" \notin m THEN "cx" ELSE p>>

Held(m) == IF "80STORE" \notin m THEN {}
           ELSE {"txt"} \cup (IF "HIRES" \in m THEN {"hgr"} ELSE {})

FromSlot(m, p) == "SLOTCXROM" \in m /\ (p = "c3" => "SLOTC3ROM" \in m)

ShadowOf(m) == [p \in Pages |->
  CASE p = "zp" -> <<Bank(m, "ALTZP"), p>>
    [] p \in Held(m) -> <<Bank(m, "PAGE2"), p>>
    [] p \in RamPages \ Held(m) -> <<Bank(m, "AUXREAD"), p>>
    [] p \in SlotPages -> <<IF FromSlot(m, p) THEN "slot" ELSE "internal", p>>
    [] p \in CardPages -> IF "HIGHRAM" \in m THEN LcRam(m, p) ELSE <<"rom", p>>]

WriteOf(m) == [p \in Pages |->
  CASE p = "zp" \/ p \in Held(m) -> <<"image", p>>
    [] p \in RamPages \ Held(m) ->
         IF ("AUXREAD" \in m) = ("AUXWRITE" \in m) THEN <<"image", p>>
         ELSE <<Bank(m, "AUXWRITE"), p>>
    [] p \in SlotPages -> <<"nowhere", p>>
    [] p \in CardPages ->
         IF "HRAM_WRITE" \notin m THEN <<"nowhere", p>>
         ELSE IF "HIGHRAM" \in m THEN <<"image", p>> ELSE LcRam(m, p)]

\* The page of the image that stands for s, if one does.
LiveAt(s) == {p \in Pages : shadow[p] = s}

\* Mutant: only dirty pages are written back, and a push marks none.
UpdatePagingDirtyOnly ==
  LET new == ShadowOf(mode')
      moved == {p \in Pages : new[p] # shadow[p]}
      saved == moved \cap dirty
  IN  /\ shadow' = new
      /\ wr' = WriteOf(mode')
      /\ applied' = mode'
      /\ store' = [s \in Store |->
           LET from == LiveAt(s) \cap saved
           IN  IF from = {} THEN store[s] ELSE image[CHOOSE p \in from : TRUE]]
      /\ dirty' = dirty \ saved
      /\ image' = [p \in Pages |->
           IF p \in moved THEN store'[new[p]] ELSE image[p]]

\* Every page whose shadow changes is first written back, when it is dirty
\* or holds the stack or page zero, and then copied in.
UpdatePaging ==
  LET new == ShadowOf(mode')
      moved == {p \in Pages : new[p] # shadow[p]}
      saved == {p \in moved : p \in dirty \/ p = "zp"}
  IN  /\ shadow' = new
      /\ wr' = WriteOf(mode')
      /\ applied' = mode'
      /\ store' = [s \in Store |->
           LET from == LiveAt(s) \cap saved
           IN  IF from = {} THEN store[s] ELSE image[CHOOSE p \in from : TRUE]]
      /\ dirty' = dirty \ saved
      /\ image' = [p \in Pages |->
           IF p \in moved THEN store'[new[p]] ELSE image[p]]

\* mem_update_paging(true, ..): the image is filled from the banks, nothing is
\* written back, and no dirty bit is cleared.
InitializePaging ==
  /\ shadow' = ShadowOf(mode')
  /\ wr' = WriteOf(mode')
  /\ applied' = mode'
  /\ image' = [p \in Pages |-> store'[shadow'[p]]]
  /\ dirty' = dirty

Init ==
  /\ mode = ResetMode
  /\ applied = mode
  /\ changing = FALSE
  /\ pending = {}
  /\ shadow = ShadowOf(mode)
  /\ wr = WriteOf(mode)
  /\ store = [s \in Store |-> IF s \in RomStore THEN Factory ELSE Blank]
  /\ image = [p \in Pages |-> store[shadow[p]]]
  /\ dirty = {}
  /\ era = FALSE

-----------------------------------------------------------------------------
\* The 6502.

\* write_byte: the page is marked dirty whichever way the byte goes.
CpuWrite(p, v) ==
  /\ pending = {}
  /\ dirty' = dirty \cup {p}
  /\ image' = [image EXCEPT ![p] = IF wr[p] = <<"image", p>> THEN v ELSE @]
  /\ store' = [s \in Store |-> IF s = wr[p] THEN v ELSE store[s]]
  /\ UNCHANGED <<mode, changing, pending, tables, era>>

\* push marks nothing.  When the instruction at pc is a switch, a push comes
\* from an interrupt, whose handler runs before it.
Push(v) ==
  /\ "zp" \in Pages
  /\ image' = [image EXCEPT !["zp"] = v]
  /\ pending' = {}
  /\ UNCHANGED <<mode, changing, tables, store, dirty, era>>

\* Mutant: the access returns without a note that the tables lag.
HoldOffUnmarked(next) ==
  /\ next \in Switches
  /\ pending' = {next}
  /\ UNCHANGED <<changing, tables, data, era>>

\* The code at pc is about to store into another of $C002-$C005, so the
\* rebuild waits for it.
HoldOff(next) ==
  /\ next \in Switches
  /\ changing' = TRUE
  /\ pending' = {next}
  /\ UNCHANGED <<tables, data, era>>

Settle ==
  /\ pending' = {}
  /\ era' = era
  /\ IF mode' # mode \/ changing
     THEN changing' = FALSE /\ UpdatePaging
     ELSE UNCHANGED <<changing, tables, data>>

\* mem_set_paging for $C000-$C00B and $C054-$C057.
SetSwitch(flag, on) ==
  /\ pending \subseteq {flag}
  /\ mode' = IF on THEN mode \cup {flag} ELSE mode \ {flag}
  /\ \/ Settle
     \/ flag = "AUXWRITE" /\ HoldOff("AUXREAD")

\* mem_set_paging for $C080-$C08F: address bits 0, 1 and 3.  An instance with
\* none of the language card's pages leaves its switches alone.
SetLanguageCard(bit0, bit1, bit3) ==
  /\ CardPages \cap Pages # {}
  /\ pending = {}
  /\ mode' = (mode \ CardFlags)
               \cup (IF bit0 THEN {"HRAM_WRITE"} ELSE {})
               \cup (IF bit3 THEN {} ELSE {"HRAM_BANK2"})
               \cup (IF bit0 = bit1 THEN {"HIGHRAM"} ELSE {})
  /\ \/ Settle
     \/ \E next \in {"AUXREAD", "AUXWRITE"} : HoldOff(next)

-----------------------------------------------------------------------------
\* Everyone else.

\* Mutant: mem_refresh_cx_page not called.
CardRomStoreOnly(p, v) ==
  /\ store' = [store EXCEPT ![<<"slot", p>>] = v]
  /\ UNCHANGED <<mode, changing, pending, tables, image, dirty, era>>

\* host_register_cx_rom: a card swaps its page of ROM, in the store and, while
\* the page is shadowed from it, in the image.
CardRom(p, v) ==
  /\ store' = [store EXCEPT ![<<"slot", p>>] = v]
  /\ image' = [image EXCEPT ![p] = IF shadow[p] = <<"slot", p>> THEN v ELSE @]
  /\ UNCHANGED <<mode, changing, pending, tables, dirty, era>>

\* program_loader_try_load: below $C000, then every page there is dirty.
LoadProgram(p, v) ==
  /\ p \in {"zp"} \cup RamPages
  /\ image' = [image EXCEPT ![p] = v]
  /\ dirty' = dirty \cup ((RamPages \cup {"zp"}) \cap Pages)
  /\ pending' = {}
  /\ UNCHANGED <<mode, changing, tables, store, era>>

\* linapple_reset_soft on a //e.
SoftReset ==
  /\ Switches # {}
  /\ mode' = ResetMode
  /\ pending' = {}
  /\ UNCHANGED <<changing, era>>
  /\ UpdatePaging

RefillRam(v) ==
  /\ store' = [s \in Store |-> IF s \in RamStore THEN v ELSE store[s]]
  /\ era' = ~era

\* mem_reset.
PowerCycle ==
  /\ mode' = ResetMode
  /\ pending' = {}
  /\ changing' = changing
  /\ RefillRam(Blank)
  /\ InitializePaging

\* snapshot_deserialize: mem_reset, and mem_set_snapshot over it.
LoadState(m, v) ==
  /\ mode' = m
  /\ pending' = {}
  /\ changing' = FALSE
  /\ RefillRam(v)
  /\ InitializePaging

Program ==
  \/ \E p \in Pages, v \in Value : CpuWrite(p, v)
  \/ \E v \in Value : Push(v)
  \/ \E flag \in Switches, on \in BOOLEAN : SetSwitch(flag, on)
  \/ \E bit0, bit1, bit3 \in BOOLEAN : SetLanguageCard(bit0, bit1, bit3)

Host ==
  \/ \E p \in Pages \cap SlotPages, v \in Value : CardRom(p, v)
  \/ \E p \in Pages, v \in Value : LoadProgram(p, v)
  \/ SoftReset
  \/ PowerCycle
  \/ \E m \in LoadModes, v \in Value : LoadState(m, v)

Next == Program \/ Host

Spec == Init /\ [][Next]_vars

-----------------------------------------------------------------------------
\* What is in a bank, wherever it is kept.
Contents == [s \in Store |->
  LET live == LiveAt(s)
  IN  IF live = {} THEN store[s] ELSE image[CHOOSE p \in live : TRUE]]

Banked == INSTANCE BankedMemory WITH
            bank <- Contents, mapped <- applied, view <- image

TypeOK ==
  /\ mode \in Mode /\ applied \in Mode
  /\ changing \in BOOLEAN
  /\ pending \in SUBSET {"AUXREAD", "AUXWRITE"}
  /\ shadow \in [Pages -> Store]
  /\ \A p \in Pages : wr[p] \in RamStore \cup {<<"image", p>>, <<"nowhere", p>>}
  /\ DOMAIN wr = Pages
  /\ image \in [Pages -> Value]
  /\ store \in [Store -> Value]
  /\ dirty \in SUBSET Pages
  /\ era \in BOOLEAN

\* The image, its dirty bits and the copying back and forth never show: a
\* program reads what banked memory would hold, whatever order switches,
\* writes, pushes, card ROM swaps, loads and resets come in (Memory.cpp
\* 834-836, "keep both sets of memory consistent").
KeepsBankedMemory == Banked!Spec

\* Tables that lag behind the switches are always due for a rebuild: no path
\* leaves a switch change that no later access will apply.
SwitchesSettle == applied # mode => changing

\* While a slot's page is mapped, its store and its live copy hold the same
\* bytes, so that a dirty page copied back undoes nothing (Memory.cpp 968-978).
CardRomNeverDiverges ==
  \A p \in Pages \cap SlotPages :
    shadow[p] = <<"slot", p>> => image[p] = store[<<"slot", p>>]

\* mem_get_main_ptr and mem_get_aux_ptr, over which mem_get_snapshot saves.
Saved(bank, p) ==
  IF p \in Pages /\ shadow[p] = <<bank, p>> THEN image[p] ELSE store[<<bank, p>>]

\* A save state holds what is in every page of both 64K banks.  It holds for
\* every page but the one below, whose live copy is at another address.
SavedExactly(homes) ==
  \A b \in RamBanks, p \in homes : Saved(b, p) = Contents[<<b, p>>]

SaveStateHoldsItsOwnAddresses == SavedExactly(RamHomes \ {"cx"})

\* The image, the banks and a save state tell one story: every target of the tables
\* is what it may be, a slot's ROM is the same in both its places, and what is saved
\* is what a program would read.
PagesAgree == TypeOK /\ CardRomNeverDiverges /\ SaveStateHoldsItsOwnAddresses

-----------------------------------------------------------------------------
\* Where the code does not do what is said of it.

\* -s, "Restore emulator state from snapshot file" (README.md 291): a save
\* state holds all of both banks.  With bank 1 of the language card mapped and
\* written, mem_get_snapshot saves stale bytes for it: the live copy is at
\* $D000, and the page it is saved under is shadowed by a slot's ROM.
SaveStateHoldsEveryPage == SavedExactly(RamHomes)
=============================================================================
