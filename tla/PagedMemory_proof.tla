------------------------- MODULE PagedMemory_proof -------------------------
(***************************************************************************)
(* Proofs about the machine's two copies of its memory: the image the CPU  *)
(* reads (PagedMemory), for every set of pages, switches and byte values,  *)
(* and the screen (VideoDisplay), for any columns, bytes and switches.     *)
(* The invariant that makes the image a sound cache is IInv: the tables    *)
(* are those of the switches last applied, a page that is neither dirty    *)
(* nor page zero agrees with the bank it stands for, and so does every     *)
(* page that stands for a ROM, dirty or not. The screen's is DisplayInv:   *)
(* it shows the bytes of the copy kept of what was drawn last.             *)
(***************************************************************************)
EXTENDS PagedMemory, VideoDisplay, TLAPS

-----------------------------------------------------------------------------
\* Facts about the tables, for any setting of the switches.

\* No bank is kept live at two pages.
LEMMA ShadowTable ==
  ASSUME NEW m
  PROVE  /\ ShadowOf(m) \in [Pages -> Store]
         /\ \A p \in Pages : ShadowOf(m)[p] = Banked!ReadFrom(m, p)
         /\ \A p, q \in Pages : ShadowOf(m)[p] = ShadowOf(m)[q] => p = q
<1>. USE MemoryMapAssumption DEF AllPages, RamPages, SlotPages, CardPages,
       Banked!RamPages, Banked!SlotPages, Banked!CardPages
<1>1. ASSUME NEW p \in Pages
      PROVE  ShadowOf(m)[p] \in Store
  BY <1>1 DEF ShadowOf, Store, RamStore, RomStore, SlotStore, RamBanks,
     RamHomes, Bank, LcRam, Held, FromSlot
<1>2. ASSUME NEW p \in Pages
      PROVE  ShadowOf(m)[p] = Banked!ReadFrom(m, p)
  BY <1>2 DEF ShadowOf, Bank, LcRam, Held, FromSlot, Banked!ReadFrom,
     Banked!Alternate, Banked!CardRam, Banked!PickedByPage2
<1>3. ASSUME NEW p \in Pages
      PROVE  \/ ShadowOf(m)[p][2] = p
             \/ p = "d0" /\ ShadowOf(m)[p][2] = "cx"
                         /\ ShadowOf(m)[p][1] \in {"main", "aux"}
  BY <1>3 DEF ShadowOf, Bank, LcRam, Held, FromSlot
<1>4. ASSUME "cx" \in Pages
      PROVE  ShadowOf(m)["cx"][1] \in {"slot", "internal"}
  BY <1>4 DEF ShadowOf, Held
<1>5. ASSUME NEW p \in Pages, NEW q \in Pages,
             ShadowOf(m)[p] = ShadowOf(m)[q]
      PROVE  p = q
  BY <1>3, <1>4, <1>5
<1>6. ShadowOf(m) \in [Pages -> Store]
  BY <1>1 DEF ShadowOf
<1>. QED
  BY <1>2, <1>5, <1>6

\* A write target is the page itself where RAM is mapped, nothing, or a RAM
\* bank that is live at no page.
LEMMA WriteTable ==
  ASSUME NEW m, NEW p \in Pages
  PROVE  \/ /\ WriteOf(m)[p] = <<"image", p>>
            /\ ShadowOf(m)[p] \in RamStore
            /\ Banked!WriteTo(m, p) = {ShadowOf(m)[p]}
         \/ /\ WriteOf(m)[p] = <<"nowhere", p>>
            /\ Banked!WriteTo(m, p) = {}
         \/ /\ WriteOf(m)[p] \in RamStore
            /\ Banked!WriteTo(m, p) = {WriteOf(m)[p]}
            /\ \A q \in Pages : ShadowOf(m)[q] # WriteOf(m)[p]
<1>. USE MemoryMapAssumption DEF AllPages, RamPages, SlotPages, CardPages,
       Banked!RamPages, Banked!SlotPages, Banked!CardPages
<1>1. CASE p = "zp"
  BY <1>1 DEF WriteOf, ShadowOf, Held, Bank, RamStore, RamBanks, RamHomes,
     Banked!WriteTo, Banked!ReadFrom, Banked!Alternate
<1>2. CASE p \in RamPages
  <2>1. CASE p \in Held(m)
    BY <1>2, <2>1 DEF WriteOf, ShadowOf, Held, Bank, RamStore, RamBanks,
       RamHomes, Banked!WriteTo, Banked!Alternate, Banked!PickedByPage2
  <2>2. CASE p \notin Held(m) /\ ("AUXREAD" \in m) = ("AUXWRITE" \in m)
    BY <1>2, <2>2 DEF WriteOf, ShadowOf, Held, Bank, RamStore, RamBanks,
       RamHomes, Banked!WriteTo, Banked!Alternate, Banked!PickedByPage2
  <2>3. CASE p \notin Held(m) /\ ("AUXREAD" \in m) # ("AUXWRITE" \in m)
    <3>1. WriteOf(m)[p] = <<Bank(m, "AUXWRITE"), p>>
      BY <1>2, <2>3 DEF WriteOf
    <3>2. /\ WriteOf(m)[p] \in RamStore
          /\ Banked!WriteTo(m, p) = {WriteOf(m)[p]}
      BY <1>2, <2>3, <3>1 DEF Held, Bank, RamStore, RamBanks, RamHomes,
         Banked!WriteTo, Banked!Alternate, Banked!PickedByPage2
    <3>3. ShadowOf(m)[p] # WriteOf(m)[p]
      BY <1>2, <2>3, <3>1 DEF ShadowOf, Bank, Held
    <3>4. ASSUME NEW q \in Pages, q # p
          PROVE  ShadowOf(m)[q] # <<Bank(m, "AUXWRITE"), p>>
      BY <1>2, <3>4 DEF ShadowOf, LcRam, Held, FromSlot
    <3>. QED
      BY <3>1, <3>2, <3>3, <3>4
  <2>. QED
    BY <2>1, <2>2, <2>3
<1>3. CASE p \in SlotPages
  BY <1>3 DEF WriteOf, Held, Banked!WriteTo
<1>4. CASE p \in CardPages
  <2>0. p # "zp" /\ p \notin RamPages /\ p \notin SlotPages /\ p \notin Held(m)
    BY <1>4 DEF Held
  <2>1. CASE "HRAM_WRITE" \notin m
    BY <1>4, <2>0, <2>1 DEF WriteOf, Banked!WriteTo
  <2>2. CASE "HRAM_WRITE" \in m /\ "HIGHRAM" \in m
    <3>1. WriteOf(m)[p] = <<"image", p>> /\ ShadowOf(m)[p] = LcRam(m, p)
      BY <1>4, <2>0, <2>2 DEF WriteOf, ShadowOf
    <3>. QED
      BY <1>4, <2>0, <2>2, <3>1 DEF LcRam, Bank, RamStore, RamBanks, RamHomes,
         Banked!WriteTo, Banked!CardRam, Banked!Alternate
  <2>3. CASE "HRAM_WRITE" \in m /\ "HIGHRAM" \notin m
    <3>1. WriteOf(m)[p] = LcRam(m, p) /\ ShadowOf(m)[p] = <<"rom", p>>
      BY <1>4, <2>0, <2>3 DEF WriteOf, ShadowOf
    <3>2. /\ LcRam(m, p) \in RamStore
          /\ Banked!WriteTo(m, p) = {LcRam(m, p)}
      BY <1>4, <2>0, <2>3 DEF LcRam, Bank, RamStore, RamBanks, RamHomes,
         Banked!WriteTo, Banked!CardRam, Banked!Alternate
    <3>3. ASSUME NEW q \in Pages
          PROVE  ShadowOf(m)[q] # LcRam(m, p)
      BY <1>4, <2>3, <3>3 DEF ShadowOf, LcRam, Bank, Held, FromSlot
    <3>. QED
      BY <3>1, <3>2, <3>3
  <2>. QED
    BY <2>1, <2>2, <2>3
<1>. QED
  BY <1>1, <1>2, <1>3, <1>4

\* The names the two modules share denote the same sets.
LEMMA SameMap ==
  /\ Banked!Store = Store
  /\ Banked!RamStore = RamStore
  /\ Banked!RomStore = RomStore
  /\ Banked!Mode = Mode
  /\ Banked!ResetMode = ResetMode
  /\ Banked!SlotPages = SlotPages
BY DEF Store, RamStore, RomStore, SlotStore, RamBanks, RamHomes, Mode, ResetMode,
   SlotPages, CardPages, CardFlags, Banked!Store, Banked!RamStore,
   Banked!RomStore, Banked!SlotStore, Banked!RamBanks, Banked!RamHomes,
   Banked!Mode, Banked!ResetMode, Banked!SlotPages, Banked!CardPages,
   Banked!CardFlags

\* Contents as a function of the three tables it reads.
Whole(sh, im, st) == [s \in Store |->
  LET live == {p \in Pages : sh[p] = s}
  IN  IF live = {} THEN st[s] ELSE im[CHOOSE p \in live : TRUE]]

LEMMA ContentsIsWhole ==
  /\ Contents = Whole(shadow, image, store)
  /\ Contents' = Whole(shadow', image', store')
BY DEF Contents, Whole, LiveAt

\* A bank that is live is read from the image, any other from its store.
LEMMA Lookup ==
  ASSUME NEW m, NEW im, NEW st, NEW s \in Store
  PROVE  /\ \A p \in Pages : ShadowOf(m)[p] = s => Whole(ShadowOf(m), im, st)[s] = im[p]
         /\ (\A p \in Pages : ShadowOf(m)[p] # s) => Whole(ShadowOf(m), im, st)[s] = st[s]
<1>1. ASSUME NEW p \in Pages, ShadowOf(m)[p] = s
      PROVE  Whole(ShadowOf(m), im, st)[s] = im[p]
  <2>1. {q \in Pages : ShadowOf(m)[q] = s} = {p}
    BY <1>1, ShadowTable
  <2>2. (CHOOSE q \in {p} : TRUE) = p
    OBVIOUS
  <2>. QED
    BY <2>1, <2>2 DEF Whole
<1>2. ASSUME \A p \in Pages : ShadowOf(m)[p] # s
      PROVE  Whole(ShadowOf(m), im, st)[s] = st[s]
  <2>1. {q \in Pages : ShadowOf(m)[q] = s} = {}
    BY <1>2
  <2>. QED
    BY <2>1 DEF Whole
<1>. QED
  BY <1>1, <1>2

\* What the 6502 reads at a page is what the bank mapped there holds.
LEMMA ViewIsTheBanks ==
  ASSUME NEW m, NEW im \in [Pages -> Value], NEW st
  PROVE  im = [p \in Pages |-> Whole(ShadowOf(m), im, st)[Banked!ReadFrom(m, p)]]
<1>1. ASSUME NEW p \in Pages
      PROVE  im[p] = Whole(ShadowOf(m), im, st)[Banked!ReadFrom(m, p)]
  BY ShadowTable, Lookup
<1>. QED
  BY <1>1

\* The pages of RAM, and page zero, never stand for a ROM.
LEMMA RamPagesAreRam ==
  ASSUME NEW m, NEW p \in Pages, p \in {"zp"} \cup RamPages
  PROVE  ShadowOf(m)[p] \in RamStore
BY DEF ShadowOf, Bank, Held, RamPages, SlotPages, CardPages, RamStore, RamBanks, RamHomes

-----------------------------------------------------------------------------
\* The invariant.

Typed ==
  /\ mode \in Mode /\ applied \in Mode
  /\ changing \in BOOLEAN
  /\ pending \in SUBSET {"AUXREAD", "AUXWRITE"}
  /\ image \in [Pages -> Value]
  /\ store \in [Store -> Value]
  /\ dirty \in SUBSET Pages
  /\ era \in BOOLEAN

TablesApplied == shadow = ShadowOf(applied) /\ wr = WriteOf(applied)

CleanPagesAgree ==
  \A p \in Pages : p \notin dirty /\ p # "zp" => image[p] = store[shadow[p]]

RomPagesAgree ==
  \A p \in Pages : shadow[p] \notin RamStore => image[p] = store[shadow[p]]

Cache == Typed /\ TablesApplied /\ CleanPagesAgree /\ RomPagesAgree

IInv == Cache /\ SwitchesSettle

LEMMA InitIInv == Init => IInv
<1>. SUFFICES ASSUME Init PROVE IInv
  OBVIOUS
<1>1. ResetMode \in Mode
  BY DEF ResetMode, Mode, CardFlags
<1>2. store \in [Store -> Value]
  BY MemoryMapAssumption DEF Init
<1>3. image \in [Pages -> Value]
  BY <1>2, ShadowTable DEF Init
<1>. QED
  BY <1>1, <1>2, <1>3 DEF Init, IInv, Cache, Typed, TablesApplied, CleanPagesAgree,
     RomPagesAgree, SwitchesSettle

\* A rebuild of the tables moves bytes between image and banks and changes
\* what no bank holds.
LEMMA UpdateKeepsContents ==
  ASSUME Cache, mode' \in Mode, UpdatePaging,
         changing' \in BOOLEAN, pending' \in SUBSET {"AUXREAD", "AUXWRITE"},
         era' \in BOOLEAN
  PROVE  Cache' /\ Contents' = Contents
<1>. DEFINE new == ShadowOf(mode')
            moved == {p \in Pages : new[p] # shadow[p]}
            saved == {p \in moved : p \in dirty \/ p = "zp"}
<1>1. /\ shadow' = new
      /\ wr' = WriteOf(mode')
      /\ applied' = mode'
      /\ dirty' = dirty \ saved
      /\ image' = [p \in Pages |-> IF p \in moved THEN store'[new[p]] ELSE image[p]]
      /\ DOMAIN store' = Store
      /\ store' = [s \in Store |->
           LET from == LiveAt(s) \cap saved
           IN  IF from = {} THEN store[s] ELSE image[CHOOSE p \in from : TRUE]]
  BY DEF UpdatePaging
<1>2. /\ shadow = ShadowOf(applied)
      /\ shadow \in [Pages -> Store]
      /\ new \in [Pages -> Store]
      /\ \A p, q \in Pages : shadow[p] = shadow[q] => p = q
      /\ \A p, q \in Pages : new[p] = new[q] => p = q
  BY ShadowTable DEF Cache, TablesApplied
<1>. HIDE DEF new
<1>3. ASSUME NEW s \in Store, NEW p \in saved, shadow[p] = s
      PROVE  store'[s] = image[p]
  <2>1. LiveAt(s) \cap saved = {p}
    BY <1>2, <1>3 DEF LiveAt
  <2>2. (CHOOSE q \in {p} : TRUE) = p
    OBVIOUS
  <2>. QED
    BY <1>1, <2>1, <2>2
<1>4. ASSUME NEW s \in Store, \A p \in saved : shadow[p] # s
      PROVE  store'[s] = store[s]
  <2>1. LiveAt(s) \cap saved = {}
    BY <1>4 DEF LiveAt
  <2>. QED
    BY <1>1, <2>1
<1>5. ASSUME NEW p \in Pages, p \notin moved
      PROVE  shadow'[p] = shadow[p] /\ image'[p] = image[p] /\ store'[shadow[p]] = store[shadow[p]]
  BY <1>1, <1>2, <1>4, <1>5
<1>6. ASSUME NEW p \in Pages, p \in moved
      PROVE  image'[p] = store'[shadow'[p]]
  BY <1>1, <1>6
<1>7. ASSUME NEW s \in Store, \A p \in Pages : ~(shadow[p] = s /\ shadow'[p] = s)
      PROVE  store'[s] = Contents[s]
  <2>1. CASE \E q \in Pages : shadow[q] = s
    <3>1. PICK q \in Pages : shadow[q] = s
      BY <2>1
    <3>2. q \in moved
      BY <1>1, <1>7, <3>1
    <3>3. Contents[s] = image[q]
      BY <3>1, <1>2, ContentsIsWhole, Lookup
    <3>4. CASE q \in saved
      BY <3>1, <3>3, <3>4, <1>3
    <3>5. CASE q \notin saved
      <4>1. image[q] = store[s]
        BY <3>1, <3>2, <3>5 DEF Cache, CleanPagesAgree
      <4>2. \A p \in saved : shadow[p] # s
        BY <3>1, <3>5, <1>2
      <4>. QED
        BY <3>3, <4>1, <4>2, <1>4
    <3>. QED
      BY <3>4, <3>5
  <2>2. CASE \A q \in Pages : shadow[q] # s
    <3>1. Contents[s] = store[s]
      BY <2>2, <1>2, ContentsIsWhole, Lookup
    <3>. QED
      BY <2>2, <3>1, <1>4
  <2>. QED
    BY <2>1, <2>2
<1>8. ASSUME NEW s \in Store
      PROVE  Contents'[s] = Contents[s]
  <2>0. shadow' = ShadowOf(mode')
    BY <1>1 DEF new
  <2>1. CASE \E p \in Pages : shadow'[p] = s
    <3>1. PICK p \in Pages : shadow'[p] = s
      BY <2>1
    <3>2. Contents'[s] = image'[p]
      BY <3>1, <2>0, ContentsIsWhole, Lookup
    <3>3. CASE p \in moved
      <4>1. \A q \in Pages : ~(shadow[q] = s /\ shadow'[q] = s)
        BY <3>1, <3>3, <1>1, <1>2
      <4>. QED
        BY <3>1, <3>2, <3>3, <4>1, <1>6, <1>7
    <3>4. CASE p \notin moved
      <4>1. Contents[s] = image[p]
        BY <3>1, <3>4, <1>5, <1>2, ContentsIsWhole, Lookup
      <4>. QED
        BY <3>2, <3>4, <4>1, <1>5
    <3>. QED
      BY <3>3, <3>4
  <2>2. CASE \A p \in Pages : shadow'[p] # s
    <3>1. Contents'[s] = store'[s]
      BY <2>2, <2>0, ContentsIsWhole, Lookup
    <3>. QED
      BY <2>2, <3>1, <1>7
  <2>. QED
    BY <2>1, <2>2
<1>9. Contents' = Contents
  BY <1>8 DEF Contents
<1>10. store' \in [Store -> Value]
  <2>1. ASSUME NEW s \in Store
        PROVE  store'[s] \in Value
    <3>1. CASE \E p \in saved : shadow[p] = s
      BY <3>1, <1>3 DEF Cache, Typed
    <3>2. CASE \A p \in saved : shadow[p] # s
      BY <3>2, <1>4 DEF Cache, Typed
    <3>. QED
      BY <3>1, <3>2
  <2>. QED
    BY <2>1, <1>1
<1>11. image' \in [Pages -> Value]
  BY <1>1, <1>2, <1>10 DEF Cache, Typed
<1>12. Typed'
  BY <1>1, <1>10, <1>11 DEF Cache, Typed
<1>13. TablesApplied'
  BY <1>1 DEF TablesApplied, new
<1>14. CleanPagesAgree'
  <2>. SUFFICES ASSUME NEW p \in Pages, p \notin dirty', p # "zp"
                PROVE  image'[p] = store'[shadow'[p]]
    BY DEF CleanPagesAgree
  <2>1. CASE p \in moved
    BY <2>1, <1>6
  <2>2. CASE p \notin moved
    <3>1. p \notin dirty
      BY <2>2, <1>1
    <3>. QED
      BY <2>2, <3>1, <1>5 DEF Cache, CleanPagesAgree
  <2>. QED
    BY <2>1, <2>2
<1>15. RomPagesAgree'
  <2>. SUFFICES ASSUME NEW p \in Pages, shadow'[p] \notin RamStore
                PROVE  image'[p] = store'[shadow'[p]]
    BY DEF RomPagesAgree
  <2>1. CASE p \in moved
    BY <2>1, <1>6
  <2>2. CASE p \notin moved
    BY <2>2, <1>5 DEF Cache, RomPagesAgree
  <2>. QED
    BY <2>1, <2>2
<1>. QED
  BY <1>9, <1>12, <1>13, <1>14, <1>15 DEF Cache

\* Lookup for the state a step leads to.
LEMMA LiveNext ==
  ASSUME NEW m, shadow' = ShadowOf(m), NEW s \in Store, NEW p \in Pages,
         ShadowOf(m)[p] = s
  PROVE  Contents'[s] = image'[p]
BY ContentsIsWhole, Lookup

\* Where the tables stay, only the bytes have to be looked at.
LEMMA SameTables ==
  ASSUME Cache, UNCHANGED <<mode, tables, era>>,
         changing' \in BOOLEAN, pending' \in SUBSET {"AUXREAD", "AUXWRITE"},
         image' \in [Pages -> Value], store' \in [Store -> Value],
         dirty' \in SUBSET Pages,
         CleanPagesAgree', RomPagesAgree'
  PROVE  Cache'
BY DEF Cache, Typed, TablesApplied, tables

\* A byte put into the image reaches the bank its page stands for.
LEMMA PutIntoImage ==
  ASSUME Cache, UNCHANGED tables, NEW p \in Pages, NEW v \in Value,
         image' = [image EXCEPT ![p] = v], store' = store
  PROVE  Contents' = Banked!Put({shadow[p]}, v)
<1>0. shadow = ShadowOf(applied) /\ shadow' = ShadowOf(applied)
  BY DEF Cache, TablesApplied, tables
<1>1. /\ \A q, r \in Pages : shadow[q] = shadow[r] => q = r
      /\ image \in [Pages -> Value]
  BY <1>0, ShadowTable DEF Cache, Typed
<1>2. ASSUME NEW s \in Store
      PROVE  Contents'[s] = IF s \in {shadow[p]} THEN v ELSE Contents[s]
  <2>1. CASE \E q \in Pages : shadow[q] = s
    <3>1. PICK q \in Pages : shadow[q] = s
      BY <2>1
    <3>2. Contents[s] = image[q]
      BY <3>1, <1>0, ContentsIsWhole, Lookup
    <3>3. Contents'[s] = image'[q]
      BY <3>1, <1>0, LiveNext
    <3>. QED
      BY <3>1, <3>2, <3>3, <1>1
  <2>2. CASE \A q \in Pages : shadow[q] # s
    <3>1. Contents[s] = store[s] /\ Contents'[s] = store'[s]
      BY <2>2, <1>0, ContentsIsWhole, Lookup
    <3>. QED
      BY <2>2, <3>1
  <2>. QED
    BY <2>1, <2>2
<1>. QED
  BY <1>2, SameMap DEF Contents, Banked!Put

\* A byte put into a bank that is live nowhere reaches that bank.
LEMMA PutIntoStore ==
  ASSUME Cache, UNCHANGED tables, NEW t \in Store, NEW v \in Value,
         \A q \in Pages : shadow[q] # t,
         image' = image,
         store' = [s \in Store |-> IF s = t THEN v ELSE store[s]]
  PROVE  Contents' = Banked!Put({t}, v)
<1>1. shadow = ShadowOf(applied) /\ shadow' = ShadowOf(applied)
  BY DEF Cache, TablesApplied, tables
<1>2. ASSUME NEW s \in Store
      PROVE  Contents'[s] = IF s \in {t} THEN v ELSE Contents[s]
  <2>1. CASE \E q \in Pages : shadow[q] = s
    <3>1. PICK q \in Pages : shadow[q] = s
      BY <2>1
    <3>2. Contents[s] = image[q] /\ Contents'[s] = image'[q]
      BY <3>1, <1>1, ContentsIsWhole, Lookup
    <3>. QED
      BY <3>1, <3>2
  <2>2. CASE \A q \in Pages : shadow[q] # s
    <3>1. Contents[s] = store[s] /\ Contents'[s] = store'[s]
      BY <2>2, <1>1, ContentsIsWhole, Lookup
    <3>. QED
      BY <2>2, <3>1
  <2>. QED
    BY <2>1, <2>2
<1>. QED
  BY <1>2, SameMap DEF Contents, Banked!Put

LEMMA SeeHolds ==
  ASSUME Cache'
  PROVE  Banked!See
<1>1. image' \in [Pages -> Value] /\ shadow' = ShadowOf(applied')
  BY DEF Cache, Typed, TablesApplied
<1>. QED
  BY <1>1, ViewIsTheBanks, ContentsIsWhole DEF Banked!See

\* A slot's ROM is live at its own page or nowhere.
LEMMA SlotRomAtItsPage ==
  ASSUME NEW m, NEW p \in SlotPages, NEW q \in Pages, ShadowOf(m)[q] = <<"slot", p>>
  PROVE  q = p
BY MemoryMapAssumption DEF AllPages, RamPages, SlotPages, CardPages, ShadowOf, Bank,
   LcRam, Held, FromSlot

\* A write target that is not a bank is not taken for one.
LEMMA TargetNames ==
  ASSUME NEW p
  PROVE  /\ <<"image", p>> \notin Store
         /\ <<"nowhere", p>> \notin Store
         /\ <<"nowhere", p>> # <<"image", p>>
BY DEF Store, RamStore, RomStore, SlotStore, RamBanks

-----------------------------------------------------------------------------
\* Every action keeps the invariant and is a step of BankedMemory or none.

AsBanked == Banked!Next \/ UNCHANGED Banked!vars

LEMMA StepCpuWrite ==
  ASSUME IInv, NEW p \in Pages, NEW v \in Value, CpuWrite(p, v)
  PROVE  IInv' /\ AsBanked
<1>. USE DEF IInv
<1>1. /\ shadow = ShadowOf(applied) /\ wr = WriteOf(applied)
      /\ image \in [Pages -> Value] /\ store \in [Store -> Value]
      /\ UNCHANGED tables /\ applied' = applied /\ era' = era
      /\ \A q, r \in Pages : shadow[q] = shadow[r] => q = r
  BY ShadowTable DEF Cache, Typed, TablesApplied, tables, CpuWrite
<1>2. Contents' = Banked!Put(Banked!WriteTo(applied, p), v) /\ CleanPagesAgree' /\ RomPagesAgree'
  <2>1. CASE /\ wr[p] = <<"image", p>>
             /\ shadow[p] \in RamStore
             /\ Banked!WriteTo(applied, p) = {shadow[p]}
    <3>1. store' = store /\ image' = [image EXCEPT ![p] = v]
      BY <2>1, <1>1, TargetNames DEF CpuWrite
    <3>2. CleanPagesAgree' /\ RomPagesAgree'
      BY <2>1, <3>1, <1>1 DEF CpuWrite, Cache, CleanPagesAgree, RomPagesAgree, tables
    <3>. QED
      BY <2>1, <3>1, <3>2, <1>1, PutIntoImage
  <2>2. CASE /\ wr[p] = <<"nowhere", p>>
             /\ Banked!WriteTo(applied, p) = {}
    <3>1. store' = store /\ image' = image
      <4>1. wr[p] \notin Store /\ wr[p] # <<"image", p>>
        BY <2>2, TargetNames
      <4>2. image' = [image EXCEPT ![p] = image[p]]
        BY <4>1 DEF CpuWrite
      <4>3. store' = [s \in Store |-> store[s]]
        BY <4>1 DEF CpuWrite
      <4>4. store' = store
        BY <4>3, <1>1
      <4>5. image' = image
        <5>1. image' = [q \in Pages |-> image[q]]
          BY <4>2, <1>1
        <5>. QED
          BY <5>1, <1>1
      <4>. QED
        BY <4>4, <4>5
    <3>2. CleanPagesAgree' /\ RomPagesAgree'
      BY <3>1, <1>1 DEF CpuWrite, Cache, CleanPagesAgree, RomPagesAgree, tables
    <3>3. Contents' = Contents
      BY <3>1, <1>1 DEF Contents, LiveAt, tables
    <3>. QED
      BY <2>2, <3>2, <3>3, SameMap DEF Contents, Banked!Put
  <2>3. CASE /\ wr[p] \in RamStore
             /\ Banked!WriteTo(applied, p) = {wr[p]}
             /\ \A q \in Pages : shadow[q] # wr[p]
    <3>1. wr[p] \in Store /\ wr[p] # <<"image", p>>
      BY <2>3, TargetNames DEF Store
    <3>2. /\ image' = image
          /\ store' = [s \in Store |-> IF s = wr[p] THEN v ELSE store[s]]
      BY <3>1, <1>1 DEF CpuWrite
    <3>3. \A q \in Pages : shadow[q] \in Store /\ store'[shadow[q]] = store[shadow[q]]
      BY <2>3, <3>2, <1>1, ShadowTable
    <3>4. CleanPagesAgree' /\ RomPagesAgree'
      BY <3>2, <3>3, <1>1 DEF CpuWrite, Cache, CleanPagesAgree, RomPagesAgree, tables
    <3>. QED
      BY <2>3, <3>1, <3>2, <3>4, <1>1, PutIntoStore
  <2>. QED
    BY <1>1, <2>1, <2>2, <2>3, WriteTable
<1>3. Cache'
  <2>1. image' \in [Pages -> Value] /\ store' \in [Store -> Value]
    BY <1>1 DEF CpuWrite
  <2>2. /\ UNCHANGED <<mode, tables, era>> /\ dirty' \in SUBSET Pages
        /\ changing' \in BOOLEAN /\ pending' \in SUBSET {"AUXREAD", "AUXWRITE"}
    BY DEF CpuWrite, Cache, Typed
  <2>. QED
    BY <1>2, <2>1, <2>2, SameTables
<1>4. SwitchesSettle'
  BY <1>1 DEF CpuWrite, SwitchesSettle
<1>. QED
  BY <1>1, <1>2, <1>3, <1>4, SeeHolds DEF AsBanked, Banked!Next, Banked!Write

\* What a push and the program loader have in common.
LEMMA StepDeposit ==
  ASSUME IInv, NEW p \in Pages, NEW v \in Value,
         p \in {"zp"} \cup RamPages,
         image' = [image EXCEPT ![p] = v], store' = store,
         dirty \subseteq dirty', dirty' \in SUBSET Pages,
         p \in dirty' \/ p = "zp",
         pending' = {}, UNCHANGED <<mode, changing, tables, era>>
  PROVE  IInv' /\ AsBanked
<1>. USE DEF IInv
<1>1. /\ shadow = ShadowOf(applied) /\ applied' = applied /\ shadow' = shadow /\ era' = era
      /\ UNCHANGED tables
      /\ image \in [Pages -> Value] /\ store \in [Store -> Value]
      /\ shadow[p] \in RamStore
      /\ shadow[p] = Banked!ReadFrom(applied, p)
  BY RamPagesAreRam, ShadowTable DEF Cache, Typed, TablesApplied, tables
<1>2. CleanPagesAgree' /\ RomPagesAgree'
  BY <1>1 DEF Cache, CleanPagesAgree, RomPagesAgree
<1>3. image' \in [Pages -> Value]
  BY <1>1
<1>4. Cache'
  BY <1>1, <1>2, <1>3, SameTables DEF Cache, Typed
<1>5. Contents' = Banked!Put({Banked!ReadFrom(applied, p)}, v)
  BY <1>1, PutIntoImage
<1>6. SwitchesSettle'
  BY <1>1 DEF SwitchesSettle
<1>. QED
  BY <1>1, <1>4, <1>5, <1>6, SeeHolds DEF AsBanked, Banked!Next, Banked!Deposit

LEMMA StepCardRom ==
  ASSUME IInv, NEW p \in Pages \cap SlotPages, NEW v \in Value, CardRom(p, v)
  PROVE  IInv' /\ AsBanked
<1>. USE DEF IInv
<1>. DEFINE t == <<"slot", p>>
<1>0. shadow = ShadowOf(applied) /\ shadow' = ShadowOf(applied)
  BY DEF Cache, TablesApplied, tables, CardRom
<1>1. t \in Store
  BY DEF Store, SlotStore
<1>. HIDE DEF t
<1>2. /\ shadow = ShadowOf(applied) /\ applied' = applied /\ shadow' = shadow /\ era' = era
      /\ UNCHANGED tables
      /\ image \in [Pages -> Value] /\ store \in [Store -> Value]
      /\ \A q, r \in Pages : shadow[q] = shadow[r] => q = r
      /\ \A q \in Pages : shadow[q] \in Store
      /\ store' = [store EXCEPT ![t] = v]
      /\ image' = [image EXCEPT ![p] = IF shadow[p] = t THEN v ELSE image[p]]
  BY ShadowTable DEF Cache, Typed, TablesApplied, tables, CardRom, t
<1>3. ASSUME NEW q \in Pages, shadow[q] = t
      PROVE  q = p
  BY <1>3, SlotRomAtItsPage DEF t, Cache, TablesApplied
<1>4. \A q \in Pages : image'[q] = IF shadow[q] = t THEN v ELSE image[q]
  BY <1>2, <1>3
<1>5. \A s \in Store : store'[s] = IF s = t THEN v ELSE store[s]
  BY <1>1, <1>2
<1>6. CleanPagesAgree' /\ RomPagesAgree'
  BY <1>2, <1>4, <1>5 DEF Cache, CleanPagesAgree, RomPagesAgree, CardRom
<1>7. Cache'
  <2>1. image' \in [Pages -> Value] /\ store' \in [Store -> Value]
    BY <1>1, <1>2
  <2>2. /\ UNCHANGED <<mode, tables, era>> /\ dirty' \in SUBSET Pages
        /\ changing' \in BOOLEAN /\ pending' \in SUBSET {"AUXREAD", "AUXWRITE"}
    BY DEF CardRom, Cache, Typed
  <2>. QED
    BY <1>6, <2>1, <2>2, SameTables
<1>8. ASSUME NEW s \in Store
      PROVE  Contents'[s] = IF s \in {t} THEN v ELSE Contents[s]
  <2>1. CASE \E q \in Pages : shadow[q] = s
    <3>1. PICK q \in Pages : shadow[q] = s
      BY <2>1
    <3>2. Contents[s] = image[q] /\ Contents'[s] = image'[q]
      BY <3>1, <1>0, ContentsIsWhole, Lookup
    <3>. QED
      BY <3>1, <3>2, <1>4
  <2>2. CASE \A q \in Pages : shadow[q] # s
    <3>1. Contents[s] = store[s] /\ Contents'[s] = store'[s]
      BY <2>2, <1>0, ContentsIsWhole, Lookup
    <3>. QED
      BY <3>1, <1>5
  <2>. QED
    BY <2>1, <2>2
<1>9. Contents' = Banked!Put({t}, v)
  BY <1>8, SameMap DEF Contents, Banked!Put
<1>10. SwitchesSettle'
  BY <1>2 DEF SwitchesSettle, CardRom
<1>. QED
  BY <1>2, <1>7, <1>9, <1>10, SameMap, SeeHolds DEF AsBanked, Banked!Next, Banked!Swap, t

\* A rebuild is a Remap.
LEMMA StepUpdate ==
  ASSUME IInv, mode' \in Mode, UpdatePaging,
         changing' \in BOOLEAN, pending' = {}, era' = era
  PROVE  IInv' /\ AsBanked
<1>1. Cache' /\ Contents' = Contents
  BY UpdateKeepsContents DEF IInv, Cache, Typed
<1>2. applied' = mode'
  BY DEF UpdatePaging
<1>. QED
  BY <1>1, <1>2, SameMap, SeeHolds DEF IInv, SwitchesSettle, AsBanked, Banked!Next,
     Banked!Remap

LEMMA StepSettle ==
  ASSUME IInv, mode' \in Mode, Settle
  PROVE  IInv' /\ AsBanked
<1>1. CASE mode' # mode \/ changing
  BY <1>1, StepUpdate DEF Settle
<1>2. CASE mode' = mode /\ changing = FALSE
  <2>1. /\ UNCHANGED <<mode, changing, shadow, wr, applied, image, store, dirty, era>>
        /\ pending' = {}
    BY <1>2 DEF Settle, tables, data
  <2>2. Contents' = Contents
    BY <2>1 DEF Contents, LiveAt
  <2>. QED
    BY <2>1, <2>2 DEF IInv, Cache, Typed, TablesApplied, CleanPagesAgree,
       RomPagesAgree, SwitchesSettle, AsBanked, Banked!vars
<1>. QED
  BY <1>1, <1>2 DEF IInv, Cache, Typed

LEMMA StepHoldOff ==
  ASSUME IInv, mode' \in Mode, NEW next \in {"AUXREAD", "AUXWRITE"}, HoldOff(next)
  PROVE  IInv' /\ AsBanked
<1>1. /\ UNCHANGED <<shadow, wr, applied, image, store, dirty, era>>
      /\ changing' = TRUE /\ pending' = {next}
  BY DEF HoldOff, tables, data
<1>2. Contents' = Contents
  BY <1>1 DEF Contents, LiveAt
<1>. QED
  BY <1>1, <1>2 DEF IInv, Cache, Typed, TablesApplied, CleanPagesAgree,
     RomPagesAgree, SwitchesSettle, AsBanked, Banked!vars

\* A refilled memory is read from its banks throughout; the ROM pages agreed
\* with theirs before, so nothing of them is lost.
LEMMA StepRefill ==
  ASSUME IInv, mode' \in Mode, NEW v \in Value, RefillRam(v), InitializePaging,
         changing' \in BOOLEAN, pending' = {}
  PROVE  IInv' /\ AsBanked
<1>. USE DEF IInv
<1>1. /\ shadow = ShadowOf(applied) /\ shadow' = ShadowOf(mode')
      /\ wr' = WriteOf(mode') /\ applied' = mode' /\ dirty' = dirty
      /\ \A q \in Pages : shadow'[q] \in Store
      /\ image' = [p \in Pages |-> store'[shadow'[p]]]
  BY ShadowTable DEF Cache, TablesApplied, InitializePaging
<1>2. store' \in [Store -> Value] /\ era' = ~era /\ era \in BOOLEAN
  BY DEF RefillRam, Cache, Typed
<1>3. image' \in [Pages -> Value]
  BY <1>1, <1>2
<1>4. Cache'
  BY <1>1, <1>2, <1>3 DEF Cache, Typed, TablesApplied, CleanPagesAgree, RomPagesAgree
<1>5. ASSUME NEW s \in Store
      PROVE  Contents'[s] = store'[s]
  BY <1>1, ContentsIsWhole, Lookup
<1>6. ASSUME NEW s \in Store, s \notin RamStore
      PROVE  Contents[s] = store[s]
  <2>1. CASE \E q \in Pages : shadow[q] = s
    <3>1. PICK q \in Pages : shadow[q] = s
      BY <2>1
    <3>2. Contents[s] = image[q]
      BY <3>1, <1>1, ContentsIsWhole, Lookup
    <3>. QED
      BY <3>1, <3>2, <1>6 DEF Cache, RomPagesAgree
  <2>2. CASE \A q \in Pages : shadow[q] # s
    BY <2>2, <1>1, ContentsIsWhole, Lookup
  <2>. QED
    BY <2>1, <2>2
<1>7. \A s \in Store \ RamStore : Contents'[s] = Contents[s]
  BY <1>5, <1>6 DEF RefillRam
<1>8. Contents' = store'
  BY <1>2, <1>5 DEF Contents
<1>9. Banked!Refill
  BY <1>1, <1>2, <1>4, <1>7, <1>8, SameMap, SeeHolds DEF Banked!Refill
<1>10. SwitchesSettle'
  BY <1>1 DEF SwitchesSettle
<1>. QED
  BY <1>4, <1>9, <1>10 DEF AsBanked, Banked!Next

LEMMA Step == IInv /\ [Next]_vars => IInv' /\ AsBanked
<1>. SUFFICES ASSUME IInv, [Next]_vars
              PROVE  IInv' /\ AsBanked
  OBVIOUS
<1>0. ResetMode \in Mode
  BY DEF ResetMode, Mode, CardFlags
<1>1. ASSUME NEW p \in Pages, NEW v \in Value, CpuWrite(p, v)
      PROVE  IInv' /\ AsBanked
  BY <1>1, StepCpuWrite
<1>2. ASSUME NEW v \in Value, Push(v)
      PROVE  IInv' /\ AsBanked
  <2>1. /\ "zp" \in Pages /\ image' = [image EXCEPT !["zp"] = v] /\ store' = store
        /\ dirty' = dirty /\ pending' = {} /\ UNCHANGED <<mode, changing, tables, era>>
    BY <1>2 DEF Push
  <2>2. dirty' \in SUBSET Pages
    BY <2>1 DEF IInv, Cache, Typed
  <2>. QED
    BY <2>1, <2>2, StepDeposit
<1>3. ASSUME NEW flag \in Switches, NEW on \in BOOLEAN, SetSwitch(flag, on)
      PROVE  IInv' /\ AsBanked
  <2>1. mode' \in Mode
    BY <1>3 DEF SetSwitch, Mode, IInv, Cache, Typed
  <2>2. CASE Settle
    BY <2>1, <2>2, StepSettle
  <2>3. CASE HoldOff("AUXREAD")
    BY <2>1, <2>3, StepHoldOff
  <2>. QED
    BY <1>3, <2>2, <2>3 DEF SetSwitch
<1>4. ASSUME NEW bit0 \in BOOLEAN, NEW bit1 \in BOOLEAN, NEW bit3 \in BOOLEAN,
             SetLanguageCard(bit0, bit1, bit3)
      PROVE  IInv' /\ AsBanked
  <2>1. mode' \in Mode
    BY <1>4 DEF SetLanguageCard, Mode, CardFlags, IInv, Cache, Typed
  <2>2. CASE Settle
    BY <2>1, <2>2, StepSettle
  <2>3. ASSUME NEW next \in {"AUXREAD", "AUXWRITE"}, HoldOff(next)
        PROVE  IInv' /\ AsBanked
    BY <2>1, <2>3, StepHoldOff
  <2>. QED
    BY <1>4, <2>2, <2>3 DEF SetLanguageCard
<1>5. ASSUME NEW p \in Pages \cap SlotPages, NEW v \in Value, CardRom(p, v)
      PROVE  IInv' /\ AsBanked
  BY <1>5, StepCardRom
<1>6. ASSUME NEW p \in Pages, NEW v \in Value, LoadProgram(p, v)
      PROVE  IInv' /\ AsBanked
  <2>1. /\ p \in {"zp"} \cup RamPages
        /\ image' = [image EXCEPT ![p] = v] /\ store' = store
        /\ dirty' = dirty \cup ((RamPages \cup {"zp"}) \cap Pages)
        /\ pending' = {} /\ UNCHANGED <<mode, changing, tables, era>>
    BY <1>6 DEF LoadProgram
  <2>2. dirty \subseteq dirty' /\ dirty' \in SUBSET Pages /\ p \in dirty'
    BY <2>1 DEF IInv, Cache, Typed
  <2>. QED
    BY <2>1, <2>2, StepDeposit
<1>7. CASE SoftReset
  <2>1. /\ mode' = ResetMode /\ pending' = {} /\ UNCHANGED <<changing, era>> /\ UpdatePaging
    BY <1>7 DEF SoftReset
  <2>. QED
    BY <1>0, <2>1, StepUpdate DEF IInv, Cache, Typed
<1>8. CASE PowerCycle
  <2>1. /\ mode' = ResetMode /\ pending' = {} /\ changing' = changing
        /\ RefillRam(Blank) /\ InitializePaging
    BY <1>8 DEF PowerCycle
  <2>2. changing' \in BOOLEAN
    BY <2>1 DEF IInv, Cache, Typed
  <2>. QED
    BY <1>0, <2>1, <2>2, StepRefill, MemoryMapAssumption
<1>9. ASSUME NEW m \in LoadModes, NEW v \in Value, LoadState(m, v)
      PROVE  IInv' /\ AsBanked
  <2>1. /\ mode' \in Mode /\ pending' = {} /\ changing' \in BOOLEAN
        /\ RefillRam(v) /\ InitializePaging
    BY <1>9, LoadModesAssumption DEF LoadState
  <2>. QED
    BY <2>1, StepRefill
<1>10. CASE UNCHANGED vars
  <2>1. UNCHANGED <<mode, changing, pending, shadow, wr, applied, image, store, dirty, era>>
    BY <1>10 DEF vars, tables, data
  <2>2. Contents' = Contents
    BY <2>1 DEF Contents, LiveAt
  <2>. QED
    BY <2>1, <2>2 DEF IInv, Cache, Typed, TablesApplied, CleanPagesAgree,
       RomPagesAgree, SwitchesSettle, AsBanked, Banked!vars
<1>. QED
  BY <1>1, <1>2, <1>3, <1>4, <1>5, <1>6, <1>7, <1>8, <1>9, <1>10
     DEF Next, Program, Host

LEMMA Invariance == Spec => []IInv
BY InitIInv, Step, PTL DEF Spec

-----------------------------------------------------------------------------
\* Every variable keeps its type, and no write target is a ROM.
THEOREM TypeCorrect == Spec => []TypeOK
<1>1. IInv => TypeOK
  <2>. SUFFICES ASSUME IInv PROVE TypeOK
    OBVIOUS
  <2>1. shadow \in [Pages -> Store]
    BY ShadowTable DEF IInv, Cache, TablesApplied
  <2>2. \A p \in Pages : wr[p] \in RamStore \cup {<<"image", p>>, <<"nowhere", p>>}
    BY WriteTable DEF IInv, Cache, TablesApplied
  <2>3. DOMAIN wr = Pages
    BY DEF IInv, Cache, TablesApplied, WriteOf
  <2>. QED
    BY <2>1, <2>2, <2>3 DEF IInv, Cache, Typed, TypeOK
<1>. QED
  BY <1>1, Invariance, PTL

\* Tables that lag behind the switches are always due for a rebuild
\* (mem_set_paging, mode_changing).
THEOREM Settling == Spec => []SwitchesSettle
<1>1. IInv => SwitchesSettle
  BY DEF IInv
<1>. QED
  BY <1>1, Invariance, PTL

\* The live copy of a mapped slot ROM page and its store never diverge
\* (mem_refresh_cx_page).
THEOREM CardRomAgreement == Spec => []CardRomNeverDiverges
<1>1. IInv => CardRomNeverDiverges
  <2>1. \A p : <<"slot", p>> \notin RamStore
    BY DEF RamStore, RamBanks
  <2>. QED
    BY <2>1 DEF IInv, Cache, RomPagesAgree, CardRomNeverDiverges
<1>. QED
  BY <1>1, Invariance, PTL

\* A bank's page is live at its own address or not at all, but for bank 1 of the
\* language card, which is live at bank 2's.
LEMMA LiveAtHome ==
  ASSUME NEW m, NEW p \in Pages, NEW b \in RamBanks, NEW q \in RamHomes \ {"cx"},
         ShadowOf(m)[p] = <<b, q>>
  PROVE  p = q
BY MemoryMapAssumption DEF AllPages, RamPages, SlotPages, CardPages, ShadowOf, Bank, LcRam,
   Held, FromSlot, RamHomes

\* A save state holds every page of both banks that is live at its own address, and
\* the pages, the banks and the card ROMs agree (mem_get_snapshot, mem_get_main_ptr).
THEOREM SavedPagesAgree == Spec => []PagesAgree
<1>1. IInv => SaveStateHoldsItsOwnAddresses
  <2>. SUFFICES ASSUME IInv, NEW b \in RamBanks, NEW p \in RamHomes \ {"cx"}
                PROVE  Saved(b, p) = Contents[<<b, p>>]
    BY DEF SaveStateHoldsItsOwnAddresses, SavedExactly
  <2>1. <<b, p>> \in Store
    BY DEF Store, RamStore
  <2>2. p \in Pages
    BY DEF RamHomes
  <2>3. \A q \in Pages : shadow[q] = <<b, p>> => q = p
    BY LiveAtHome DEF IInv, Cache, TablesApplied
  <2>4. CASE shadow[p] = <<b, p>>
    <3>1. LiveAt(<<b, p>>) = {p}
      BY <2>2, <2>3, <2>4 DEF LiveAt
    <3>. QED
      BY <2>1, <2>2, <2>4, <3>1 DEF Saved, Contents
  <2>5. CASE shadow[p] # <<b, p>>
    <3>1. LiveAt(<<b, p>>) = {}
      BY <2>3, <2>5 DEF LiveAt
    <3>. QED
      BY <2>1, <2>5, <3>1 DEF Saved, Contents
  <2>. QED
    BY <2>4, <2>5
<1>2. Spec => []SaveStateHoldsItsOwnAddresses
  BY <1>1, Invariance, PTL
<1>3. TypeOK /\ CardRomNeverDiverges /\ SaveStateHoldsItsOwnAddresses => PagesAgree
  BY DEF PagesAgree
<1>. QED
  BY <1>2, <1>3, TypeCorrect, CardRomAgreement, PTL

\* The image with its shadows, write targets and dirty bits implements plain
\* banked memory: the copying back and forth of mem_update_paging never shows.
THEOREM ImplementsBankedMemory == Spec => KeepsBankedMemory
<1>1. Init => Banked!Init
  <2>. SUFFICES ASSUME Init PROVE Banked!Init
    OBVIOUS
  <2>1. shadow = ShadowOf(ResetMode) /\ applied = ResetMode
    BY DEF Init
  <2>2. \A p \in Pages : shadow[p] \in Store /\ image[p] = store[shadow[p]]
    BY <2>1, ShadowTable DEF Init
  <2>3. ASSUME NEW s \in Store
        PROVE  Contents[s] = store[s]
    BY <2>1, <2>2, ContentsIsWhole, Lookup
  <2>4. Contents = Banked!PowerUp
    BY <2>3, SameMap DEF Init, Contents, Banked!PowerUp
  <2>5. image \in [Pages -> Value]
    BY InitIInv DEF IInv, Cache, Typed
  <2>6. image = [p \in Pages |-> Contents[Banked!ReadFrom(applied, p)]]
    BY <2>1, <2>5, ViewIsTheBanks, ContentsIsWhole
  <2>7. era = FALSE
    BY DEF Init
  <2>. QED
    BY <2>1, <2>4, <2>6, <2>7, SameMap DEF Banked!Init
<1>2. IInv /\ [Next]_vars => [Banked!Next]_Banked!vars
  BY Step DEF AsBanked
<1>. QED
  BY <1>1, <1>2, Invariance, PTL DEF Spec, KeepsBankedMemory, Banked!Spec

-----------------------------------------------------------------------------
(* The display: a copy of what was drawn last, and a screen that shows the     *)
(* copy wherever the refresh may leave it alone.                               *)

Kinds == {"text40", "text80", "lores", "dlores", "hires", "dhires"}

\* The bytes a part of a cell is drawn from, of memory and of the copy.
MemoryView(page2, cell, part) ==
  [textMain  |-> VideoByte("main", "text", page2, cell, 0),
   textAux   |-> VideoByte("aux", "text", page2, cell, 0),
   hiresMain |-> VideoByte("main", "hires", page2, cell, part),
   hiresAux  |-> VideoByte("aux", "hires", page2, cell, part),
   left      |-> Beside(cell, page2, "main", part, TRUE),
   right     |-> Beside(cell, page2, "main", part, FALSE),
   rightAux  |-> Beside(cell, page2, "aux", part, FALSE)]
CopyView(cell, part) ==
  [textMain  |-> Copied("low", 1, cell),
   textAux   |-> Copied("low", 0, cell),
   hiresMain |-> Copied("high", part, cell),
   hiresAux  |-> Copied("low", part, cell),
   left      |-> IF cell[1] > 0 THEN Copied("high", part, LeftOf(cell)) ELSE 0,
   right     |-> IF cell[1] < VideoColumns THEN Copied("high", part, RightOf(cell)) ELSE 0,
   rightAux  |-> IF cell[1] < VideoColumns THEN Copied("low", part, RightOf(cell)) ELSE 0]

Picture(kind, alt, state, part, view) ==
  LET glyph(ch) == <<"glyph", ch, alt, Flashing(alt, ch) /\ state>>
  IN  CASE kind = "text40" -> glyph(view.textMain)
        [] kind = "text80" -> glyph(IF part = 0 THEN view.textAux ELSE view.textMain)
        [] kind = "lores"  -> <<"lores", view.textMain>>
        [] kind = "dlores" -> <<"dlores", view.textAux, view.textMain>>
        [] kind = "hires"  -> <<"hires", High2(view.left), view.hiresMain, Low2(view.right)>>
        [] kind = "dhires" -> <<"dhires", High3(view.left), view.hiresAux % 128,
                                view.hiresMain % 128, Low3(view.rightAux)>>

\* Two views agree in what a kind of cell shows.
Agree(kind, part, v, w) ==
  /\ kind = "text40" => v.textMain = w.textMain
  /\ kind = "text80" => IF part = 0 THEN v.textAux = w.textAux ELSE v.textMain = w.textMain
  /\ kind = "lores" => v.textMain = w.textMain
  /\ kind = "dlores" => v.textAux = w.textAux /\ v.textMain = w.textMain
  /\ kind = "hires" =>
       v.hiresMain = w.hiresMain /\ High2(v.left) = High2(w.left) /\ Low2(v.right) = Low2(w.right)
  /\ kind = "dhires" =>
       /\ v.hiresMain = w.hiresMain /\ v.hiresAux = w.hiresAux
       /\ High3(v.left) = High3(w.left) /\ Low3(v.rightAux) = Low3(w.rightAux)

\* The flash as the screen has it: of the last turn, when it is still to be drawn.
ShownState == IF flash.flag THEN ~flash.state ELSE flash.state

CopyIsShown ==
  ~redrawfull =>
    \A cell \in Cells, part \in {0, 1} :
      \/ screen[<<cell, part>>] =
           Picture(CellKind(video_mode, cell[2]), alt_char_set, ShownState, part, CopyView(cell, part))
      \/ CopyLiesOver(cell)

DisplayInv ==
  /\ flash.state \in BOOLEAN /\ flash.flag \in BOOLEAN
  /\ displaypage2 = ("page2" \in video_mode)
  /\ CopyIsShown /\ ScreenShowsMemory

LEMMA KindsAre == ASSUME NEW flags, NEW row PROVE CellKind(flags, row) \in Kinds
BY DEF CellKind, Kinds

LEMMA DrawingIs ==
  ASSUME NEW kind \in Kinds, NEW alt, NEW page2, NEW cell, NEW part \in {0, 1}
  PROVE  Drawing(kind, alt, page2, cell, part) = Picture(kind, alt, flash.state, part, MemoryView(page2, cell, part))
<1>1. CASE kind = "text40"
  BY <1>1 DEF Drawing, Picture, MemoryView, Glyph
<1>2. CASE kind = "text80"
  BY <1>2 DEF Drawing, Picture, MemoryView, Glyph
<1>3. CASE kind = "lores"
  BY <1>3 DEF Drawing, Picture, MemoryView
<1>4. CASE kind = "dlores"
  BY <1>4 DEF Drawing, Picture, MemoryView
<1>5. CASE kind = "hires"
  BY <1>5 DEF Drawing, Picture, MemoryView
<1>6. CASE kind = "dhires"
  BY <1>6 DEF Drawing, Picture, MemoryView
<1>. QED BY <1>1, <1>2, <1>3, <1>4, <1>5, <1>6 DEF Kinds

LEMMA DrawingIsNext ==
  ASSUME NEW kind \in Kinds, NEW alt, NEW page2, NEW cell, NEW part \in {0, 1}
  PROVE  Drawing(kind, alt, page2, cell, part)' =
           Picture(kind, alt, flash'.state, part, MemoryView(page2, cell, part)')
<1>1. CASE kind = "text40"
  BY <1>1 DEF Drawing, Picture, MemoryView, Glyph
<1>2. CASE kind = "text80"
  BY <1>2 DEF Drawing, Picture, MemoryView, Glyph
<1>3. CASE kind = "lores"
  BY <1>3 DEF Drawing, Picture, MemoryView
<1>4. CASE kind = "dlores"
  BY <1>4 DEF Drawing, Picture, MemoryView
<1>5. CASE kind = "hires"
  BY <1>5 DEF Drawing, Picture, MemoryView
<1>6. CASE kind = "dhires"
  BY <1>6 DEF Drawing, Picture, MemoryView
<1>. QED BY <1>1, <1>2, <1>3, <1>4, <1>5, <1>6 DEF Kinds

LEMMA SamePicture ==
  ASSUME NEW kind \in Kinds, NEW alt, NEW state, NEW part \in {0, 1}, NEW v, NEW w, Agree(kind, part, v, w)
  PROVE  Picture(kind, alt, state, part, v) = Picture(kind, alt, state, part, w)
<1>1. CASE kind = "text40"
  BY <1>1 DEF Agree, Picture
<1>2. CASE kind = "text80"
  BY <1>2 DEF Agree, Picture
<1>3. CASE kind = "lores"
  BY <1>3 DEF Agree, Picture
<1>4. CASE kind = "dlores"
  BY <1>4 DEF Agree, Picture
<1>5. CASE kind = "hires"
  BY <1>5 DEF Agree, Picture
<1>6. CASE kind = "dhires"
  BY <1>6 DEF Agree, Picture
<1>. QED BY <1>1, <1>2, <1>3, <1>4, <1>5, <1>6 DEF Kinds

LEMMA Sides ==
  ASSUME NEW cell \in Cells, NEW page2, NEW bank, NEW line
  PROVE  /\ cell[1] \in 0 .. VideoColumns
         /\ Beside(cell, page2, bank, line, TRUE) =
              IF cell[1] > 0 THEN VideoByte(bank, "hires", page2, LeftOf(cell), line) ELSE 0
         /\ Beside(cell, page2, bank, line, FALSE) =
              IF cell[1] < VideoColumns THEN VideoByte(bank, "hires", page2, RightOf(cell), line) ELSE 0
         /\ cell[1] > 0 => LeftOf(cell) \in Cells
         /\ cell[1] < VideoColumns => RightOf(cell) \in Cells
<1>1. PICK x \in 0 .. VideoColumns, row \in {"upper", "lower"} : cell = <<x, row>>
  BY DEF Cells
<1>2. cell[1] = x /\ cell[2] = row /\ VideoColumns \in Nat
  BY <1>1, DisplayAssumption
<1>3. x > 0 => <<x - 1, row>> \in Cells
  BY <1>2 DEF Cells
<1>4. x < VideoColumns => <<x + 1, row>> \in Cells
  BY <1>2 DEF Cells
<1>5. Beside(cell, page2, bank, line, TRUE) =
              IF cell[1] > 0 THEN VideoByte(bank, "hires", page2, LeftOf(cell), line) ELSE 0
  BY DEF Beside
<1>6. Beside(cell, page2, bank, line, FALSE) =
              IF cell[1] < VideoColumns THEN VideoByte(bank, "hires", page2, RightOf(cell), line) ELSE 0
  BY DEF Beside
<1>. QED BY <1>2, <1>3, <1>4, <1>5, <1>6 DEF LeftOf, RightOf

\* What the refresh leaves alone is drawn from the same bytes.
LEMMA UnchangedAgrees ==
  ASSUME NEW kind \in Kinds, NEW page2, NEW cell \in Cells, NEW part \in {0, 1}, ~ Changed(kind, page2, cell, part)
  PROVE  Agree(kind, part, CopyView(cell, part), MemoryView(page2, cell, part))
<1>0. /\ Beside(cell, page2, "main", part, TRUE) =
           IF cell[1] > 0 THEN VideoByte("main", "hires", page2, LeftOf(cell), part) ELSE 0
      /\ \A bank : Beside(cell, page2, bank, part, FALSE) =
           IF cell[1] < VideoColumns THEN VideoByte(bank, "hires", page2, RightOf(cell), part) ELSE 0
  BY Sides
<1>1. CASE kind = "text40"
  BY <1>1 DEF Agree, CopyView, MemoryView, Changed
<1>2. CASE kind = "text80"
  BY <1>2 DEF Agree, CopyView, MemoryView, Changed
<1>3. CASE kind = "lores"
  BY <1>3 DEF Agree, CopyView, MemoryView, Changed
<1>4. CASE kind = "dlores"
  BY <1>4 DEF Agree, CopyView, MemoryView, Changed
<1>5. CASE kind = "hires"
  BY <1>0, <1>5 DEF Agree, CopyView, MemoryView, Changed, CopyDiffers
<1>6. CASE kind = "dhires"
  BY <1>0, <1>6 DEF Agree, CopyView, MemoryView, Changed, CopyDiffers
<1>. QED BY <1>1, <1>2, <1>3, <1>4, <1>5, <1>6 DEF Kinds

LEMMA TextIs ==
  ASSUME NEW flags, NEW row
  PROVE  /\ CellKind(flags, row) \in {"text80", "dlores", "dhires"} => "80col" \in flags
         /\ CellKind(flags, row) \in {"hires", "dhires"} => "hires" \in flags
         /\ CellKind(flags, row) = "dhires" => "dhires" \in flags
         /\ CellKind(flags, row) \in {"dlores", "lores"} => "hires" \notin flags
         /\ CellKind(flags, row) \in {"text40", "text80"} => {"text", "mixed"} \cap flags # {}
BY DEF CellKind

\* The copy once it is taken, where no other page lies over it.
LEMMA LastDrawnAgrees ==
  ASSUME NEW flags, NEW page2, vidlastmem' = LastDrawn(flags, page2), NEW cell \in Cells, NEW part \in {0, 1},
         NEW kind, kind = CellKind(flags, cell[2]),
         ~ ({"dhires", "hires"} \subseteq flags /\ kind \in {"text40", "text80"})
  PROVE  Agree(kind, part, CopyView(cell, part)', MemoryView(page2, cell, part))
<1>0. /\ Beside(cell, page2, "main", part, TRUE) =
           IF cell[1] > 0 THEN VideoByte("main", "hires", page2, LeftOf(cell), part) ELSE 0
      /\ \A bank : Beside(cell, page2, bank, part, FALSE) =
           IF cell[1] < VideoColumns THEN VideoByte(bank, "hires", page2, RightOf(cell), part) ELSE 0
      /\ cell[1] > 0 => LeftOf(cell) \in Cells
      /\ cell[1] < VideoColumns => RightOf(cell) \in Cells
  BY Sides
<1>1. \A c \in Cells, line \in {0, 1} :
        /\ "hires" \in flags => vidlastmem'[<<"high", line, c>>] = VideoByte("main", "hires", page2, c, line)
        /\ {"dhires", "hires"} \subseteq flags =>
             vidlastmem'[<<"low", line, c>>] = VideoByte("aux", "hires", page2, c, line)
  <2>. SUFFICES ASSUME NEW c \in Cells, NEW line \in {0, 1}
                PROVE  /\ "hires" \in flags => vidlastmem'[<<"high", line, c>>] = VideoByte("main", "hires", page2, c, line)
                       /\ {"dhires", "hires"} \subseteq flags =>
                            vidlastmem'[<<"low", line, c>>] = VideoByte("aux", "hires", page2, c, line)
    OBVIOUS
  <2>1. <<"high", line, c>> \in {"low", "high"} \X {0, 1} \X Cells /\ <<"low", line, c>> \in {"low", "high"} \X {0, 1} \X Cells
    OBVIOUS
  <2>2. "hires" \in flags => vidlastmem'[<<"high", line, c>>] = VideoByte("main", "hires", page2, c, line)
    BY <2>1 DEF LastDrawn
  <2>3. {"dhires", "hires"} \subseteq flags =>
          vidlastmem'[<<"low", line, c>>] = VideoByte("aux", "hires", page2, c, line)
    BY <2>1 DEF LastDrawn
  <2>. QED BY <2>2, <2>3
<1>2. ~ ({"dhires", "hires"} \subseteq flags) =>
        /\ vidlastmem'[<<"low", 1, cell>>] = VideoByte("main", "text", page2, cell, 0)
        /\ "80col" \in flags => vidlastmem'[<<"low", 0, cell>>] = VideoByte("aux", "text", page2, cell, 0)
  <2>. SUFFICES ASSUME ~ ({"dhires", "hires"} \subseteq flags)
                PROVE  /\ vidlastmem'[<<"low", 1, cell>>] = VideoByte("main", "text", page2, cell, 0)
                       /\ "80col" \in flags => vidlastmem'[<<"low", 0, cell>>] = VideoByte("aux", "text", page2, cell, 0)
    OBVIOUS
  <2>1. <<"low", 0, cell>> \in {"low", "high"} \X {0, 1} \X Cells /\ <<"low", 1, cell>> \in {"low", "high"} \X {0, 1} \X Cells
    OBVIOUS
  <2>2. vidlastmem'[<<"low", 1, cell>>] = VideoByte("main", "text", page2, cell, 0)
    BY <2>1 DEF LastDrawn
  <2>3. "80col" \in flags => vidlastmem'[<<"low", 0, cell>>] = VideoByte("aux", "text", page2, cell, 0)
    BY <2>1 DEF LastDrawn
  <2>. QED BY <2>2, <2>3
<1>3. kind \in Kinds
  BY KindsAre
<1>4. CASE kind \in {"text40", "text80"}
  <2>1. kind = "text80" => "80col" \in flags
    BY TextIs
  <2>. QED BY <1>2, <1>4, <2>1 DEF Agree, CopyView, MemoryView, Copied
<1>5. CASE kind \in {"lores", "dlores"}
  <2>1. "hires" \notin flags /\ (kind = "dlores" => "80col" \in flags)
    BY <1>5, TextIs
  <2>. QED BY <1>2, <1>5, <2>1 DEF Agree, CopyView, MemoryView, Copied
<1>6. CASE kind = "hires"
  <2>1. "hires" \in flags
    BY <1>6, TextIs
  <2>. QED BY <1>0, <1>1, <1>6, <2>1 DEF Agree, CopyView, MemoryView, Copied
<1>7. CASE kind = "dhires"
  <2>1. {"dhires", "hires"} \subseteq flags
    BY <1>7, TextIs
  <2>. QED BY <1>0, <1>1, <1>7, <2>1 DEF Agree, CopyView, MemoryView, Copied
<1>. QED BY <1>3, <1>4, <1>5, <1>6, <1>7 DEF Kinds

\* Everything drawn, and the copy taken.
LEMMA AllDrawn ==
  ASSUME DisplayInv, NEW flags, NEW alt, NEW page2, page2 = ("page2" \in flags),
         video_mode' = flags, alt_char_set' = alt, displaypage2' = page2,
         screen' = RefreshAll(flags, alt, page2), vidlastmem' = LastDrawn(flags, page2),
         flash' = Settled, videoMemory' = videoMemory
  PROVE  DisplayInv'
<1>1. /\ flash.state \in BOOLEAN /\ flash.flag \in BOOLEAN /\ flash'.state = flash.state /\ flash'.flag = FALSE
  BY DEF DisplayInv, Settled
<1>2. ASSUME NEW cell \in Cells, NEW part \in {0, 1}
      PROVE  screen'[<<cell, part>>] = Drawing(CellKind(flags, cell[2]), alt, page2, cell, part)
  BY DEF RefreshAll
<1>. SUFFICES ASSUME NEW cell \in Cells, NEW part \in {0, 1}
              PROVE  /\ screen'[<<cell, part>>] = Drawing(CellKind(flags, cell[2]), alt, page2, cell, part)'
                     /\ \/ screen'[<<cell, part>>] =
                             Picture(CellKind(flags, cell[2]), alt, ShownState', part, CopyView(cell, part)')
                        \/ CopyLiesOver(cell)'
  BY <1>1 DEF DisplayInv, CopyIsShown, ScreenShowsMemory
<1>3. PICK kind \in Kinds : kind = CellKind(flags, cell[2])
  BY KindsAre
<1>4. screen'[<<cell, part>>] = Picture(kind, alt, flash.state, part, MemoryView(page2, cell, part))
  <2>1. Drawing(kind, alt, page2, cell, part) = Picture(kind, alt, flash.state, part, MemoryView(page2, cell, part))
    BY DrawingIs
  <2>2. screen'[<<cell, part>>] = Drawing(kind, alt, page2, cell, part)
    BY <1>2, <1>3
  <2>. QED BY <2>1, <2>2
<1>5. MemoryView(page2, cell, part)' = MemoryView(page2, cell, part)
  BY DEF MemoryView, VideoByte, Beside
<1>6. Drawing(kind, alt, page2, cell, part)' = Picture(kind, alt, flash'.state, part, MemoryView(page2, cell, part)')
  BY DrawingIsNext
<1>7. CASE {"dhires", "hires"} \subseteq flags /\ kind \in {"text40", "text80"}
  BY <1>1, <1>3, <1>4, <1>5, <1>6, <1>7 DEF CopyLiesOver
<1>8. CASE ~ ({"dhires", "hires"} \subseteq flags /\ kind \in {"text40", "text80"})
  <2>1. Agree(kind, part, CopyView(cell, part)', MemoryView(page2, cell, part))
    BY <1>3, <1>8, LastDrawnAgrees
  <2>2. Picture(kind, alt, flash.state, part, CopyView(cell, part)') =
          Picture(kind, alt, flash.state, part, MemoryView(page2, cell, part))
    BY <2>1, SamePicture
  <2>3. ShownState' = flash.state
    BY <1>1 DEF ShownState
  <2>. QED BY <1>1, <1>3, <1>4, <1>5, <1>6, <2>2, <2>3
<1>. QED BY <1>7, <1>8

\* A frame draws what changed and what flashed.
LEMMA FrameKeeps == ASSUME DisplayInv, video_update_vbl PROVE DisplayInv'
<1>1. /\ flash.state \in BOOLEAN /\ flash.flag \in BOOLEAN
      /\ flash'.state \in BOOLEAN /\ flash'.flag \in BOOLEAN
      /\ flash'.flag => flash'.state = ~ flash.state /\ {"text", "mixed"} \cap video_mode # {}
      /\ ~ flash'.flag => flash'.state = flash.state \/ {"text", "mixed"} \cap video_mode = {}
  BY DEF DisplayInv, video_update_vbl, TurnedFlash
<1>2. /\ video_mode' = video_mode /\ alt_char_set' = alt_char_set /\ displaypage2' = displaypage2
      /\ videoMemory' = videoMemory /\ vidlastmem' = LastDrawn(video_mode, displaypage2)
      /\ screen' = IF redrawfull THEN RefreshAll(video_mode, alt_char_set, displaypage2) ELSE RefreshChanged
      /\ drawn' = (flash.state = flash'.state)
  BY DEF video_update_vbl, Refresh
<1>. SUFFICES ASSUME NEW cell \in Cells, NEW part \in {0, 1}
              PROVE  LET kind == CellKind(video_mode, cell[2])
                     IN  \/ CopyLiesOver(cell)'
                         \/ /\ drawn' => screen'[<<cell, part>>] = Drawing(kind, alt_char_set, displaypage2, cell, part)'
                            /\ screen'[<<cell, part>>] =
                                 Picture(kind, alt_char_set, ShownState', part, CopyView(cell, part)')
  BY <1>1, <1>2 DEF DisplayInv, CopyIsShown, ScreenShowsMemory
<1>3. PICK kind \in Kinds : kind = CellKind(video_mode, cell[2])
  BY KindsAre
<1>. SUFFICES ASSUME ~ ({"dhires", "hires"} \subseteq video_mode /\ kind \in {"text40", "text80"})
              PROVE  /\ drawn' => screen'[<<cell, part>>] = Drawing(kind, alt_char_set, displaypage2, cell, part)'
                     /\ screen'[<<cell, part>>] =
                          Picture(kind, alt_char_set, ShownState', part, CopyView(cell, part)')
  BY <1>2, <1>3 DEF CopyLiesOver
<1>4. PICK view : view = MemoryView(displaypage2, cell, part)
  OBVIOUS
<1>5. Drawing(kind, alt_char_set, displaypage2, cell, part) = Picture(kind, alt_char_set, flash.state, part, view)
  BY <1>4, DrawingIs
<1>6. screen'[<<cell, part>>] = Picture(kind, alt_char_set, flash.state, part, view)
  <2>1. CASE redrawfull
    <3>1. screen'[<<cell, part>>] = Drawing(kind, alt_char_set, displaypage2, cell, part)
      BY <1>2, <1>3, <2>1 DEF RefreshAll
    <3>. QED BY <1>5, <3>1
  <2>2. CASE ~ redrawfull /\ (Changed(kind, displaypage2, cell, part) \/ Turned(kind, displaypage2, cell, part))
    <3>1. screen'[<<cell, part>>] = Drawing(kind, alt_char_set, displaypage2, cell, part)
      BY <1>2, <1>3, <2>2 DEF RefreshChanged
    <3>. QED BY <1>5, <3>1
  <2>3. CASE ~ redrawfull /\ ~ Changed(kind, displaypage2, cell, part) /\ ~ Turned(kind, displaypage2, cell, part)
    <3>1. screen'[<<cell, part>>] = screen[<<cell, part>>]
      BY <1>2, <1>3, <2>3 DEF RefreshChanged
    <3>2. screen[<<cell, part>>] = Picture(kind, alt_char_set, ShownState, part, CopyView(cell, part))
      BY <1>3, <2>3 DEF DisplayInv, CopyIsShown, CopyLiesOver
    <3>3. Agree(kind, part, CopyView(cell, part), view)
      BY <1>4, <2>3, UnchangedAgrees
    <3>4. screen[<<cell, part>>] = Picture(kind, alt_char_set, ShownState, part, view)
      BY <3>2, <3>3, SamePicture
    <3>5. Picture(kind, alt_char_set, ShownState, part, view) = Picture(kind, alt_char_set, flash.state, part, view)
      <4>1. CASE ~ flash.flag
        BY <4>1 DEF ShownState
      <4>2. CASE kind \notin {"text40", "text80"}
        BY <4>2 DEF Picture, Kinds
      <4>3. CASE flash.flag /\ kind = "text40"
        <5>1. ~ Flashing(alt_char_set, view.textMain)
          BY <1>4, <2>3, <4>3 DEF Turned, MemoryView
        <5>. QED BY <4>3, <5>1 DEF Picture
      <4>4. CASE flash.flag /\ kind = "text80"
        <5>1. ~ Flashing(alt_char_set, IF part = 0 THEN view.textAux ELSE view.textMain)
          BY <1>4, <2>3, <4>4 DEF Turned, MemoryView
        <5>. QED BY <4>4, <5>1 DEF Picture
      <4>. QED BY <1>1, <4>1, <4>2, <4>3, <4>4
    <3>. QED BY <3>1, <3>4, <3>5
  <2>. QED BY <2>1, <2>2, <2>3
<1>7. MemoryView(displaypage2, cell, part)' = view
  BY <1>2, <1>4 DEF MemoryView, VideoByte, Beside
<1>8. ASSUME drawn'
      PROVE  screen'[<<cell, part>>] = Drawing(kind, alt_char_set, displaypage2, cell, part)'
  <2>1. Drawing(kind, alt_char_set, displaypage2, cell, part)' =
          Picture(kind, alt_char_set', flash'.state, part, MemoryView(displaypage2, cell, part)')
    BY DrawingIsNext
  <2>2. flash'.state = flash.state
    BY <1>2, <1>8
  <2>. QED BY <1>2, <1>6, <1>7, <2>1, <2>2
<1>9. screen'[<<cell, part>>] = Picture(kind, alt_char_set, ShownState', part, CopyView(cell, part)')
  <2>1. Agree(kind, part, CopyView(cell, part)', view)
    BY <1>2, <1>3, <1>4, LastDrawnAgrees
  <2>2. Picture(kind, alt_char_set, ShownState', part, CopyView(cell, part)') =
          Picture(kind, alt_char_set, ShownState', part, view)
    BY <2>1, SamePicture
  <2>3. Picture(kind, alt_char_set, ShownState', part, view) = Picture(kind, alt_char_set, flash.state, part, view)
    <3>1. CASE kind \in {"text40", "text80"}
      <4>1. {"text", "mixed"} \cap video_mode # {}
        BY <1>3, <3>1, TextIs
      <4>2. ShownState' = flash.state
        BY <1>1, <4>1 DEF ShownState
      <4>. QED BY <4>2
    <3>2. CASE kind \notin {"text40", "text80"}
      BY <3>2 DEF Picture, Kinds
    <3>. QED BY <3>1, <3>2
  <2>. QED BY <1>6, <2>2, <2>3
<1>. QED BY <1>8, <1>9

\* Switches that change nothing of the picture: 80STORE, and PAGE2 under it.
LEMMA SameCells ==
  ASSUME NEW m, NEW n, m \ {"mask2", "page2"} = n \ {"mask2", "page2"}, NEW row
  PROVE  /\ CellKind(m, row) = CellKind(n, row)
         /\ {"dhires", "hires"} \subseteq m <=> {"dhires", "hires"} \subseteq n
<1>1. \A flag \in {"text", "mixed", "hires", "dhires", "80col"} : flag \in m <=> flag \in n
  <2>. SUFFICES ASSUME NEW flag \in {"text", "mixed", "hires", "dhires", "80col"} PROVE flag \in m <=> flag \in n
    OBVIOUS
  <2>1. flag \in m <=> flag \in m \ {"mask2", "page2"}
    OBVIOUS
  <2>2. flag \in n <=> flag \in n \ {"mask2", "page2"}
    OBVIOUS
  <2>. QED BY <2>1, <2>2
<1>. QED BY <1>1 DEF CellKind

\* Nothing of the screen or of its copy changes, nor the picture the switches choose.
LEMMA ScreenStays ==
  ASSUME DisplayInv, UNCHANGED <<alt_char_set, redrawfull, vidlastmem, screen, flash>>,
         NEW m, m = video_mode', \A row : CellKind(m, row) = CellKind(video_mode, row),
         {"dhires", "hires"} \subseteq m <=> {"dhires", "hires"} \subseteq video_mode
  PROVE  /\ CopyIsShown'
         /\ UNCHANGED <<displaypage2, videoMemory, drawn>> => ScreenShowsMemory'
<1>1. \A cell, part : CopyView(cell, part)' = CopyView(cell, part)
  BY DEF CopyView, Copied
<1>2. ShownState' = ShownState
  BY DEF ShownState
<1>3. \A cell : CopyLiesOver(cell) => CopyLiesOver(cell)'
  BY DEF CopyLiesOver
<1>4. CopyIsShown'
  <2>. SUFFICES ASSUME ~ redrawfull', NEW cell \in Cells, NEW part \in {0, 1}
                PROVE  \/ screen'[<<cell, part>>] =
                            Picture(CellKind(m, cell[2]), alt_char_set', ShownState', part, CopyView(cell, part)')
                       \/ CopyLiesOver(cell)'
    BY DEF CopyIsShown
  <2>1. \/ screen[<<cell, part>>] =
              Picture(CellKind(video_mode, cell[2]), alt_char_set, ShownState, part, CopyView(cell, part))
        \/ CopyLiesOver(cell)
    BY DEF DisplayInv, CopyIsShown
  <2>2. CellKind(m, cell[2]) = CellKind(video_mode, cell[2]) /\ screen' = screen /\ alt_char_set' = alt_char_set
    OBVIOUS
  <2>. QED BY <1>1, <1>2, <1>3, <2>1, <2>2
<1>5. ASSUME UNCHANGED <<displaypage2, videoMemory, drawn>> PROVE ScreenShowsMemory'
  <2>1. \A kind, cell, part :
          Drawing(kind, alt_char_set, displaypage2, cell, part)' = Drawing(kind, alt_char_set, displaypage2, cell, part)
    BY <1>5 DEF Drawing, Glyph, VideoByte, Beside
  <2>. SUFFICES ASSUME drawn', NEW cell \in Cells, NEW part \in {0, 1}
                PROVE  \/ screen'[<<cell, part>>] = Drawing(CellKind(m, cell[2]), alt_char_set, displaypage2, cell, part)'
                       \/ CopyLiesOver(cell)'
    BY <1>5 DEF ScreenShowsMemory
  <2>2. PICK kind : kind = CellKind(video_mode, cell[2])
    OBVIOUS
  <2>3. \/ screen[<<cell, part>>] = Drawing(kind, alt_char_set, displaypage2, cell, part)
        \/ CopyLiesOver(cell)
    BY <1>5, <2>2 DEF DisplayInv, ScreenShowsMemory
  <2>4. CellKind(m, cell[2]) = kind /\ screen' = screen
    BY <2>2
  <2>. QED BY <1>3, <2>1, <2>3, <2>4
<1>. QED BY <1>4, <1>5

LEMMA SwitchKeeps == ASSUME DisplayInv, NEW flags, NEW alt, SetMode(flags, alt) PROVE DisplayInv'
<1>1. CASE Redraws(flags, alt) /\ screen' = RefreshAll(flags, alt, "page2" \in flags)
  BY <1>1, AllDrawn DEF SetMode
<1>2. CASE ~ Redraws(flags, alt)
  <2>1. /\ video_mode \ {"mask2", "page2"} = flags \ {"mask2", "page2"} /\ alt = alt_char_set
        /\ displaypage2 = ("page2" \in flags)
    BY <1>2 DEF Redraws
  <2>2. /\ video_mode' = flags /\ alt_char_set' = alt_char_set /\ displaypage2' = displaypage2
        /\ screen' = screen /\ vidlastmem' = vidlastmem /\ redrawfull' = redrawfull /\ flash' = flash
        /\ drawn' = drawn /\ videoMemory' = videoMemory /\ displaypage2' = ("page2" \in video_mode')
    BY <1>2, <2>1 DEF SetMode
  <2>3. \A row : CellKind(flags, row) = CellKind(video_mode, row)
    BY <2>1, SameCells
  <2>4. ({"dhires", "hires"} \subseteq flags) = ({"dhires", "hires"} \subseteq video_mode)
    BY <2>1, SameCells
  <2>5. CopyIsShown' /\ ScreenShowsMemory'
    BY <2>2, <2>3, <2>4, ScreenStays
  <2>. QED BY <2>2, <2>5 DEF DisplayInv
<1>. QED BY <1>1, <1>2 DEF SetMode

LEMMA DisplaySame ==
  ASSUME DisplayInv,
         UNCHANGED <<video_mode, alt_char_set, displaypage2, redrawfull, vidlastmem, videoMemory, screen, flash, drawn>>
  PROVE  DisplayInv'
<1>1. \A row : CellKind(video_mode', row) = CellKind(video_mode, row)
  OBVIOUS
<1>2. CopyIsShown' /\ ScreenShowsMemory'
  BY <1>1, ScreenStays
<1>. QED BY <1>2 DEF DisplayInv

\* What the refresh leaves alone is what its copy shows, at every step (video_perform_refresh,
\* set_last_drawn_image, video_set_mode, video_update_flash).
THEOREM DisplayIsInductive == DisplaySpec => []DisplayInv
<1>1. DisplayInit => DisplayInv
  BY DEF DisplayInit, DisplayInv, CopyIsShown, ScreenShowsMemory
<1>2. DisplayInv /\ [DisplayNext]_displayVars => DisplayInv'
  <2>. SUFFICES ASSUME DisplayInv, [DisplayNext]_displayVars PROVE DisplayInv'
    OBVIOUS
  <2>1. CASE WriteDisplay
    <3>1. /\ UNCHANGED <<video_mode, alt_char_set, displaypage2, redrawfull, vidlastmem, screen, flash>>
          /\ drawn' = FALSE
      BY <2>1 DEF WriteDisplay
    <3>2. CopyIsShown'
      <4>1. \A row : CellKind(video_mode', row) = CellKind(video_mode, row)
        BY <3>1
      <4>. QED BY <3>1, <4>1, ScreenStays
    <3>. QED BY <3>1, <3>2 DEF DisplayInv, ScreenShowsMemory
  <2>2. CASE video_set_mode
    BY <2>2, SwitchKeeps DEF video_set_mode
  <2>3. CASE video_update_vbl
    BY <2>3, FrameKeeps
  <2>4. CASE video_redraw_screen
    BY <2>4, AllDrawn DEF video_redraw_screen, DisplayInv
  <2>5. ASSUME NEW flags, NEW alt, video_set_snapshot(flags, alt) PROVE DisplayInv'
    BY <2>5 DEF video_set_snapshot, DisplayInv, CopyIsShown, ScreenShowsMemory
  <2>6. CASE UNCHANGED displayVars
    BY <2>6, DisplaySame DEF displayVars
  <2>. QED BY <2>1, <2>2, <2>3, <2>4, <2>5, <2>6 DEF DisplayNext
<1>. QED BY <1>1, <1>2, PTL DEF DisplaySpec

(* The scanner *)

LEMMA ThirdOfLine ==
  ASSUME NEW y \in 0 .. 191
  PROVE  BitOf(256 + y, 64) + 2 * BitOf(256 + y, 128) = y \div 64
BY DEF BitOf

LEMMA SumBitsIs ==
  ASSUME NEW x \in 0 .. 39, NEW v \in Nat, NEW b \in 0 .. 2,
         BitOf(v, 64) \in {0, 1}, BitOf(v, 128) \in {0, 1}, BitOf(v, 64) + 2 * BitOf(v, 128) = b
  PROVE  ((24 + x) % 8) + (((SumBits(24 + x, v) \div 8) % 16) * 8) = 40 * b + x
<1>1. PICK h \in 24 .. 63 : h = 24 + x
  OBVIOUS
<1>2. PICK g \in 3 .. 7 : g = h \div 8
  OBVIOUS
<1>3. h = 8 * g + (h % 8) /\ h % 8 \in 0 .. 7
  BY <1>2
<1>4. SumBits(h, v) = 104 + 8 * g + 40 * b
  <2>1. g % 8 = g
    OBVIOUS
  <2>. QED BY <1>2, <2>1 DEF SumBits
<1>5. (104 + 8 * g + 40 * b) \div 8 = 13 + g + 5 * b
  OBVIOUS
<1>6. (13 + g + 5 * b) % 16 = (g - 3) + 5 * b
  OBVIOUS
<1>7. (h % 8) + ((g - 3) + 5 * b) * 8 = 40 * b + x
  BY <1>1, <1>3
<1>. QED BY <1>1, <1>4, <1>5, <1>6, <1>7

LEMMA BeamReadsCell ==
  ASSUME NEW flags, ~ {"mask2", "page2"} \subseteq flags, NEW apple2, NEW ntsc, NEW cycle \in Nat,
         cycle \div HClocks \in 0 .. 191, (cycle + HPeClock) % HClocks \in 0 .. 39
  PROVE  video_get_scanner_address(flags, apple2, ntsc, cycle)
           = BeamReads(flags, cycle \div HClocks, (cycle + HPeClock) % HClocks)
<1>a. PICK y \in 0 .. 191 : y = cycle \div HClocks
  OBVIOUS
<1>b. PICK x \in 0 .. 39 : x = (cycle + HPeClock) % HClocks
  OBVIOUS
<1>1. /\ HState(cycle) = 24 + x /\ VState(ntsc, cycle) = 256 + y
      /\ ~ ((cycle + HPeClock) % HClocks >= HPeClock)
  <2>1. HState(cycle) = 24 + x
    BY <1>b DEF HState, HPeClock
  <2>2. VState(ntsc, cycle) = 256 + y
    BY <1>a DEF VState
  <2>3. ~ ((cycle + HPeClock) % HClocks >= HPeClock)
    BY <1>b DEF HPeClock
  <2>. QED BY <2>1, <2>2, <2>3
<1>2. PICK v \in Nat : v = 256 + y
  OBVIOUS
<1>3. PICK b \in 0 .. 2 : b = y \div 64
  OBVIOUS
<1>4. /\ BitOf(v, 64) + 2 * BitOf(v, 128) = b /\ BitOf(v, 128) \in {0, 1} /\ BitOf(v, 64) \in {0, 1}
      /\ (BitOf(v, 128) = 1 /\ BitOf(v, 32) = 1) <=> y >= 160
      /\ (v \div 8) % 8 = (y \div 8) % 8 /\ v % 8 = y % 8
  <2>1. BitOf(v, 64) + 2 * BitOf(v, 128) = b
    <3>1. BitOf(256 + y, 64) + 2 * BitOf(256 + y, 128) = y \div 64
      BY ThirdOfLine
    <3>. QED BY <1>2, <1>3, <3>1
  <2>2. BitOf(v, 128) \in {0, 1} /\ BitOf(v, 64) \in {0, 1}
    BY DEF BitOf
  <2>3. (BitOf(v, 128) = 1 /\ BitOf(v, 32) = 1) <=> y >= 160
    BY <1>2 DEF BitOf
  <2>4. (v \div 8) % 8 = (y \div 8) % 8 /\ v % 8 = y % 8
    BY <1>2
  <2>. QED BY <2>1, <2>2, <2>3, <2>4
<1>5. ((24 + x) % 8) + (((SumBits(24 + x, v) \div 8) % 16) * 8) = 40 * b + x
  BY <1>4, SumBitsIs
<1>6. TextOffset(y \div 8, x) = 128 * ((y \div 8) % 8) + 40 * b + x
  <2>1. (y \div 8) \div 8 = y \div 64
    OBVIOUS
  <2>. QED BY <1>3, <2>1 DEF TextOffset
<1>7. y \div 8 >= 20 <=> y >= 160
  OBVIOUS
<1>8. (CellKind(flags, IF y \div 8 >= 20 THEN "lower" ELSE "upper") \in {"hires", "dhires"})
        <=> "hires" \in flags /\ ~ ("text" \in flags) /\ ~ ("mixed" \in flags /\ y >= 160)
  BY <1>7 DEF CellKind
<1>9. ("page2" \in flags /\ ~ ("mask2" \in flags)) <=> "page2" \in flags
  OBVIOUS
<1>10. PICK m \in Nat : m = 40 * b + x
  OBVIOUS
<1>11. PICK r \in Nat : r = 128 * ((y \div 8) % 8)
  OBVIOUS
<1>12. ((24 + x) % 8) + (((SumBits(24 + x, v) \div 8) % 16) * 8) + 128 * ((v \div 8) % 8) = m + r
  BY <1>4, <1>5, <1>10, <1>11
<1>13. PICK z \in Nat : z = 1024 * (y % 8)
  OBVIOUS
<1>14. 1024 * (v % 8) = z
  BY <1>4, <1>13
<1>15. video_get_scanner_address(flags, apple2, ntsc, cycle) =
         ((24 + x) % 8) + (((SumBits(24 + x, v) \div 8) % 16) * 8) + 128 * ((v \div 8) % 8)
         + (IF "hires" \in flags /\ ~ ("text" \in flags)
               /\ ~ ("mixed" \in flags /\ BitOf(v, 128) = 1 /\ BitOf(v, 32) = 1)
            THEN 1024 * (v % 8) + (IF "page2" \in flags /\ ~ ("mask2" \in flags) THEN 16384 ELSE 8192)
            ELSE (IF "page2" \in flags /\ ~ ("mask2" \in flags) THEN 2048 ELSE 1024)
                 + (IF apple2 /\ (cycle + HPeClock) % HClocks >= HPeClock THEN 4096 ELSE 0))
  <2>. DEFINE Address(h, w) ==
         (h % 8) + (((SumBits(h, w) \div 8) % 16) * 8) + 128 * ((w \div 8) % 8)
         + (IF "hires" \in flags /\ ~ ("text" \in flags)
               /\ ~ ("mixed" \in flags /\ BitOf(w, 128) = 1 /\ BitOf(w, 32) = 1)
            THEN 1024 * (w % 8) + (IF "page2" \in flags /\ ~ ("mask2" \in flags) THEN 16384 ELSE 8192)
            ELSE (IF "page2" \in flags /\ ~ ("mask2" \in flags) THEN 2048 ELSE 1024)
                 + (IF apple2 /\ (cycle + HPeClock) % HClocks >= HPeClock THEN 4096 ELSE 0))
  <2>1. video_get_scanner_address(flags, apple2, ntsc, cycle) = Address(HState(cycle), VState(ntsc, cycle))
    BY DEF video_get_scanner_address
  <2>2. HState(cycle) = 24 + x /\ VState(ntsc, cycle) = v
    BY <1>1, <1>2
  <2>3. video_get_scanner_address(flags, apple2, ntsc, cycle) = Address(24 + x, v)
    <3>. HIDE DEF Address
    <3>. QED BY <2>1, <2>2
  <2>. QED BY <2>3
<1>16. BeamReads(flags, y, x) =
         m + r + (IF CellKind(flags, IF y \div 8 >= 20 THEN "lower" ELSE "upper") \in {"hires", "dhires"}
                  THEN (IF "page2" \in flags THEN 16384 ELSE 8192) + z
                  ELSE IF "page2" \in flags THEN 2048 ELSE 1024)
  BY <1>6, <1>10, <1>11, <1>13 DEF BeamReads
<1>. DEFINE Within == ((24 + x) % 8) + (((SumBits(24 + x, v) \div 8) % 16) * 8) + 128 * ((v \div 8) % 8)
            Down   == 1024 * (v % 8)
            Below  == "mixed" \in flags /\ BitOf(v, 128) = 1 /\ BitOf(v, 32) = 1
<1>17. (IF "page2" \in flags /\ ~ ("mask2" \in flags) THEN 16384 ELSE 8192)
          = (IF "page2" \in flags THEN 16384 ELSE 8192)
       /\ (IF "page2" \in flags /\ ~ ("mask2" \in flags) THEN 2048 ELSE 1024)
            = (IF "page2" \in flags THEN 2048 ELSE 1024)
  BY <1>9
<1>18. /\ Within = m + r /\ Down = z
       /\ Below <=> "mixed" \in flags /\ y >= 160
  BY <1>4, <1>12, <1>14
<1>19. video_get_scanner_address(flags, apple2, ntsc, cycle) =
         Within + (IF "hires" \in flags /\ ~ ("text" \in flags) /\ ~ Below
                   THEN Down + (IF "page2" \in flags THEN 16384 ELSE 8192)
                   ELSE (IF "page2" \in flags THEN 2048 ELSE 1024) + 0)
  <2>. DEFINE Base == IF "page2" \in flags /\ ~ ("mask2" \in flags) THEN 16384 ELSE 8192
              Text == IF "page2" \in flags /\ ~ ("mask2" \in flags) THEN 2048 ELSE 1024
  <2>1. video_get_scanner_address(flags, apple2, ntsc, cycle) =
          Within + (IF "hires" \in flags /\ ~ ("text" \in flags) /\ ~ Below THEN Down + Base
                    ELSE Text + (IF apple2 /\ (cycle + HPeClock) % HClocks >= HPeClock THEN 4096 ELSE 0))
    BY <1>15
  <2>2. (IF apple2 /\ (cycle + HPeClock) % HClocks >= HPeClock THEN 4096 ELSE 0) = 0
    BY <1>1
  <2>3. /\ Base = IF "page2" \in flags THEN 16384 ELSE 8192
        /\ Text = IF "page2" \in flags THEN 2048 ELSE 1024
    BY <1>17
  <2>. HIDE DEF Base, Text, Within, Down, Below
  <2>. QED BY ONLY <2>1, <2>2, <2>3
<1>. HIDE DEF Within, Down, Below
<1>20. ASSUME "hires" \in flags /\ ~ ("text" \in flags) /\ ~ ("mixed" \in flags /\ y >= 160)
       PROVE  video_get_scanner_address(flags, apple2, ntsc, cycle) = BeamReads(flags, y, x)
  <2>1. video_get_scanner_address(flags, apple2, ntsc, cycle) =
          m + r + (z + (IF "page2" \in flags THEN 16384 ELSE 8192))
    BY ONLY <1>18, <1>19, <1>20
  <2>2. BeamReads(flags, y, x) = m + r + ((IF "page2" \in flags THEN 16384 ELSE 8192) + z)
    BY <1>8, <1>16, <1>20
  <2>. QED BY <2>1, <2>2
<1>21. ASSUME ~ ("hires" \in flags /\ ~ ("text" \in flags) /\ ~ ("mixed" \in flags /\ y >= 160))
       PROVE  video_get_scanner_address(flags, apple2, ntsc, cycle) = BeamReads(flags, y, x)
  <2>1. video_get_scanner_address(flags, apple2, ntsc, cycle) =
          m + r + ((IF "page2" \in flags THEN 2048 ELSE 1024) + 0)
    BY ONLY <1>18, <1>19, <1>21
  <2>2. BeamReads(flags, y, x) = m + r + (IF "page2" \in flags THEN 2048 ELSE 1024)
    BY <1>8, <1>16, <1>21
  <2>. QED BY <2>1, <2>2
<1>22. video_get_scanner_address(flags, apple2, ntsc, cycle) = BeamReads(flags, y, x)
  BY <1>20, <1>21
<1>. QED BY <1>a, <1>b, <1>22

\* The beam is blanked from the line after the last one shown.
LEMMA BlankIsVbl ==
  ASSUME NEW ntsc \in BOOLEAN, NEW cycle \in 0 .. HClocks * ScanLines(ntsc) - 1
  PROVE  VblBar(ntsc, cycle) = ~ video_get_vbl(cycle)
<1>1. ScanLines(ntsc) \in {262, 312} /\ HClocks * ScanLines(ntsc) \in Nat
  BY DEF ScanLines, HClocks
<1>2. PICK y \in Nat : y = cycle \div 65
  OBVIOUS
<1>3. y < ScanLines(ntsc)
  BY <1>1, <1>2 DEF HClocks
<1>4. cycle >= 12480 <=> y >= 192
  BY <1>2
<1>5. PICK v \in Nat : v = 256 + y - (IF y >= 256 THEN ScanLines(ntsc) ELSE 0)
  BY <1>1, <1>3
<1>6. VblBar(ntsc, cycle) = (BitOf(v, 128) = 0 \/ BitOf(v, 64) = 0)
  BY <1>2, <1>5 DEF VblBar, VState, HClocks
<1>7. CASE y < 192
  <2>1. v \in 256 .. 447
    BY <1>1, <1>5, <1>7
  <2>2. BitOf(v, 128) = 0 \/ BitOf(v, 64) = 0
    BY <2>1 DEF BitOf
  <2>. QED BY <1>4, <1>6, <1>7, <2>2 DEF video_get_vbl
<1>8. CASE y >= 192
  <2>1. v \in 448 .. 511 \/ v \in 192 .. 255
    BY <1>1, <1>3, <1>5, <1>8
  <2>2. BitOf(v, 128) = 1 /\ BitOf(v, 64) = 1
    BY <2>1 DEF BitOf
  <2>. QED BY <1>4, <1>6, <1>8, <2>2 DEF video_get_vbl
<1>. QED BY <1>2, <1>7, <1>8

BeamInv ==
  /\ scan.ntsc \in BOOLEAN /\ scan.cycle \in 0 .. HClocks * ScanLines(scan.ntsc) - 1
  /\ scan.cycle # 0 => ~ {"mask2", "page2"} \subseteq video_mode

LEMMA BeamIsRight == ASSUME BeamInv PROVE BeamReadsWhatIsShown
<1>. SUFFICES ASSUME scan.cycle # 0 PROVE BeamReadsWhatIsShown
  BY DEF BeamReadsWhatIsShown
<1>1. scan.cycle \in Nat
  BY DEF BeamInv, HClocks, ScanLines
<1>2. VblBar(scan.ntsc, scan.cycle) = ~ video_get_vbl(scan.cycle)
  BY BlankIsVbl DEF BeamInv
<1>3. PICK y \in Nat : y = scan.cycle \div HClocks
  BY <1>1 DEF HClocks
<1>4. PICK x \in Nat : x = (scan.cycle + HPeClock) % HClocks
  BY <1>1 DEF HClocks, HPeClock
<1>5. ASSUME y < 192, x < HPeClock
      PROVE  video_get_scanner_address(video_mode, videoApple2, scan.ntsc, scan.cycle) = BeamReads(video_mode, y, x)
  <2>1. y \in 0 .. 191 /\ x \in 0 .. 39
    BY <1>5 DEF HPeClock
  <2>2. scan.ntsc \in BOOLEAN /\ ~ {"mask2", "page2"} \subseteq video_mode
    BY DEF BeamInv
  <2>3. PICK ntsc : ntsc = scan.ntsc
    BY <2>2
  <2>4. PICK cycle \in Nat : cycle = scan.cycle
    BY <1>1
  <2>5. y = cycle \div HClocks /\ x = (cycle + HPeClock) % HClocks
    BY <1>3, <1>4, <2>4
  <2>6. cycle \div HClocks \in 0 .. 191 /\ (cycle + HPeClock) % HClocks \in 0 .. 39
    BY <2>1, <2>5
  <2>7. video_get_scanner_address(video_mode, videoApple2, ntsc, cycle)
          = BeamReads(video_mode, cycle \div HClocks, (cycle + HPeClock) % HClocks)
    BY <2>2, <2>6, BeamReadsCell
  <2>. QED BY <2>3, <2>4, <2>5, <2>7
<1>. QED BY <1>2, <1>3, <1>4, <1>5 DEF BeamReadsWhatIsShown

LEMMA BeamStays == DisplaySpec => []BeamInv
<1>1. DisplayInit => BeamInv
  <2>. SUFFICES ASSUME DisplayInit PROVE BeamInv
    OBVIOUS
  <2>1. video_mode \in VideoModes
    BY DEF DisplayInit
  <2>2. CASE scan = [ntsc |-> TRUE, cycle |-> 0]
    BY <2>2 DEF BeamInv, HClocks, ScanLines
  <2>3. ASSUME NEW ntsc \in BOOLEAN, NEW c \in ScanCycles,
               scan = [ntsc |-> ntsc, cycle |-> c % (HClocks * ScanLines(ntsc))]
        PROVE  BeamInv
    <3>1. PICK n \in Nat \ {0} : n = HClocks * ScanLines(ntsc)
      BY DEF HClocks, ScanLines
    <3>2. c \in Nat /\ c % n \in 0 .. n - 1
      BY DisplayAssumption
    <3>. QED BY <2>1, <2>3, <3>1, <3>2, DisplayAssumption DEF BeamInv
  <2>. QED BY <2>2, <2>3 DEF DisplayInit
<1>2. BeamInv /\ [DisplayNext]_displayVars => BeamInv'
  <2>. SUFFICES ASSUME BeamInv, [DisplayNext]_displayVars PROVE BeamInv'
    OBVIOUS
  <2>1. CASE UNCHANGED displayVars
    BY <2>1 DEF displayVars, BeamInv
  <2>2. CASE DisplayNext
    <3>1. scan.cycle = 0 /\ scan' = scan
      BY <2>2 DEF DisplayNext, WriteDisplay, video_set_mode, SetMode, video_update_vbl, Refresh,
         video_redraw_screen, video_set_snapshot
    <3>. QED BY <3>1 DEF BeamInv
  <2>. QED BY <2>1, <2>2
<1>. QED BY <1>1, <1>2, PTL DEF DisplaySpec

\* Once a frame is drawn and until the program writes, every cell shows its bytes, with the edges
\* its neighbours colour and the flash where it stands, though only what the copy says has changed
\* is drawn again, for any columns, bytes, modes and switches; and the byte the beam reads is the
\* one drawn where it is, at every cycle of either frame (video_perform_refresh, the update_
\* functions, set_last_drawn_image, video_set_mode, video_get_scanner_address, video_get_vbl).
THEOREM DisplayShowsMemory == DisplaySpec => []DisplayIsTrue
<1>1. DisplayInv /\ BeamInv => DisplayIsTrue
  BY BeamIsRight DEF DisplayInv, DisplayIsTrue
<1>. QED BY <1>1, DisplayIsInductive, BeamStays, PTL

=============================================================================
