--------------------------- MODULE DebuggerMemory ---------------------------
(* The debugger's commands that write memory (Debugger_Memory.cpp), among the  *)
(* guest's writes and the changes of bank. Memory is an image of mapped pages; *)
(* a page marked dirty goes back to its bank when another bank is mapped there *)
(* (Memory.cpp, PagedMemory). Pages, banks and bytes are small.                *)
EXTENDS Integers, Sequences

CONSTANTS
  MemoryPages,     \* pages of the machine, the first of them 0
  PageBytes,       \* bytes of a page
  KeptPages,       \* pages 0 to KeptPages - 1 always go back: zero page and stack
  ByteBase,        \* values of a byte
  FillSpans,       \* [start, end, value] arguments of F
  RangeArguments,  \* [first, sep, second, value] arguments of commands with a range
  Entries,         \* [start, data] arguments of MEB and MEW
  DebugFiles,      \* the bytes of the files BLOAD finds
  GuestAddresses,  \* addresses the guest writes
  KnownType,       \* [start, len]: the address and the length a file's name stands for
  MaxMemorySteps   \* commands, writes and changes of bank: a bound of the model

VARIABLES
  memImage,     \* mem: the bytes at each address
  memBanks,     \* [bank -> bytes]: memmain, memaux
  memShadow,    \* [page -> bank]: memshadow
  memDirty,     \* the pages whose memdirty bit is set
  lastWritten,  \* history: [bank -> the last byte written at each address]
  atRisk,       \* history: <<bank, address>> written to a page that a command leaves unmarked
                \* and that nothing has marked since
  dropped,      \* history: <<bank, address>> at risk when their page turned
  memorySteps

memoryVars == <<memImage, memBanks, memShadow, memDirty, lastWritten, atRisk, dropped, memorySteps>>

MemoryBanks == {"main", "aux"}
Pages == 0 .. MemoryPages - 1
MemoryTop == MemoryPages * PageBytes - 1       \* apple2_6502_mem_end
MemAddresses == 0 .. MemoryTop
PageOf(address) == address \div PageBytes
Smallest(a, b) == IF a < b THEN a ELSE b

(* The arguments are words of 16 bits. Those a line brings to the commands are *)
(* all 0 (ParseInput); the commands are described for the others as well.      *)
ASSUME MemoryAssumption ==
  /\ MemoryPages \in Nat /\ PageBytes \in Nat \ {0} /\ KeptPages \in Nat
  /\ GuestAddresses \subseteq MemAddresses
  /\ \A c \in FillSpans : c.start \in MemAddresses /\ c.end \in MemAddresses
  /\ \A c \in RangeArguments : c.first \in Nat /\ c.second \in Nat /\ c.sep \in {"comma", "colon"}
  /\ \A c \in Entries : c.data \in Seq(Nat) /\ c.start \in Nat /\ c.start + Len(c.data) <= MemoryTop
  /\ \A file \in DebugFiles : file \in Seq(Nat)
  /\ KnownType.start \in Nat /\ KnownType.len \in Nat /\ KnownType.start + KnownType.len <= MemoryTop + 1

MemoryInit ==
  /\ memImage = [a \in MemAddresses |-> 0]
  /\ memBanks = [b \in MemoryBanks |-> [a \in MemAddresses |-> 0]]
  /\ memShadow = [p \in Pages |-> "main"] /\ memDirty = {}
  /\ lastWritten = memBanks /\ atRisk = {} /\ dropped = {} /\ memorySteps = 0
MemoryStep == memorySteps < MaxMemorySteps /\ memorySteps' = memorySteps + 1

----------------------------------------------------------------------------
(* Bytes into the image, [address -> byte], the pages marked for them, and the *)
(* pages among them that the command is known to leave unmarked.               *)
BankAt(address) == memShadow[PageOf(address)]
GoesBack(page) == page \in memDirty \/ page < KeptPages
Overlay(old, bytes) == [a \in DOMAIN old |-> IF a \in DOMAIN bytes THEN bytes[a] ELSE old[a]]
WritesImage(bytes, marked, left) ==
  LET risen == {a \in DOMAIN bytes : PageOf(a) \in left \ marked /\ ~ GoesBack(PageOf(a))}
      written == {<<BankAt(a), a>> : a \in DOMAIN bytes}
  IN  /\ memImage' = Overlay(memImage, bytes) /\ memDirty' = memDirty \cup marked
      /\ lastWritten' = [b \in MemoryBanks |-> [a \in MemAddresses |->
           IF <<b, a>> \in written THEN bytes[a] ELSE lastWritten[b][a]]]
      /\ atRisk' = {byte \in atRisk \ written : PageOf(byte[2]) \notin marked} \cup {<<BankAt(a), a>> : a \in risen}
      /\ dropped' = dropped \ written
      /\ UNCHANGED <<memBanks, memShadow>>

GuestWrites(address, byte) ==
  MemoryStep /\ WritesImage([a \in {address} |-> byte], {PageOf(address)}, {})

(* mem_update_paging: a page turns to another bank. *)
TurnPage(page) ==
  LET from == memShadow[page]
      to == CHOOSE b \in MemoryBanks : b # from
  IN  /\ MemoryStep
      /\ memShadow' = [memShadow EXCEPT ![page] = to]
      /\ memDirty' = IF GoesBack(page) THEN memDirty \ {page} ELSE memDirty
      /\ memBanks' = IF GoesBack(page)
                     THEN [memBanks EXCEPT ![from] = [a \in MemAddresses |->
                             IF PageOf(a) = page THEN memImage[a] ELSE @[a]]]
                     ELSE memBanks
      /\ memImage' = [a \in MemAddresses |-> IF PageOf(a) = page THEN memBanks[to][a] ELSE memImage[a]]
      /\ LET gone == {byte \in atRisk : PageOf(byte[2]) = page}
         IN  atRisk' = atRisk \ gone /\ dropped' = dropped \cup gone
      /\ UNCHANGED lastWritten

----------------------------------------------------------------------------
(* Range_Get and Range_CalcEndLen: "start , length" and "start : end", the     *)
(* ends of the latter in either order. Their callers pass a copy of their own  *)
(* end and length and never read it back: both stay 0.                         *)
Range_Get(c) ==
  CASE c.sep = "comma" -> [start |-> Smallest(c.first, MemoryTop), second |-> c.second]
    [] c.sep = "colon" -> [start |-> Smallest(c.first, c.second),
                           second |-> IF c.first > c.second THEN c.first ELSE c.second]
Range_CalcEndLen(c) ==
  LET r == Range_Get(c)
  IN  IF c.sep = "comma" THEN [end |-> Smallest(r.start + r.second - 1, MemoryTop), len |-> r.second]
      ELSE [end |-> r.second, len |-> r.second - r.start + 1]
CallersRange(computed) == [end |-> 0, len |-> 0]
\* F and M with a range: a length of 0 writes nothing.
RangeCommand(c) ==
  LET start == Range_Get(c).start
      len == CallersRange(Range_CalcEndLen(c)).len
  IN  MemoryStep /\ WritesImage([a \in start .. start + len - 1 |-> c.value], {}, {})

\* F start end value.
MemMarkDirty(start, end) == {p \in Pages : PageOf(start) <= p /\ p <= PageOf(end)}
CmdMemoryFill(c) ==
  LET len == Smallest(MemoryTop, c.end - c.start + 1)
  IN  /\ MemoryStep
      /\ \/ len <= 0 /\ UNCHANGED <<memImage, memBanks, memShadow, memDirty, lastWritten, atRisk, dropped>>
         \/ /\ len > 0
            /\ WritesImage([a \in c.start .. c.start + len - 1 |-> c.value % ByteBase],
                           MemMarkDirty(c.start, c.end), {})

(* MEB and MEW: from the last argument to the first, a datum of two bytes      *)
(* where it is a word or does not fit a byte; the first byte's page is marked. *)
EnteredBytes(c, words) ==
  LET bytesOf(k) == IF words \/ c.data[k] >= ByteBase
                    THEN <<c.data[k] % ByteBase, (c.data[k] \div ByteBase) % ByteBase>>
                    ELSE <<c.data[k]>>
      all == {c.start + k - 2 + i : k \in DOMAIN c.data, i \in {1, 2}}
      writers(a) == {k \in DOMAIN c.data : a - c.start - k + 2 \in DOMAIN bytesOf(k)}
      last(a) == CHOOSE k \in writers(a) : \A j \in writers(a) : k <= j
  IN  [a \in {b \in all : writers(b) # {}} |-> bytesOf(last(a))[a - c.start - last(a) + 2]]
CmdMemoryEnter(c, words) ==
  MemoryStep /\ WritesImage(EnteredBytes(c, words), {PageOf(c.start)}, Pages)

(* BLOAD: the whole file, as far as memory goes, or the length of a known type,*)
(* of which a shorter file fills a part, at the address that type has or at    *)
(* the one that is told. The pages up to the one where it ends are marked, for *)
(* a length cut to 16 bits: a file of all of memory marks none. (A bank cannot *)
(* be named: no argument is ever an address.)                                  *)
LoadLength(file, known) == IF known THEN KnownType.len ELSE Smallest(Len(file), MemoryTop + 1)
Loaded(file, start, known) ==
  [a \in start .. start + Smallest(LoadLength(file, known), Len(file)) - 1 |-> file[a - start + 1]]
LoadMarks_short(start, len) ==         \* a broken LoadMarks: the last full page is left out as well
  {p \in Pages : PageOf(start) <= p /\ p < PageOf(start + (len % (MemoryTop + 1))) - 1}
LoadMarks(start, len) == {p \in Pages : PageOf(start) <= p /\ p < PageOf(start + (len % (MemoryTop + 1)))}
LeftByLoad(start, len) == IF len > MemoryTop THEN Pages ELSE {PageOf(start + len)}
CmdMemoryLoad(file, start, known) ==
  LET len == LoadLength(file, known)
  IN  MemoryStep /\ WritesImage(Loaded(file, start, known), LoadMarks(start, len), LeftByLoad(start, len))

MemoryNext ==
  \/ \E address \in GuestAddresses, byte \in 0 .. ByteBase - 1 : GuestWrites(address, byte)
  \/ \E page \in Pages : TurnPage(page)
  \/ \E c \in RangeArguments : RangeCommand(c)
  \/ \E c \in FillSpans : CmdMemoryFill(c)
  \/ \E c \in Entries, words \in BOOLEAN : CmdMemoryEnter(c, words)
  \/ \E file \in DebugFiles : \/ CmdMemoryLoad(file, KnownType.start, TRUE)
                              \/ \E known \in BOOLEAN : CmdMemoryLoad(file, 0, known)

MemorySpec == MemoryInit /\ [][MemoryNext]_memoryVars

----------------------------------------------------------------------------
(* A byte the guest or the debugger wrote is the byte that is read there, with *)
(* whatever changes of bank between. Only a byte that BLOAD, MEB or MEW wrote  *)
(* to a page they do not mark may be lost, and only when that page turns before*)
(* another write marks it (CmdMemoryFill, CmdMemoryEnterByte, CmdMemoryLoad).  *)
ReadAt(bank, address) ==
  IF BankAt(address) = bank THEN memImage[address] ELSE memBanks[bank][address]
DebuggerWritesLast ==
  \A bank \in MemoryBanks, address \in MemAddresses :
    <<bank, address>> \in dropped \/ ReadAt(bank, address) = lastWritten[bank][address]
============================================================================
