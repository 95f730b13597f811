--------------------------- MODULE Console_proof ---------------------------
(***************************************************************************)
(* What is proved of the debugger: its writes to memory, whatever banks    *)
(* are mapped; its console, its stepping and its stops, whatever program   *)
(* it runs and whatever lines are typed; its lists, whatever is added to   *)
(* them and cleared; of the terminal it is used from: what its screen      *)
(* shows, and where everything is laid out on it; and of the keyboard:     *)
(* which keys stay down, and when they repeat.                             *)
(***************************************************************************)
EXTENDS DebuggerMemory, DebuggerSession, DebuggerLists, TerminalScreen, Keyboard,
        SequenceTheorems, FiniteSetTheorems, WellFoundedInduction, TLAPS

----------------------------------------------------------------------------
(* Memory *)

\* A page that does not go back is what its bank holds, but for the bytes at risk.
CleanPagesMatch ==
  \A a \in MemAddresses :
    \/ GoesBack(PageOf(a))
    \/ <<BankAt(a), a>> \in atRisk
    \/ memImage[a] = memBanks[BankAt(a)][a]

MemoryInv ==
  /\ memShadow \in [Pages -> MemoryBanks]
  /\ memImage = [a \in MemAddresses |-> memImage[a]]
  /\ memBanks = [b \in MemoryBanks |-> [a \in MemAddresses |-> memBanks[b][a]]]
  /\ CleanPagesMatch
  /\ DebuggerWritesLast

\* Pages of addresses
LEMMA Quotient ==
  ASSUME NEW a \in Nat, NEW n \in Nat \ {0}
  PROVE  a \div n \in Nat /\ n * (a \div n) <= a /\ a < n * (a \div n) + n
<1>1. a \div n \in Nat
  OBVIOUS
<1>2. n * (a \div n) <= a
  OBVIOUS
<1>3. a < n * (a \div n) + n
  OBVIOUS
<1>. QED BY <1>1, <1>2, <1>3

LEMMA Product == ASSUME NEW n \in Nat, NEW p \in Nat, NEW q \in Nat, p <= q PROVE n * p <= n * q
OBVIOUS

LEMMA QuotientBelow ==
  ASSUME NEW a \in Nat, NEW n \in Nat \ {0}, NEW k \in Nat, a < n * k
  PROVE  a \div n < k
<1>1. PICK q \in Nat : q = a \div n
  BY Quotient
<1>2. n * q <= a
  BY <1>1, Quotient
<1>3. ASSUME k <= q PROVE FALSE
  <2>1. n * k <= n * q
    BY <1>3, Product
  <2>2. n * k \in Nat /\ n * q \in Nat
    OBVIOUS
  <2>. QED BY <1>2, <2>1, <2>2
<1>. QED BY <1>1, <1>3

LEMMA QuotientRises ==
  ASSUME NEW a \in Nat, NEW b \in Nat, NEW n \in Nat \ {0}, a <= b
  PROVE  a \div n <= b \div n
<1>1. PICK q \in Nat : q = b \div n
  BY Quotient
<1>2. b < n * q + n
  BY <1>1, Quotient
<1>3. n * q + n = n * (q + 1)
  OBVIOUS
<1>4. a < n * (q + 1)
  <2>1. n * q \in Nat
    OBVIOUS
  <2>. QED BY <1>2, <1>3, <2>1
<1>5. a \div n < q + 1
  BY <1>4, QuotientBelow
<1>. QED BY <1>1, <1>5, Quotient

LEMMA PageIsNat == ASSUME NEW a \in Nat PROVE PageOf(a) \in Nat
BY MemoryAssumption, Quotient DEF PageOf

LEMMA PagesInOrder == ASSUME NEW a \in Nat, NEW b \in Nat, a <= b PROVE PageOf(a) <= PageOf(b)
BY MemoryAssumption, QuotientRises DEF PageOf

LEMMA PagesOfAddresses == ASSUME NEW a \in MemAddresses PROVE a \in Nat /\ PageOf(a) \in Pages
<1>1. MemoryPages \in Nat /\ PageBytes \in Nat \ {0}
  BY MemoryAssumption
<1>2. PICK top \in Nat : top = PageBytes * MemoryPages /\ top = MemoryPages * PageBytes
  BY <1>1
<1>3. a \in Nat /\ a < PageBytes * MemoryPages
  BY <1>2 DEF MemAddresses, MemoryTop
<1>4. a \div PageBytes < MemoryPages
  BY <1>1, <1>3, QuotientBelow
<1>5. PageOf(a) \in Nat /\ PageOf(a) < MemoryPages
  BY <1>3, <1>4, PageIsNat DEF PageOf
<1>. QED BY <1>1, <1>3, <1>5 DEF Pages

----------------------------------------------------------------------------
(* A write that marks the pages it goes to, but for the pages it leaves *)

LEMMA WritesAreKept ==
  ASSUME MemoryInv, NEW bytes, NEW marked, NEW left,
         \A a \in MemAddresses : a \in DOMAIN bytes =>
           PageOf(a) \in marked \/ PageOf(a) < KeptPages \/ PageOf(a) \in left,
         WritesImage(bytes, marked, left)
  PROVE  MemoryInv'
<1>. DEFINE risen == {a \in DOMAIN bytes : PageOf(a) \in left \ marked /\ ~ GoesBack(PageOf(a))}
            written == {<<BankAt(a), a>> : a \in DOMAIN bytes}
<1>1. /\ memImage' = Overlay(memImage, bytes) /\ memDirty' = memDirty \cup marked
      /\ lastWritten' = [b \in MemoryBanks |-> [a \in MemAddresses |->
           IF <<b, a>> \in written THEN bytes[a] ELSE lastWritten[b][a]]]
      /\ atRisk' = {byte \in atRisk \ written : PageOf(byte[2]) \notin marked} \cup {<<BankAt(a), a>> : a \in risen}
      /\ dropped' = dropped \ written
      /\ UNCHANGED <<memBanks, memShadow>>
  BY DEF WritesImage
<1>2. ASSUME NEW a \in MemAddresses PROVE BankAt(a)' = BankAt(a) /\ BankAt(a) \in MemoryBanks
  BY <1>1, PagesOfAddresses DEF BankAt, MemoryInv
<1>3. ASSUME NEW a \in MemAddresses
      PROVE  memImage'[a] = IF a \in DOMAIN bytes THEN bytes[a] ELSE memImage[a]
  BY <1>1 DEF Overlay, MemoryInv
<1>4. memImage' = [a \in MemAddresses |-> memImage'[a]]
  BY <1>1 DEF Overlay, MemoryInv
<1>5. ASSUME NEW b, NEW a, a \notin DOMAIN bytes \/ b # BankAt(a)
      PROVE  /\ <<b, a>> \in atRisk => GoesBack(PageOf(a))' \/ <<b, a>> \in atRisk'
             /\ <<b, a>> \in dropped => <<b, a>> \in dropped'
  <2>1. <<b, a>> \notin written
    BY <1>5
  <2>2. PageOf(a) \in marked => GoesBack(PageOf(a))'
    BY <1>1 DEF GoesBack
  <2>. HIDE DEF written, risen
  <2>. QED BY <1>1, <2>1, <2>2
<1>6. ASSUME NEW a \in MemAddresses PROVE GoesBack(PageOf(a)) => GoesBack(PageOf(a))'
  BY <1>1 DEF GoesBack
<1>7. ASSUME NEW a \in MemAddresses, a \in DOMAIN bytes
      PROVE  GoesBack(PageOf(a))' \/ <<BankAt(a), a>> \in atRisk'
  <2>1. PageOf(a) \in Nat
    BY PagesOfAddresses, PageIsNat
  <2>2. CASE PageOf(a) \in marked
    BY <1>1, <2>2 DEF GoesBack
  <2>3. CASE PageOf(a) < KeptPages
    BY <2>3 DEF GoesBack
  <2>4. CASE PageOf(a) \in left \ marked
    <3>1. CASE GoesBack(PageOf(a))
      BY <1>6, <3>1
    <3>2. CASE ~ GoesBack(PageOf(a))
      <4>1. a \in risen
        BY <1>7, <2>4, <3>2
      <4>. HIDE DEF risen, written
      <4>. QED BY <1>1, <4>1
    <3>. QED BY <3>1, <3>2
  <2>. QED BY <1>7, <2>2, <2>3, <2>4
<1>8. CleanPagesMatch'
  <2>. SUFFICES ASSUME NEW a \in MemAddresses
                PROVE  \/ GoesBack(PageOf(a))'
                       \/ <<BankAt(a)', a>> \in atRisk'
                       \/ memImage'[a] = memBanks'[BankAt(a)'][a]
    BY DEF CleanPagesMatch
  <2>1. CASE a \in DOMAIN bytes
    BY <1>2, <1>7, <2>1
  <2>2. CASE a \notin DOMAIN bytes
    <3>1. \/ GoesBack(PageOf(a))
          \/ <<BankAt(a), a>> \in atRisk
          \/ memImage[a] = memBanks[BankAt(a)][a]
      BY DEF MemoryInv, CleanPagesMatch
    <3>. QED BY <1>1, <1>2, <1>3, <1>5, <1>6, <2>2, <3>1
  <2>. QED BY <2>1, <2>2
<1>9. DebuggerWritesLast'
  <2>. SUFFICES ASSUME NEW b \in MemoryBanks, NEW a \in MemAddresses
                PROVE  <<b, a>> \in dropped' \/ ReadAt(b, a)' = lastWritten'[b][a]
    BY DEF DebuggerWritesLast
  <2>1. lastWritten'[b][a] = IF <<b, a>> \in written THEN bytes[a] ELSE lastWritten[b][a]
    BY <1>1
  <2>2. CASE a \in DOMAIN bytes /\ b = BankAt(a)
    <3>1. <<b, a>> \in written
      BY <2>2
    <3>2. ReadAt(b, a)' = bytes[a]
      BY <1>2, <1>3, <2>2 DEF ReadAt
    <3>. QED BY <2>1, <3>1, <3>2
  <2>3. CASE ~ (a \in DOMAIN bytes /\ b = BankAt(a))
    <3>1. <<b, a>> \notin written
      BY <2>3
    <3>2. <<b, a>> \in dropped \/ ReadAt(b, a) = lastWritten[b][a]
      BY DEF MemoryInv, DebuggerWritesLast
    <3>3. ReadAt(b, a)' = ReadAt(b, a)
      BY <1>1, <1>2, <1>3, <2>3 DEF ReadAt
    <3>. QED BY <1>5, <2>1, <2>3, <3>1, <3>2, <3>3
  <2>. QED BY <2>2, <2>3
<1>. QED BY <1>1, <1>4, <1>8, <1>9 DEF MemoryInv

LEMMA TurnIsKept ==
  ASSUME MemoryInv, NEW page \in Pages, TurnPage(page)
  PROVE  MemoryInv'
<1>. DEFINE from == memShadow[page]
            to == CHOOSE b \in MemoryBanks : b # from
            gone == {byte \in atRisk : PageOf(byte[2]) = page}
<1>1. /\ memShadow' = [memShadow EXCEPT ![page] = to]
      /\ memDirty' = IF GoesBack(page) THEN memDirty \ {page} ELSE memDirty
      /\ memBanks' = IF GoesBack(page)
                     THEN [memBanks EXCEPT ![from] = [a \in MemAddresses |->
                             IF PageOf(a) = page THEN memImage[a] ELSE @[a]]]
                     ELSE memBanks
      /\ memImage' = [a \in MemAddresses |-> IF PageOf(a) = page THEN memBanks[to][a] ELSE memImage[a]]
      /\ atRisk' = atRisk \ gone /\ dropped' = dropped \cup gone
      /\ UNCHANGED lastWritten
  BY DEF TurnPage
<1>2. from \in MemoryBanks /\ to \in MemoryBanks /\ to # from
  <2>1. from \in MemoryBanks
    BY DEF MemoryInv
  <2>2. \E b \in MemoryBanks : b # from
    BY DEF MemoryBanks
  <2>. QED BY <2>1, <2>2
<1>. HIDE DEF from, to
<1>3. memShadow' \in [Pages -> MemoryBanks] /\ memShadow'[page] = to
      /\ \A p \in Pages : p # page => memShadow'[p] = memShadow[p]
  BY <1>1, <1>2 DEF MemoryInv
<1>4. /\ memBanks' = [b \in MemoryBanks |-> [a \in MemAddresses |-> memBanks'[b][a]]]
      /\ \A b \in MemoryBanks, a \in MemAddresses :
           memBanks'[b][a] = IF GoesBack(page) /\ b = from /\ PageOf(a) = page THEN memImage[a]
                             ELSE memBanks[b][a]
  <2>0. memBanks = [b \in MemoryBanks |-> [a \in MemAddresses |-> memBanks[b][a]]]
    BY DEF MemoryInv
  <2>1. CASE ~ GoesBack(page)
    <3>1. memBanks' = memBanks
      BY <1>1, <2>1
    <3>. QED BY <2>0, <2>1, <3>1
  <2>2. CASE GoesBack(page)
    <3>1. memBanks' = [b \in MemoryBanks |-> IF b = from THEN
             [a \in MemAddresses |-> IF PageOf(a) = page THEN memImage[a] ELSE memBanks[b][a]] ELSE memBanks[b]]
      <4>1. memBanks' = [memBanks EXCEPT ![from] = [a \in MemAddresses |->
                            IF PageOf(a) = page THEN memImage[a] ELSE memBanks[from][a]]]
        BY <1>1, <2>2
      <4>. QED BY <1>2, <2>0, <4>1
    <3>2. \A b \in MemoryBanks : memBanks[b] = [a \in MemAddresses |-> memBanks[b][a]]
      BY <2>0
    <3>. QED BY <2>2, <3>1, <3>2
  <2>. QED BY <2>1, <2>2
<1>5. ASSUME NEW a \in MemAddresses
      PROVE  memImage'[a] = IF PageOf(a) = page THEN memBanks[to][a] ELSE memImage[a]
  BY <1>1
<1>6. ASSUME NEW a \in MemAddresses
      PROVE  /\ PageOf(a) \in Pages
             /\ PageOf(a) = page => BankAt(a) = from /\ BankAt(a)' = to
             /\ PageOf(a) # page => BankAt(a)' = BankAt(a) /\ BankAt(a) \in MemoryBanks
  BY <1>3, PagesOfAddresses DEF BankAt, from, MemoryInv
<1>7. CleanPagesMatch'
  <2>. SUFFICES ASSUME NEW a \in MemAddresses
                PROVE  \/ GoesBack(PageOf(a))'
                       \/ <<BankAt(a)', a>> \in atRisk'
                       \/ memImage'[a] = memBanks'[BankAt(a)'][a]
    BY DEF CleanPagesMatch
  <2>1. CASE PageOf(a) = page
    BY <1>2, <1>4, <1>5, <1>6, <2>1
  <2>2. CASE PageOf(a) # page
    <3>1. \/ GoesBack(PageOf(a))
          \/ <<BankAt(a), a>> \in atRisk
          \/ memImage[a] = memBanks[BankAt(a)][a]
      BY DEF MemoryInv, CleanPagesMatch
    <3>2. GoesBack(PageOf(a)) => GoesBack(PageOf(a))'
      BY <1>1, <2>2 DEF GoesBack
    <3>3. memBanks'[BankAt(a)][a] = memBanks[BankAt(a)][a]
      BY <1>4, <1>6, <2>2
    <3>4. <<BankAt(a), a>> \in atRisk => <<BankAt(a), a>> \in atRisk'
      BY <1>1, <2>2
    <3>. QED BY <1>5, <1>6, <2>2, <3>1, <3>2, <3>3, <3>4
  <2>. QED BY <2>1, <2>2
<1>8. DebuggerWritesLast'
  <2>. SUFFICES ASSUME NEW b \in MemoryBanks, NEW a \in MemAddresses, <<b, a>> \notin dropped'
                PROVE  ReadAt(b, a)' = lastWritten'[b][a]
    BY DEF DebuggerWritesLast
  <2>1. /\ ReadAt(b, a) = lastWritten'[b][a]
        /\ PageOf(a) = page => <<b, a>> \notin atRisk
    BY <1>1 DEF MemoryInv, DebuggerWritesLast
  <2>2. CASE PageOf(a) # page
    <3>1. BankAt(a)' = BankAt(a) /\ memImage'[a] = memImage[a] /\ memBanks'[b][a] = memBanks[b][a]
      BY <1>4, <1>5, <1>6, <2>2
    <3>. QED BY <2>1, <3>1 DEF ReadAt
  <2>3. CASE PageOf(a) = page /\ b = to
    <3>1. ReadAt(b, a)' = memBanks[to][a]
      BY <1>5, <1>6, <2>3 DEF ReadAt
    <3>2. ReadAt(b, a) = memBanks[to][a]
      BY <1>2, <1>6, <2>3 DEF ReadAt
    <3>. QED BY <2>1, <3>1, <3>2
  <2>4. CASE PageOf(a) = page /\ b # to
    <3>1. b = from
      BY <1>2, <2>4 DEF MemoryBanks
    <3>2. ReadAt(b, a) = memImage[a]
      BY <1>6, <2>4, <3>1 DEF ReadAt
    <3>3. ReadAt(b, a)' = memBanks'[from][a]
      BY <1>2, <1>6, <2>4, <3>1 DEF ReadAt
    <3>4. memBanks'[from][a] = memImage[a]
      <4>1. CASE GoesBack(page)
        BY <1>2, <1>4, <2>4, <4>1
      <4>2. CASE ~ GoesBack(page)
        <5>1. memImage[a] = memBanks[from][a]
          BY <1>6, <2>1, <2>4, <3>1, <4>2 DEF MemoryInv, CleanPagesMatch
        <5>. QED BY <1>2, <1>4, <4>2, <5>1
      <4>. QED BY <4>1, <4>2
    <3>. QED BY <2>1, <3>2, <3>3, <3>4
  <2>. QED BY <2>2, <2>3, <2>4
<1>9. memImage' = [a \in MemAddresses |-> memImage'[a]]
  BY <1>1
<1>. QED BY <1>3, <1>4, <1>7, <1>8, <1>9 DEF MemoryInv

LEMMA MemoryUnchanged ==
  ASSUME MemoryInv, UNCHANGED <<memImage, memBanks, memShadow, memDirty, lastWritten, atRisk, dropped>>
  PROVE  MemoryInv'
BY DEF MemoryInv, CleanPagesMatch, DebuggerWritesLast, GoesBack, BankAt, ReadAt

----------------------------------------------------------------------------
(* The commands *)

LEMMA RangesWriteNothing ==
  ASSUME MemoryInv, NEW c \in RangeArguments, RangeCommand(c)
  PROVE  MemoryInv'
<1>1. Range_Get(c).start \in Int
  <2>1. c.first \in Nat /\ c.second \in Nat /\ MemoryTop \in Int
    BY MemoryAssumption DEF MemoryTop
  <2>2. CASE c.sep = "comma"
    <3>1. Range_Get(c) = [start |-> Smallest(c.first, MemoryTop), second |-> c.second]
      BY <2>2 DEF Range_Get
    <3>. QED BY <2>1, <3>1 DEF Smallest
  <2>3. CASE c.sep = "colon"
    <3>1. Range_Get(c) = [start |-> Smallest(c.first, c.second),
                          second |-> IF c.first > c.second THEN c.first ELSE c.second]
      BY <2>3 DEF Range_Get
    <3>. QED BY <2>1, <3>1 DEF Smallest
  <2>. QED BY <2>2, <2>3, MemoryAssumption
<1>. DEFINE start == Range_Get(c).start
            bytes == [a \in start .. start + 0 - 1 |-> c.value]
<1>2. WritesImage(bytes, {}, {})
  BY DEF RangeCommand, CallersRange
<1>3. DOMAIN bytes = {}
  BY <1>1
<1>. HIDE DEF bytes
<1>. QED BY <1>2, <1>3, WritesAreKept

LEMMA FillsAreKept ==
  ASSUME MemoryInv, NEW c \in FillSpans, CmdMemoryFill(c)
  PROVE  MemoryInv'
<1>. DEFINE len == Smallest(MemoryTop, c.end - c.start + 1)
            bytes == [a \in c.start .. c.start + len - 1 |-> c.value % ByteBase]
            marked == MemMarkDirty(c.start, c.end)
<1>1. CASE len <= 0 /\ UNCHANGED <<memImage, memBanks, memShadow, memDirty, lastWritten, atRisk, dropped>>
  BY <1>1, MemoryUnchanged
<1>2. CASE WritesImage(bytes, marked, {})
  <2>1. c.start \in Nat /\ c.end \in Nat /\ MemoryTop \in Int
    BY MemoryAssumption DEF MemAddresses, MemoryTop
  <2>2. len \in Int /\ c.start + len - 1 <= c.end
    BY <2>1 DEF Smallest
  <2>3. ASSUME NEW a \in MemAddresses, a \in DOMAIN bytes PROVE PageOf(a) \in marked
    <3>1. a \in Nat /\ c.start <= a /\ a <= c.end
      <4>1. a \in c.start .. c.start + len - 1
        BY <2>3
      <4>. HIDE DEF len, bytes
      <4>. QED BY <2>1, <2>2, <4>1
    <3>2. PageOf(c.start) <= PageOf(a) /\ PageOf(a) <= PageOf(c.end)
      BY <2>1, <3>1, PagesInOrder
    <3>. QED BY <3>2, PagesOfAddresses DEF MemMarkDirty
  <2>. HIDE DEF bytes, marked, len
  <2>. QED BY <1>2, <2>3, WritesAreKept
<1>. QED BY <1>1, <1>2 DEF CmdMemoryFill

LEMMA EntriesAreKept ==
  ASSUME MemoryInv, NEW c \in Entries, NEW words \in BOOLEAN, CmdMemoryEnter(c, words)
  PROVE  MemoryInv'
<1>. DEFINE bytes == EnteredBytes(c, words)
            marked == {PageOf(c.start)}
<1>1. WritesImage(bytes, marked, Pages)
  BY DEF CmdMemoryEnter
<1>2. \A a \in MemAddresses : PageOf(a) \in Pages
  BY PagesOfAddresses
<1>. HIDE DEF bytes, marked
<1>. QED BY <1>1, <1>2, WritesAreKept

LEMMA LoadsAreKept ==
  ASSUME MemoryInv, NEW file \in DebugFiles, NEW start \in Nat, NEW known \in BOOLEAN,
         CmdMemoryLoad(file, start, known)
  PROVE  MemoryInv'
<1>. DEFINE len == LoadLength(file, known)
            bytes == Loaded(file, start, known)
            marked == LoadMarks(start, len)
            left == LeftByLoad(start, len)
<1>1. WritesImage(bytes, marked, left)
  BY DEF CmdMemoryLoad
<1>2. len \in Int /\ Len(file) \in Nat /\ MemoryTop \in Int
  BY MemoryAssumption, LenProperties DEF LoadLength, MemoryTop, Smallest
<1>3. ASSUME NEW a \in MemAddresses, a \in DOMAIN bytes PROVE PageOf(a) \in marked \/ PageOf(a) \in left
  <2>1. a \in start .. start + Smallest(len, Len(file)) - 1
    BY <1>3 DEF Loaded
  <2>2. CASE len > MemoryTop
    BY <2>2, PagesOfAddresses DEF LeftByLoad
  <2>3. CASE ~ (len > MemoryTop)
    <3>. DEFINE last == PageOf(start + len)
    <3>1. len \in Nat /\ start <= a /\ a <= start + len /\ start + len \in Nat /\ a \in Nat
      <4>. HIDE DEF len
      <4>. QED BY <1>2, <2>1 DEF Smallest
    <3>2. len % (MemoryTop + 1) = len
      <4>. HIDE DEF len
      <4>. QED BY <1>2, <2>3, <3>1
    <3>3. PageOf(start) <= PageOf(a) /\ PageOf(a) <= last
      BY <3>1, PagesInOrder
    <3>4. PageOf(a) \in Pages /\ PageOf(a) \in Nat /\ last \in Nat
      BY <3>1, PagesOfAddresses, PageIsNat
    <3>5. PageOf(a) < last \/ PageOf(a) = last
      <4>. HIDE DEF last
      <4>. QED BY <3>3, <3>4
    <3>6. marked = {p \in Pages : PageOf(start) <= p /\ p < last} /\ left = {last}
      BY <2>3, <3>2 DEF LoadMarks, LeftByLoad
    <3>. QED BY <3>3, <3>4, <3>5, <3>6
  <2>. QED BY <2>2, <2>3
<1>. HIDE DEF bytes, marked, left, len
<1>. QED BY <1>1, <1>3, WritesAreKept

LEMMA GuestIsKept ==
  ASSUME MemoryInv, NEW address \in GuestAddresses, NEW byte, GuestWrites(address, byte)
  PROVE  MemoryInv'
<1>. DEFINE bytes == [a \in {address} |-> byte]
<1>1. WritesImage(bytes, {PageOf(address)}, {})
  BY DEF GuestWrites
<1>2. \A a \in MemAddresses : a \in DOMAIN bytes => PageOf(a) \in {PageOf(address)}
  OBVIOUS
<1>. HIDE DEF bytes
<1>. QED BY <1>1, <1>2, WritesAreKept

\* The inductive invariant: a page that is not marked is what its bank holds, but for
\* the bytes at risk, so what is read back when another bank is mapped is the last write,
\* unless it was at risk then.
THEOREM MemoryIsInductive == MemorySpec => []MemoryInv
<1>1. MemoryInit => MemoryInv
  <2>. SUFFICES ASSUME MemoryInit PROVE MemoryInv
    OBVIOUS
  <2>1. /\ memImage = [a \in MemAddresses |-> 0]
        /\ memBanks = [b \in MemoryBanks |-> [a \in MemAddresses |-> 0]]
        /\ memShadow = [p \in Pages |-> "main"] /\ lastWritten = memBanks
    BY DEF MemoryInit
  <2>2. \A a \in MemAddresses : BankAt(a) = "main" /\ BankAt(a) \in MemoryBanks
    BY <2>1, PagesOfAddresses DEF BankAt, MemoryBanks
  <2>. QED BY <2>1, <2>2 DEF MemoryInv, CleanPagesMatch, DebuggerWritesLast, ReadAt, MemoryBanks
<1>2. MemoryInv /\ [MemoryNext]_memoryVars => MemoryInv'
  <2>. SUFFICES ASSUME MemoryInv, [MemoryNext]_memoryVars PROVE MemoryInv'
    OBVIOUS
  <2>1. ASSUME NEW address \in GuestAddresses, NEW byte \in 0 .. ByteBase - 1, GuestWrites(address, byte)
        PROVE  MemoryInv'
    BY <2>1, GuestIsKept
  <2>2. ASSUME NEW page \in Pages, TurnPage(page) PROVE MemoryInv'
    BY <2>2, TurnIsKept
  <2>3. ASSUME NEW c \in RangeArguments, RangeCommand(c) PROVE MemoryInv'
    BY <2>3, RangesWriteNothing
  <2>4. ASSUME NEW c \in FillSpans, CmdMemoryFill(c) PROVE MemoryInv'
    BY <2>4, FillsAreKept
  <2>5. ASSUME NEW c \in Entries, NEW words \in BOOLEAN, CmdMemoryEnter(c, words) PROVE MemoryInv'
    BY <2>5, EntriesAreKept
  <2>6. ASSUME NEW file \in DebugFiles, CmdMemoryLoad(file, KnownType.start, TRUE) PROVE MemoryInv'
    <3>1. KnownType.start \in Nat /\ TRUE \in BOOLEAN
      BY MemoryAssumption
    <3>. QED BY <2>6, <3>1, LoadsAreKept
  <2>7. ASSUME NEW file \in DebugFiles, NEW known \in BOOLEAN, CmdMemoryLoad(file, 0, known) PROVE MemoryInv'
    <3>1. 0 \in Nat
      OBVIOUS
    <3>. QED BY <2>7, <3>1, LoadsAreKept
  <2>8. CASE UNCHANGED memoryVars
    BY <2>8, MemoryUnchanged DEF memoryVars
  <2>. QED BY <2>1, <2>2, <2>3, <2>4, <2>5, <2>6, <2>7, <2>8 DEF MemoryNext
<1>. QED BY <1>1, <1>2, PTL DEF MemorySpec

\* A byte the guest or the debugger wrote is the byte read there, whatever banks were
\* mapped between; only what went to a page that BLOAD, MEB or MEW leave unmarked, and
\* that nothing marked before it turned, may be lost.
THEOREM WritesComeBack == MemorySpec => []DebuggerWritesLast
<1>1. MemoryInv => DebuggerWritesLast
  BY DEF MemoryInv
<1>. QED BY <1>1, MemoryIsInductive, PTL

----------------------------------------------------------------------------
(* The session *)

\* What is shown and what waits are the lines printed, in order.
Numbered(lead, rest, lines) ==
  /\ lines \in Nat /\ lead \in Seq(Nat) /\ rest \in Seq(Nat)
  /\ Len(lead) + Len(rest) = lines
  /\ \A i \in 1 .. Len(lead) : lead[i] = i
  /\ \A i \in 1 .. Len(rest) : rest[i] = Len(lead) + i

\* A console whose lines are those printed, and one that waits for its reader
\* where it should.
ConsoleLines(c, lines) ==
  /\ c = [buffer |-> c.buffer, shown |-> c.shown, paused |-> c.paused,
          input |-> c.input, full |-> c.full, viewing |-> c.viewing]
  /\ Numbered(c.shown, c.buffer, lines)
PausesToShow(c) ==
  /\ c.input \in SessionCommands \cup {NoInput}
  /\ c.buffer # << >> => c.paused
  /\ c.paused => c.buffer # << >> /\ c.input = NoInput
ConsoleInv == ConsoleLines(console, said) /\ PausesToShow(console)

\* An instruction to stop at is let pass once, where it was announced.
PassInv ==
  /\ stepping.force => strayed \/ announced = debugCpu.pc
  /\ ~unannounced

\* Two turns for an instruction at the most: a stop at it, and the instruction.
LoopInv ==
  /\ stepOver.turns \in Int
  /\ InLoop /\ stepping.skip.len <= 0 =>
       /\ stepping.steps \in 0 .. OverSteps
       /\ stepping.force => stepping.steps # 0 /\ stepOver.turns <= 2 * (OverSteps - stepping.steps) + 1
       /\ ~ stepping.force => stepOver.turns <= 2 * (OverSteps - stepping.steps)

\* The counters of a stepping debugger.
Steps(s) ==
  /\ s = [steps |-> s.steps, force |-> s.force, skip |-> s.skip]
  /\ s.steps \in Int /\ s.force \in BOOLEAN /\ s.skip.len \in Int
SteppingInv == Steps(stepping) /\ StepsRemain /\ LoopInv

\* A turn ends the stepping, stops at an instruction, or runs it.
TurnMade(s, t) ==
  /\ Steps(t.s) /\ t.s.skip = s.skip /\ AskedSteps(s) \in Int
  /\ \/ /\ t.ran = FALSE /\ t.hit = FALSE /\ t.mode = "debug"
        /\ AskedSteps(s) = 0 /\ t.s.steps = 0 /\ s.force = FALSE /\ t.s.force = FALSE
     \/ /\ t.ran = FALSE /\ t.hit = TRUE
        /\ s.force = FALSE /\ t.s.force = TRUE /\ t.s.steps = AskedSteps(s)
     \/ /\ t.ran = TRUE /\ t.hit = FALSE /\ t.s.force = FALSE
        /\ s.force = FALSE => ~ CheckBreakOpcode(debugCpu.pc)
        /\ AskedSteps(s) > 0 => t.s.steps = AskedSteps(s) - 1
        /\ AskedSteps(s) <= 0 => t.s.steps = AskedSteps(s)
        /\ t.s.steps = 0 => t.mode = "debug"

SessionInv == ConsoleInv /\ SteppingInv /\ PassInv

LEMMA ShowsNumbered ==
  ASSUME NEW lead, NEW rest, NEW lines, Numbered(lead, rest, lines), NEW n \in 0 .. Len(rest)
  PROVE  Numbered(lead \o SubSeq(rest, 1, n), SubSeq(rest, n + 1, Len(rest)), lines)
<1>. DEFINE head == SubSeq(rest, 1, n)
            tail == SubSeq(rest, n + 1, Len(rest))
            out == lead \o head
<1>1. /\ lines \in Nat /\ lead \in Seq(Nat) /\ rest \in Seq(Nat) /\ Len(lead) \in Nat /\ Len(rest) \in Nat
      /\ Len(lead) + Len(rest) = lines
      /\ \A i \in 1 .. Len(lead) : lead[i] = i
      /\ \A i \in 1 .. Len(rest) : rest[i] = Len(lead) + i
  BY LenProperties DEF Numbered
<1>2. /\ head \in Seq(Nat) /\ Len(head) = n /\ \A i \in 1 .. n : head[i] = rest[i]
  <2>1. 1 \in 1 .. Len(rest) + 1 /\ n \in 0 .. Len(rest)
    BY <1>1
  <2>. QED BY <1>1, <2>1, SubSeqProperties
<1>3. /\ tail \in Seq(Nat) /\ Len(tail) = Len(rest) - n
      /\ \A i \in 1 .. Len(tail) : tail[i] = rest[n + i]
  <2>1. n + 1 \in 1 .. Len(rest) + 1 /\ Len(rest) \in n .. Len(rest)
    BY <1>1
  <2>2. /\ tail \in Seq(Nat)
        /\ Len(tail) = IF n + 1 <= Len(rest) THEN Len(rest) - (n + 1) + 1 ELSE 0
        /\ \A i \in 1 .. Len(rest) - (n + 1) + 1 : tail[i] = rest[n + 1 + i - 1]
    BY <1>1, <2>1, SubSeqProperties
  <2>. HIDE DEF tail
  <2>3. Len(tail) = Len(rest) - n
    BY <1>1, <2>2
  <2>4. ASSUME NEW i \in 1 .. Len(tail) PROVE tail[i] = rest[n + i]
    <3>1. i \in 1 .. Len(rest) - (n + 1) + 1 /\ n + 1 + i - 1 = n + i
      BY <1>1, <2>3
    <3>. QED BY <2>2, <3>1
  <2>. QED BY <2>2, <2>3, <2>4
<1>. HIDE DEF head, tail
<1>4. /\ out \in Seq(Nat) /\ Len(out) = Len(lead) + n
      /\ \A i \in 1 .. Len(lead) + n : out[i] = IF i <= Len(lead) THEN lead[i] ELSE head[i - Len(lead)]
  BY <1>1, <1>2, ConcatProperties
<1>. HIDE DEF out
<1>5. ASSUME NEW i \in 1 .. Len(out) PROVE out[i] = i
  <2>0. i \in Nat /\ i >= 1 /\ i <= Len(lead) + n /\ i \in 1 .. Len(lead) + n
    BY <1>1, <1>4
  <2>1. CASE i <= Len(lead)
    <3>1. out[i] = lead[i]
      BY <1>4, <2>0, <2>1
    <3>2. i \in 1 .. Len(lead)
      BY <1>1, <2>0, <2>1
    <3>. QED BY <1>1, <3>1, <3>2
  <2>2. CASE ~ (i <= Len(lead))
    <3>1. i - Len(lead) \in 1 .. n /\ i - Len(lead) \in 1 .. Len(rest)
      BY <1>1, <1>4, <2>2
    <3>2. out[i] = rest[i - Len(lead)]
      BY <1>2, <1>4, <2>2, <3>1
    <3>3. rest[i - Len(lead)] = Len(lead) + (i - Len(lead))
      BY <1>1, <3>1
    <3>. QED BY <1>1, <3>2, <3>3
  <2>. QED BY <2>1, <2>2
<1>6. ASSUME NEW i \in 1 .. Len(tail) PROVE tail[i] = Len(out) + i
  <2>1. n + i \in 1 .. Len(rest)
    BY <1>1, <1>3
  <2>2. rest[n + i] = Len(lead) + (n + i)
    BY <1>1, <2>1
  <2>. QED BY <1>1, <1>3, <1>4, <2>2
<1>7. Len(out) + Len(tail) = lines
  <2>1. Len(out) = Len(lead) + n /\ Len(tail) = Len(rest) - n
    BY <1>3, <1>4
  <2>2. Len(lead) \in Nat /\ Len(rest) \in Nat /\ n \in Nat /\ Len(lead) + Len(rest) = lines
    BY <1>1
  <2>. QED BY <2>1, <2>2
<1>. QED BY <1>1, <1>3, <1>4, <1>5, <1>6, <1>7 DEF Numbered, head, tail, out

LEMMA PushNumbered ==
  ASSUME NEW lead, NEW rest, NEW lines, Numbered(lead, rest, lines), NEW k \in Nat
  PROVE  Numbered(lead, rest \o [i \in 1 .. k |-> lines + i], lines + k)
<1>. DEFINE more == [i \in 1 .. k |-> lines + i]
            all == rest \o more
<1>1. /\ lines \in Nat /\ lead \in Seq(Nat) /\ rest \in Seq(Nat) /\ Len(lead) \in Nat /\ Len(rest) \in Nat
      /\ Len(lead) + Len(rest) = lines
      /\ \A i \in 1 .. Len(lead) : lead[i] = i
      /\ \A i \in 1 .. Len(rest) : rest[i] = Len(lead) + i
  BY LenProperties DEF Numbered
<1>2. more \in Seq(Nat) /\ Len(more) = k /\ \A i \in 1 .. k : more[i] = lines + i
  BY <1>1
<1>. HIDE DEF more
<1>3. /\ all \in Seq(Nat) /\ Len(all) = Len(rest) + k
      /\ \A i \in 1 .. Len(rest) + k : all[i] = IF i <= Len(rest) THEN rest[i] ELSE more[i - Len(rest)]
  BY <1>1, <1>2, ConcatProperties
<1>. HIDE DEF all
<1>4. ASSUME NEW i \in 1 .. Len(all) PROVE all[i] = Len(lead) + i
  <2>0. i \in Nat /\ i >= 1 /\ i <= Len(rest) + k /\ i \in 1 .. Len(rest) + k
    BY <1>1, <1>3
  <2>1. CASE i <= Len(rest)
    <3>1. all[i] = rest[i]
      BY <1>3, <2>0, <2>1
    <3>2. i \in 1 .. Len(rest)
      BY <1>1, <2>0, <2>1
    <3>. QED BY <1>1, <3>1, <3>2
  <2>2. CASE ~ (i <= Len(rest))
    <3>1. i - Len(rest) \in 1 .. k
      BY <1>1, <2>0, <2>2
    <3>2. all[i] = lines + (i - Len(rest))
      BY <1>2, <1>3, <2>0, <2>2, <3>1
    <3>3. Len(lead) + Len(rest) = lines /\ Len(lead) \in Nat /\ Len(rest) \in Nat
      BY <1>1
    <3>. QED BY <2>0, <3>2, <3>3
  <2>. QED BY <2>1, <2>2
<1>5. lines + k \in Nat /\ Len(lead) + Len(all) = lines + k
  <2>1. Len(all) = Len(rest) + k
    BY <1>3
  <2>2. Len(lead) \in Nat /\ Len(rest) \in Nat /\ lines \in Nat /\ Len(lead) + Len(rest) = lines
    BY <1>1
  <2>. QED BY <2>1, <2>2
<1>. QED BY <1>1, <1>3, <1>4, <1>5 DEF Numbered, all, more

LEMMA EchoNumbered ==
  ASSUME NEW lead, NEW lines, Numbered(lead, << >>, lines)
  PROVE  Numbered(Append(lead, lines + 1), << >>, lines + 1)
<1>. DEFINE out == Append(lead, lines + 1)
<1>1. lines \in Nat /\ lead \in Seq(Nat) /\ Len(lead) = lines /\ \A i \in 1 .. Len(lead) : lead[i] = i
  BY DEF Numbered
<1>2. out \in Seq(Nat) /\ Len(out) = lines + 1 /\ out[lines + 1] = lines + 1
      /\ \A i \in 1 .. lines : out[i] = lead[i]
  <2>1. lines + 1 \in Nat
    BY <1>1
  <2>. QED BY <1>1, <2>1, AppendProperties
<1>. HIDE DEF out
<1>3. ASSUME NEW i \in 1 .. Len(out) PROVE out[i] = i
  BY <1>1, <1>2
<1>4. << >> \in Seq(Nat) /\ Len(<< >>) = 0
  OBVIOUS
<1>. QED BY <1>1, <1>2, <1>3, <1>4 DEF Numbered, out

LEMMA NumberedInOrder ==
  ASSUME NEW lead, NEW rest, NEW lines, Numbered(lead, rest, lines)
  PROVE  lead \o rest = [i \in 1 .. lines |-> i]
<1>. DEFINE all == lead \o rest
<1>1. /\ lines \in Nat /\ lead \in Seq(Nat) /\ rest \in Seq(Nat) /\ Len(lead) \in Nat /\ Len(rest) \in Nat
      /\ Len(lead) + Len(rest) = lines
      /\ \A i \in 1 .. Len(lead) : lead[i] = i
      /\ \A i \in 1 .. Len(rest) : rest[i] = Len(lead) + i
  BY LenProperties DEF Numbered
<1>2. /\ all \in Seq(Nat) /\ Len(all) = lines
      /\ \A i \in 1 .. lines : all[i] = IF i <= Len(lead) THEN lead[i] ELSE rest[i - Len(lead)]
  BY <1>1, ConcatProperties
<1>. HIDE DEF all
<1>3. ASSUME NEW i \in 1 .. lines PROVE all[i] = i
  <2>1. CASE i <= Len(lead)
    <3>1. all[i] = lead[i]
      BY <1>2, <2>1
    <3>2. i \in 1 .. Len(lead)
      BY <1>1, <2>1
    <3>. QED BY <1>1, <3>1, <3>2
  <2>2. CASE ~ (i <= Len(lead))
    <3>1. i - Len(lead) \in 1 .. Len(rest)
      BY <1>1, <2>2
    <3>2. all[i] = Len(lead) + (i - Len(lead))
      BY <1>1, <1>2, <2>2, <3>1
    <3>. QED BY <1>1, <3>2
  <2>. QED BY <2>1, <2>2
<1>4. all = [i \in 1 .. lines |-> all[i]]
  BY <1>2
<1>. QED BY <1>3, <1>4 DEF all

\* A console's record with some of its fields replaced.
LEMMA ConsoleReplaced ==
  ASSUME NEW c, c = [buffer |-> c.buffer, shown |-> c.shown, paused |-> c.paused,
                     input |-> c.input, full |-> c.full, viewing |-> c.viewing],
         NEW b, NEW s, NEW p, NEW i
  PROVE  /\ [c EXCEPT !.buffer = b] =
              [buffer |-> b, shown |-> c.shown, paused |-> c.paused,
               input |-> c.input, full |-> c.full, viewing |-> c.viewing]
         /\ [c EXCEPT !.shown = s, !.buffer = b] =
              [buffer |-> b, shown |-> s, paused |-> c.paused,
               input |-> c.input, full |-> c.full, viewing |-> c.viewing]
         /\ [c EXCEPT !.paused = p, !.input = i] =
              [buffer |-> c.buffer, shown |-> c.shown, paused |-> p,
               input |-> i, full |-> c.full, viewing |-> c.viewing]
<1>1. [c EXCEPT !.buffer = b] =
        [buffer |-> b, shown |-> c.shown, paused |-> c.paused,
         input |-> c.input, full |-> c.full, viewing |-> c.viewing]
  OBVIOUS
<1>2. [c EXCEPT !.shown = s, !.buffer = b] =
        [buffer |-> b, shown |-> s, paused |-> c.paused,
         input |-> c.input, full |-> c.full, viewing |-> c.viewing]
  <2>. DEFINE d == [c EXCEPT !.shown = s]
  <2>1. d = [buffer |-> c.buffer, shown |-> s, paused |-> c.paused,
             input |-> c.input, full |-> c.full, viewing |-> c.viewing]
    OBVIOUS
  <2>2. [c EXCEPT !.shown = s, !.buffer = b] = [d EXCEPT !.buffer = b]
    OBVIOUS
  <2>. HIDE DEF d
  <2>3. [d EXCEPT !.buffer = b] =
          [buffer |-> b, shown |-> s, paused |-> c.paused,
           input |-> c.input, full |-> c.full, viewing |-> c.viewing]
    BY <2>1
  <2>. QED BY <2>2, <2>3
<1>3. [c EXCEPT !.paused = p, !.input = i] =
        [buffer |-> c.buffer, shown |-> c.shown, paused |-> p,
         input |-> i, full |-> c.full, viewing |-> c.viewing]
  <2>. DEFINE d == [c EXCEPT !.paused = p]
  <2>1. d = [buffer |-> c.buffer, shown |-> c.shown, paused |-> p,
             input |-> c.input, full |-> c.full, viewing |-> c.viewing]
    OBVIOUS
  <2>2. [c EXCEPT !.paused = p, !.input = i] = [d EXCEPT !.input = i]
    OBVIOUS
  <2>. HIDE DEF d
  <2>3. [d EXCEPT !.input = i] =
          [buffer |-> c.buffer, shown |-> c.shown, paused |-> p,
           input |-> i, full |-> c.full, viewing |-> c.viewing]
    BY <2>1
  <2>. QED BY <2>2, <2>3
<1>. QED BY <1>1, <1>2, <1>3

LEMMA LinesShown ==
  ASSUME NEW c, NEW lines, ConsoleLines(c, lines), NEW n \in 0 .. Len(c.buffer)
  PROVE  /\ ConsoleLines(Shows(c, n), lines)
         /\ Shows(c, n).paused = c.paused /\ Shows(c, n).input = c.input
         /\ Shows(c, n).full = c.full
<1>. DEFINE head == c.shown \o SubSeq(c.buffer, 1, n)
            tail == SubSeq(c.buffer, n + 1, Len(c.buffer))
<1>1. Numbered(head, tail, lines)
  BY ShowsNumbered DEF ConsoleLines
<1>2. c = [buffer |-> c.buffer, shown |-> c.shown, paused |-> c.paused,
           input |-> c.input, full |-> c.full, viewing |-> c.viewing]
  BY DEF ConsoleLines
<1>. DEFINE d == [buffer |-> tail, shown |-> head, paused |-> c.paused,
                  input |-> c.input, full |-> c.full, viewing |-> c.viewing]
<1>3. Shows(c, n) = d
  <2>1. Shows(c, n) = [c EXCEPT !.shown = head, !.buffer = tail]
    BY DEF Shows
  <2>. HIDE DEF head, tail
  <2>. QED BY <1>2, <2>1, ConsoleReplaced
<1>. HIDE DEF head, tail
<1>. QED BY <1>1, <1>3 DEF ConsoleLines

LEMMA BuffersAreFinite ==
  ASSUME NEW c, NEW lines, ConsoleLines(c, lines)
  PROVE  c.buffer \in Seq(Nat) /\ Len(c.buffer) \in Nat
BY LenProperties DEF ConsoleLines, Numbered

LEMMA UnpausedGood ==
  ASSUME NEW c, NEW lines, ConsoleLines(c, lines), NEW n \in 0 .. Len(c.buffer)
  PROVE  /\ ConsoleLines(ConsoleBufferTryUnpause(c, n), lines)
         /\ PausesToShow(ConsoleBufferTryUnpause(c, n))
         /\ ConsoleBufferTryUnpause(c, n).input = NoInput
<1>. DEFINE d == Shows(c, n)
            e == [d EXCEPT !.paused = d.buffer # << >>, !.input = NoInput]
<1>1. ConsoleLines(d, lines)
  BY LinesShown
<1>2. ConsoleBufferTryUnpause(c, n) = e
  BY DEF ConsoleBufferTryUnpause
<1>. HIDE DEF d
<1>3. d = [buffer |-> d.buffer, shown |-> d.shown, paused |-> d.paused,
           input |-> d.input, full |-> d.full, viewing |-> d.viewing]
  BY <1>1 DEF ConsoleLines
<1>4. PICK waits : /\ e = [buffer |-> d.buffer, shown |-> d.shown, paused |-> waits,
                           input |-> NoInput, full |-> d.full, viewing |-> d.viewing]
                   /\ waits <=> d.buffer # << >>
  <2>. DEFINE waits == d.buffer # << >>
  <2>1. e = [d EXCEPT !.paused = waits, !.input = NoInput] /\ (waits <=> d.buffer # << >>)
    OBVIOUS
  <2>. HIDE DEF e, waits
  <2>2. [d EXCEPT !.paused = waits, !.input = NoInput] =
          [buffer |-> d.buffer, shown |-> d.shown, paused |-> waits,
           input |-> NoInput, full |-> d.full, viewing |-> d.viewing]
    BY <1>3, ConsoleReplaced
  <2>. QED BY <2>1, <2>2
<1>. HIDE DEF e
<1>5. ConsoleLines(e, lines)
  BY <1>1, <1>4 DEF ConsoleLines
<1>6. e.input = NoInput /\ (e.paused <=> e.buffer # << >>)
  BY <1>4
<1>. QED BY <1>2, <1>5, <1>6 DEF PausesToShow

LEMMA PushedLines ==
  ASSUME NEW c, NEW lines, ConsoleLines(c, lines), NEW k \in Nat
  PROVE  /\ ConsoleLines(ConsoleBufferPush(c, [i \in 1 .. k |-> lines + i]), lines + k)
         /\ ConsoleBufferPush(c, [i \in 1 .. k |-> lines + i]).paused = c.paused
<1>. DEFINE more == [i \in 1 .. k |-> lines + i]
            all == c.buffer \o more
            d == [c EXCEPT !.buffer = @ \o more]
            n == IF Len(d.buffer) > BufferLines THEN Len(d.buffer) - BufferLines ELSE 0
<1>1. Numbered(c.shown, all, lines + k)
  BY PushNumbered DEF ConsoleLines
<1>2. ConsoleBufferPush(c, more) = Shows(d, n)
  BY DEF ConsoleBufferPush
<1>. HIDE DEF more
<1>3. c = [buffer |-> c.buffer, shown |-> c.shown, paused |-> c.paused,
           input |-> c.input, full |-> c.full, viewing |-> c.viewing]
  BY DEF ConsoleLines
<1>4. d = [buffer |-> all, shown |-> c.shown, paused |-> c.paused,
           input |-> c.input, full |-> c.full, viewing |-> c.viewing]
  <2>1. d = [c EXCEPT !.buffer = all]
    OBVIOUS
  <2>. HIDE DEF d, all
  <2>. QED BY <1>3, <2>1, ConsoleReplaced
<1>. HIDE DEF d, all
<1>5. ConsoleLines(d, lines + k) /\ d.paused = c.paused
  BY <1>1, <1>4 DEF ConsoleLines
<1>6. n \in 0 .. Len(d.buffer)
  BY <1>5, BuffersAreFinite, SessionAssumption
<1>. HIDE DEF n
<1>7. ConsoleLines(Shows(d, n), lines + k) /\ Shows(d, n).paused = d.paused
  BY <1>5, <1>6, LinesShown
<1>. QED BY <1>2, <1>5, <1>7 DEF more

LEMMA EchoedLines ==
  ASSUME ConsoleInv, ~ Waits
  PROVE  /\ ConsoleLines(Echoed, said + 1)
         /\ Echoed.buffer = << >> /\ Echoed.paused = console.paused /\ ~ console.paused
         /\ said \in Nat
<1>1. /\ console = [buffer |-> console.buffer, shown |-> console.shown, paused |-> console.paused,
                    input |-> console.input, full |-> console.full, viewing |-> console.viewing]
      /\ Numbered(console.shown, << >>, said) /\ console.buffer = << >> /\ ~ console.paused
  BY DEF ConsoleInv, ConsoleLines, PausesToShow, Waits
<1>. DEFINE out == Append(console.shown, said + 1)
<1>2. Numbered(out, << >>, said + 1)
  BY <1>1, EchoNumbered
<1>. HIDE DEF out
<1>3. Echoed = [buffer |-> << >>, shown |-> out, paused |-> console.paused,
                input |-> console.input, full |-> console.full, viewing |-> console.viewing]
  BY <1>1 DEF Echoed, out
<1>. QED BY <1>1, <1>2, <1>3 DEF ConsoleLines, Numbered

\* What a command prints is shown, or waits under the prompt.
LEMMA PrintedInOrder ==
  ASSUME ConsoleInv, ~ Waits, NEW k \in Nat, Prints(k)
  PROVE  ConsoleInv'
<1>. DEFINE more == [i \in 1 .. k |-> said + 1 + i]
            p == ConsoleBufferPush(Echoed, more)
            c == IF k = 0 THEN Echoed ELSE ConsoleUpdate(p)
<1>1. /\ ConsoleLines(Echoed, said + 1)
      /\ ~ Echoed.paused /\ Echoed.buffer = << >> /\ said \in Nat
  BY EchoedLines
<1>2. ConsoleLines(c, said + 1 + k) /\ (c.paused <=> c.buffer # << >>) /\ (c.paused => c.input = NoInput)
  <2>1. CASE k = 0
    <3>1. c = Echoed /\ said + 1 + k = said + 1
      BY <1>1, <2>1
    <3>. QED BY <1>1, <3>1
  <2>2. CASE k # 0
    <3>1. ConsoleLines(p, said + 1 + k) /\ ~ p.paused
      <4>1. said + 1 \in Nat
        BY <1>1
      <4>. QED BY <1>1, <4>1, PushedLines
    <3>2. Least(Len(p.buffer), Page(p)) \in 0 .. Len(p.buffer)
      BY <3>1, BuffersAreFinite, SessionAssumption DEF Least, Page
    <3>. HIDE DEF p
    <3>3. c = ConsoleBufferTryUnpause(p, Least(Len(p.buffer), Page(p)))
      BY <2>2, <3>1 DEF ConsoleUpdate
    <3>. QED BY <3>1, <3>2, <3>3, UnpausedGood DEF PausesToShow
  <2>. QED BY <2>1, <2>2
<1>3. console' = (IF c.paused THEN c ELSE [c EXCEPT !.input = NoInput]) /\ said' = said + 1 + k
  BY DEF Prints
<1>. HIDE DEF c
<1>4. CASE c.paused
  BY <1>2, <1>3, <1>4 DEF ConsoleInv, PausesToShow
<1>5. CASE ~ c.paused
  <2>1. c = [buffer |-> c.buffer, shown |-> c.shown, paused |-> c.paused,
             input |-> c.input, full |-> c.full, viewing |-> c.viewing]
        /\ Numbered(c.shown, c.buffer, said + 1 + k)
    BY <1>2 DEF ConsoleLines
  <2>2. console' = [buffer |-> c.buffer, shown |-> c.shown, paused |-> c.paused,
                    input |-> NoInput, full |-> c.full, viewing |-> c.viewing]
    BY <1>3, <1>5, <2>1
  <2>3. ConsoleLines(console', said')
    BY <1>3, <2>1, <2>2 DEF ConsoleLines
  <2>4. ~ console'.paused /\ console'.buffer = << >> /\ console'.input = NoInput
    BY <1>2, <1>5, <2>2
  <2>. QED BY <2>3, <2>4 DEF ConsoleInv, PausesToShow
<1>. QED BY <1>4, <1>5

LEMMA StepsSet ==
  ASSUME NEW s, Steps(s), NEW n \in Int
  PROVE  /\ [s EXCEPT !.steps = n] = [steps |-> n, force |-> s.force, skip |-> s.skip]
         /\ Steps([s EXCEPT !.steps = n])
<1>1. s = [steps |-> s.steps, force |-> s.force, skip |-> s.skip]
      /\ s.steps \in Int /\ s.force \in BOOLEAN /\ s.skip.len \in Int
  BY DEF Steps
<1>2. [s EXCEPT !.steps = n] = [steps |-> n, force |-> s.force, skip |-> s.skip]
  BY <1>1
<1>. QED BY <1>1, <1>2 DEF Steps

LEMMA ForceSet ==
  ASSUME NEW s, Steps(s), NEW f \in BOOLEAN
  PROVE  /\ [s EXCEPT !.force = f] = [steps |-> s.steps, force |-> f, skip |-> s.skip]
         /\ Steps([s EXCEPT !.force = f])
<1>1. s = [steps |-> s.steps, force |-> s.force, skip |-> s.skip]
      /\ s.steps \in Int /\ s.force \in BOOLEAN /\ s.skip.len \in Int
  BY DEF Steps
<1>2. [s EXCEPT !.force = f] = [steps |-> s.steps, force |-> f, skip |-> s.skip]
  BY <1>1
<1>. QED BY <1>1, <1>2 DEF Steps

LEMMA StepsAsked ==
  ASSUME NEW s, Steps(s)
  PROVE  AskedSteps(s) \in Int /\ (s.skip.len <= 0 => AskedSteps(s) = s.steps)
BY DEF Steps, AskedSteps

LEMMA TurnsMade ==
  ASSUME NEW s, Steps(s), NEW mode, NEW t, t = Continued(s, mode)
  PROVE  TurnMade(s, t)
<1>. DEFINE asked == AskedSteps(s)
            r == [s EXCEPT !.steps = asked]
            check == CheckBreakOpcode(debugCpu.pc)
            after == ContinuedMode(s, mode)
            left == IF asked > 0 THEN asked - 1 ELSE asked
<1>1. asked \in Int
  BY StepsAsked
<1>2. t = Turn(r, after, ~ s.force /\ check, FALSE)
  BY DEF Continued
<1>3. r = [steps |-> asked, force |-> s.force, skip |-> s.skip] /\ Steps(r)
  BY <1>1, StepsSet
<1>4. s.force \in BOOLEAN /\ s.skip.len \in Int
  BY DEF Steps
<1>. HIDE DEF asked, r, check, after
<1>5. r.steps = asked /\ r.force = s.force /\ r.skip = s.skip
  BY <1>3
<1>6. CASE asked = 0 /\ s.force = FALSE
  <2>1. t = [s |-> r, mode |-> "debug", ran |-> FALSE, hit |-> FALSE]
    BY <1>2, <1>5, <1>6 DEF Turn
  <2>. QED BY <1>1, <1>3, <1>5, <1>6, <2>1 DEF TurnMade, asked
<1>7. CASE ~ (asked = 0 /\ s.force = FALSE) /\ s.force = FALSE /\ check
  <2>1. t = [s |-> [r EXCEPT !.force = TRUE], mode |-> after, ran |-> FALSE, hit |-> TRUE]
    BY <1>2, <1>5, <1>7 DEF Turn
  <2>2. [r EXCEPT !.force = TRUE] = [steps |-> asked, force |-> TRUE, skip |-> s.skip]
        /\ Steps([r EXCEPT !.force = TRUE])
    BY <1>3, <1>5, ForceSet
  <2>. QED BY <1>1, <1>7, <2>1, <2>2 DEF TurnMade, asked
<1>8. CASE ~ (asked = 0 /\ s.force = FALSE) /\ ~ (s.force = FALSE /\ check)
  <2>. DEFINE u == [r EXCEPT !.steps = left, !.force = FALSE]
              m == IF left = 0 THEN "debug" ELSE IF after = "debug" THEN "stepping" ELSE after
  <2>1. t = [s |-> u, mode |-> m, ran |-> TRUE, hit |-> FALSE]
    BY <1>2, <1>4, <1>5, <1>8 DEF Turn
  <2>2. left \in Int /\ (asked > 0 => left = asked - 1) /\ (asked <= 0 => left = asked)
    BY <1>1
  <2>3. left = 0 => m = "debug"
    OBVIOUS
  <2>. HIDE DEF left, m
  <2>4. u = [steps |-> left, force |-> FALSE, skip |-> s.skip] /\ Steps(u)
    <3>. DEFINE v == [r EXCEPT !.steps = left]
    <3>1. v = [steps |-> left, force |-> s.force, skip |-> s.skip] /\ Steps(v)
      BY <1>3, <1>5, <2>2, StepsSet
    <3>2. u = [v EXCEPT !.force = FALSE]
      OBVIOUS
    <3>. HIDE DEF v, u
    <3>3. v.steps = left /\ v.skip = s.skip
      BY <3>1
    <3>. QED BY <3>1, <3>2, <3>3, ForceSet
  <2>. HIDE DEF u
  <2>5. /\ t.s = u /\ t.mode = m /\ t.ran = TRUE /\ t.hit = FALSE
        /\ u.steps = left /\ u.force = FALSE /\ u.skip = s.skip /\ Steps(u)
    BY <2>1, <2>4
  <2>6. s.force = FALSE => ~ CheckBreakOpcode(debugCpu.pc)
    BY <1>8 DEF check
  <2>. QED BY <1>1, <2>2, <2>3, <2>5, <2>6 DEF TurnMade, asked
<1>. QED BY <1>4, <1>6, <1>7, <1>8

\* A turn never runs an instruction to stop at that was not announced.
LEMMA TurnsPass ==
  ASSUME PassInv, NEW s, NEW t, TurnMade(s, t), s.force = stepping.force, Ran(t),
         stepping.force \in BOOLEAN
  PROVE  (t.s.force = TRUE => strayed' \/ announced' = debugCpu'.pc) /\ ~ unannounced'
<1>1. ~ unannounced /\ (stepping.force => strayed \/ announced = debugCpu.pc)
  BY DEF PassInv
<1>2. /\ debugCpu' = IF t.ran THEN cpu_step(debugCpu) ELSE debugCpu
      /\ announced' = IF t.hit THEN debugCpu.pc ELSE IF t.ran THEN NoAddress ELSE announced
      /\ unannounced' = (unannounced \/ (t.ran /\ CheckBreakOpcode(debugCpu.pc)
                                           /\ announced # debugCpu.pc /\ ~strayed))
  BY DEF Ran
<1>3. CASE t.ran = FALSE /\ t.hit = FALSE /\ t.s.force = FALSE
  BY <1>1, <1>2, <1>3
<1>4. CASE t.ran = FALSE /\ t.hit = TRUE
  <2>1. announced' = debugCpu.pc /\ debugCpu' = debugCpu /\ ~ unannounced'
    BY <1>1, <1>2, <1>4
  <2>. QED BY <2>1
<1>5. CASE /\ t.ran = TRUE /\ t.hit = FALSE /\ t.s.force = FALSE
           /\ s.force = FALSE => ~ CheckBreakOpcode(debugCpu.pc)
  <2>1. ~ unannounced'
    BY <1>1, <1>2, <1>5
  <2>. QED BY <1>5, <2>1
<1>. QED BY <1>3, <1>4, <1>5 DEF TurnMade

LEMMA WindowSet ==
  ASSUME NEW s, Steps(s), NEW n \in Int, NEW k, k.len \in Int
  PROVE  /\ [s EXCEPT !.steps = n, !.skip = k] = [steps |-> n, force |-> s.force, skip |-> k]
         /\ Steps([s EXCEPT !.steps = n, !.skip = k])
<1>. DEFINE u == [s EXCEPT !.steps = n]
            v == [s EXCEPT !.steps = n, !.skip = k]
<1>1. u = [steps |-> n, force |-> s.force, skip |-> s.skip] /\ s.force \in BOOLEAN
  BY StepsSet DEF Steps
<1>2. v = [u EXCEPT !.skip = k]
  OBVIOUS
<1>. HIDE DEF u, v
<1>3. v = [steps |-> n, force |-> s.force, skip |-> k]
  BY <1>1, <1>2
<1>4. Steps(v)
  BY <1>1, <1>3 DEF Steps
<1>. QED BY <1>3, <1>4 DEF v

LEMMA WindowsMeasured ==
  ASSUME NEW c \in SessionCommands, c.op = "go", c.form # "help"
  PROVE  SkipWindow(c).len \in Int
<1>1. c.form \in {"none", "comma", "colon"} /\ c.start \in Nat /\ c.arg \in Nat
  BY SessionAssumption
<1>2. CASE c.form = "none"
  BY <1>2 DEF SkipWindow, NoSkip
<1>3. CASE c.form = "comma"
  <2>. DEFINE n == Least(c.start + c.arg, 65536) - c.start
  <2>1. n \in Int
    BY <1>1 DEF Least
  <2>2. SkipWindow(c).len = n % 65536
    BY <1>3 DEF SkipWindow
  <2>. HIDE DEF n
  <2>. QED BY <2>1, <2>2
<1>4. CASE c.form = "colon"
  <2>. DEFINE n == c.arg + 1 - c.start
              m == IF n < 0 THEN -n ELSE n
  <2>1. m \in Int
    BY <1>1
  <2>2. SkipWindow(c).len = m % 65536
    BY <1>4 DEF SkipWindow
  <2>. HIDE DEF m
  <2>. QED BY <2>1, <2>2
<1>. QED BY <1>1, <1>2, <1>3, <1>4

\* Continuing leaves steps to make, or the debugger at rest.
LEMMA StepsTaken ==
  ASSUME PassInv, stepping.force \in BOOLEAN, NEW s, Steps(s), s.force = stepping.force,
         NEW mode, DebugContinueStepping(s, mode)
  PROVE  Steps(stepping') /\ StepsRemain' /\ PassInv' /\ \E t : TurnMade(s, t) /\ t.s = stepping'
<1>. DEFINE t == Continued(s, mode)
<1>1. stepping' = t.s /\ debugMode' = t.mode /\ Ran(t)
  BY DEF DebugContinueStepping
<1>2. TurnMade(s, t)
  BY TurnsMade
<1>. HIDE DEF t
<1>3. (t.s.force = TRUE => strayed' \/ announced' = debugCpu'.pc) /\ ~ unannounced'
  BY <1>1, <1>2, TurnsPass
<1>4. Steps(t.s) /\ t.s.force \in BOOLEAN
  BY <1>2 DEF TurnMade, Steps
<1>5. PassInv'
  BY <1>1, <1>3, <1>4 DEF PassInv
<1>6. t.mode = "stepping" => t.s.steps # 0 \/ t.s.force = TRUE
  BY <1>2 DEF TurnMade
<1>7. StepsRemain'
  BY <1>1, <1>6 DEF StepsRemain
<1>. QED BY <1>1, <1>2, <1>4, <1>5, <1>7

LEMMA SteppingKept ==
  ASSUME SteppingInv, PassInv, SteppingAlone, ~ Busy,
         stepOver' = stepOver \/ stepOver'.turns = -1,
         debugMode' = debugMode \/ debugMode' # "stepping"
  PROVE  SteppingInv' /\ PassInv'
<1>1. UNCHANGED <<stepping, debugCpu, announced, strayed, unannounced>>
  BY DEF SteppingAlone, HistoryAlone
<1>2. PassInv'
  BY <1>1 DEF PassInv
<1>3. StepsRemain' /\ Steps(stepping')
  BY <1>1 DEF SteppingInv, StepsRemain
<1>4. LoopInv'
  BY <1>1 DEF SteppingInv, LoopInv, Busy, InLoop
<1>. QED BY <1>2, <1>3, <1>4 DEF SteppingInv

LEMMA ConsoleKept ==
  ASSUME ConsoleInv, ConsoleAlone
  PROVE  ConsoleInv'
BY DEF ConsoleInv, ConsoleAlone, ConsoleLines, PausesToShow

\* The commands that step set the counters and leave the loop to its end.
LEMMA WindowOpened ==
  ASSUME SteppingInv, PassInv, HistoryAlone, ~ Busy, NEW k, k.len \in Int,
         stepping' = [stepping EXCEPT !.steps = -1, !.skip = k],
         UNCHANGED <<debugCpu, stepOver>>
  PROVE  SteppingInv' /\ PassInv'
<1>1. stepping' = [steps |-> -1, force |-> stepping.force, skip |-> k] /\ Steps(stepping')
  <2>1. Steps(stepping) /\ -1 \in Int
    BY DEF SteppingInv
  <2>. QED BY <2>1, WindowSet
<1>2. StepsRemain'
  BY <1>1 DEF StepsRemain
<1>3. PassInv'
  BY <1>1 DEF PassInv, HistoryAlone
<1>4. LoopInv'
  BY DEF SteppingInv, LoopInv, Busy, InLoop
<1>. QED BY <1>1, <1>2, <1>3, <1>4 DEF SteppingInv

LEMMA ShowsFrame ==
  ASSUME SessionInv, FrameRuns
  PROVE  SessionInv'
<1>1. ConsoleInv'
  BY ConsoleKept DEF SessionInv, FrameRuns
<1>2. SteppingInv'
  BY DEF SessionInv, SteppingInv, StepsRemain, LoopInv, InLoop, FrameRuns
<1>3. PassInv'
  BY DEF SessionInv, PassInv, FrameRuns
<1>. QED BY <1>1, <1>2, <1>3 DEF SessionInv

LEMMA KeysEnterAndLeave ==
  ASSUME SessionInv, handle_btn_debug \/ handle_btn_run
  PROVE  SessionInv'
<1>1. ConsoleAlone /\ SteppingAlone /\ ~ Busy /\ UNCHANGED stepOver
      /\ debugMode' # "stepping"
  BY DEF handle_btn_debug, handle_btn_run, debug_begin, debug_end, SessionStep
<1>. QED BY <1>1, ConsoleKept, SteppingKept DEF SessionInv

LEMMA LoopsOn ==
  ASSUME SessionInv, OverLoop
  PROVE  SessionInv'
<1>1. ConsoleInv'
  BY ConsoleKept DEF SessionInv, OverLoop
<1>2. /\ Steps(stepping) /\ stepping.force \in BOOLEAN /\ StepsRemain /\ LoopInv /\ PassInv /\ InLoop
      /\ OverSteps \in Nat
  BY SessionAssumption DEF SessionInv, SteppingInv, OverLoop, Steps
<1>3. CASE /\ stepping.steps # 0 /\ DebugContinueStepping(stepping, debugMode)
           /\ stepOver' = [stepOver EXCEPT !.turns = Least(@ + 1, 2 * OverSteps + 2)]
  <2>1. /\ Steps(stepping') /\ StepsRemain' /\ PassInv'
        /\ \E t : TurnMade(stepping, t) /\ t.s = stepping'
    BY <1>2, <1>3, StepsTaken
  <2>2. PICK t : TurnMade(stepping, t) /\ t.s = stepping'
    BY <2>1
  <2>3. stepOver'.turns \in Int /\ stepOver'.turns <= stepOver.turns + 1
    BY <1>2, <1>3 DEF LoopInv, Least
  <2>4. ASSUME stepping'.skip.len <= 0
        PROVE  /\ stepping'.steps \in 0 .. OverSteps
               /\ stepping'.force => stepping'.steps # 0
                                     /\ stepOver'.turns <= 2 * (OverSteps - stepping'.steps) + 1
               /\ ~ stepping'.force => stepOver'.turns <= 2 * (OverSteps - stepping'.steps)
    <3>1. stepping.skip.len <= 0 /\ AskedSteps(stepping) = stepping.steps
      BY <1>2, <2>2, <2>4, StepsAsked DEF TurnMade
    <3>2. /\ stepping.steps \in 1 .. OverSteps /\ stepOver.turns \in Int
          /\ stepping.force => stepOver.turns <= 2 * (OverSteps - stepping.steps) + 1
          /\ ~ stepping.force => stepOver.turns <= 2 * (OverSteps - stepping.steps)
      BY <1>2, <1>3, <3>1 DEF LoopInv
    <3>3. CASE stepping.force = FALSE /\ stepping'.force = TRUE /\ stepping'.steps = stepping.steps
      BY <1>2, <2>3, <3>2, <3>3
    <3>4. CASE stepping'.force = FALSE /\ stepping'.steps = stepping.steps - 1
      <4>1. stepOver.turns <= 2 * (OverSteps - stepping.steps) + 1
        BY <1>2, <3>2
      <4>. QED BY <1>2, <2>3, <3>2, <3>4, <4>1
    <3>5. AskedSteps(stepping) \in Int /\ AskedSteps(stepping) > 0
      BY <3>1, <3>2
    <3>6. \/ stepping.force = FALSE /\ t.s.force = TRUE /\ t.s.steps = AskedSteps(stepping)
          \/ t.s.force = FALSE /\ t.s.steps = AskedSteps(stepping) - 1
      BY <2>2, <3>5 DEF TurnMade
    <3>7. \/ stepping.force = FALSE /\ stepping'.force = TRUE /\ stepping'.steps = stepping.steps
          \/ stepping'.force = FALSE /\ stepping'.steps = stepping.steps - 1
      BY <2>2, <3>1, <3>6
    <3>. QED BY <3>3, <3>4, <3>7
  <2>5. LoopInv'
    BY <2>3, <2>4 DEF LoopInv
  <2>. QED BY <1>1, <2>1, <2>5 DEF SessionInv, SteppingInv
<1>4. CASE /\ stepping.steps = 0 /\ stepOver' = [stepOver EXCEPT !.turns = -1]
           /\ SteppingAlone /\ UNCHANGED debugMode
  <2>1. UNCHANGED <<stepping, debugCpu, debugMode, announced, strayed, unannounced>>
    BY <1>4 DEF SteppingAlone, HistoryAlone
  <2>2. PassInv' /\ StepsRemain' /\ Steps(stepping')
    BY <1>2, <2>1 DEF PassInv, StepsRemain
  <2>3. stepOver'.turns = -1
    BY <1>2, <1>4 DEF InLoop
  <2>4. LoopInv'
    BY <2>3 DEF LoopInv, InLoop
  <2>. QED BY <1>1, <2>2, <2>4 DEF SessionInv, SteppingInv
<1>. QED BY <1>3, <1>4 DEF OverLoop

LEMMA IteratesOver ==
  ASSUME SessionInv, OverIteration
  PROVE  SessionInv'
<1>. DEFINE s == [stepping EXCEPT !.steps = 1]
            t == Continued(s, "stepping")
            out == OpAt(debugCpu.pc) = "jsr"
            goes == out /\ debugCpu'.stack # << >>
            n == IF out THEN OverSteps ELSE t.s.steps
            k == IF goes THEN NoSkip ELSE t.s.skip
<1>1. ConsoleInv'
  BY ConsoleKept DEF SessionInv, OverIteration
<1>2. /\ Steps(stepping) /\ stepping.force \in BOOLEAN /\ PassInv /\ LoopInv
      /\ OverSteps \in Nat \ {0}
  BY SessionAssumption DEF SessionInv, SteppingInv, Steps
<1>3. /\ Ran(t) /\ ~ InLoop
      /\ stepping' = [t.s EXCEPT !.steps = n, !.skip = k]
      /\ debugMode' = IF goes THEN "stepping" ELSE t.mode
      /\ stepOver' = [left |-> stepOver.left - 1, turns |-> IF out THEN 0 ELSE -1]
  BY DEF OverIteration
<1>4. Steps(s) /\ s.force = stepping.force
  <2>1. s = [steps |-> 1, force |-> stepping.force, skip |-> stepping.skip] /\ Steps(s)
    BY <1>2, StepsSet
  <2>. QED BY <2>1
<1>5. TurnMade(s, t)
  BY <1>4, TurnsMade
<1>. HIDE DEF s, t, out, goes
<1>6. (t.s.force = TRUE => strayed' \/ announced' = debugCpu'.pc) /\ ~ unannounced'
  BY <1>2, <1>3, <1>4, <1>5, TurnsPass
<1>7. Steps(t.s) /\ t.s.force \in BOOLEAN
  BY <1>5 DEF TurnMade, Steps
<1>8. n \in Int /\ k.len \in Int /\ (out => n = OverSteps) /\ (~ out => n = t.s.steps)
  BY <1>2, <1>7 DEF Steps, NoSkip
<1>. HIDE DEF n, k
<1>9. stepping' = [steps |-> n, force |-> t.s.force, skip |-> k] /\ Steps(stepping')
  BY <1>3, <1>7, <1>8, WindowSet
<1>10. PassInv'
  BY <1>6, <1>7, <1>9 DEF PassInv
<1>11. StepsRemain'
  <2>1. CASE out
    BY <1>2, <1>8, <1>9, <2>1 DEF StepsRemain
  <2>2. CASE ~ out
    <3>1. t.mode = "stepping" => t.s.steps # 0 \/ t.s.force = TRUE
      BY <1>5 DEF TurnMade
    <3>2. debugMode' = t.mode
      BY <1>3, <2>2 DEF goes
    <3>. QED BY <1>8, <1>9, <2>2, <3>1, <3>2 DEF StepsRemain
  <2>. QED BY <2>1, <2>2
<1>12. LoopInv'
  <2>1. CASE out
    <3>1. stepOver'.turns = 0 /\ stepping'.steps = OverSteps
      BY <1>3, <1>8, <1>9, <2>1
    <3>. QED BY <1>2, <3>1 DEF LoopInv
  <2>2. CASE ~ out
    <3>1. stepOver'.turns = -1
      BY <1>3, <2>2
    <3>. QED BY <3>1 DEF LoopInv, InLoop
  <2>. QED BY <2>1, <2>2
<1>. QED BY <1>1, <1>9, <1>10, <1>11, <1>12 DEF SessionInv, SteppingInv

\* Each command prints in order, and leaves the stepping as it may.
LEMMA CommandsExecuted ==
  ASSUME SessionInv, ~ Busy, ~ Waits, NEW c \in SessionCommands, ExecuteCommand(c)
  PROVE  SessionInv'
<1>1. ConsoleInv /\ SteppingInv /\ PassInv
  BY DEF SessionInv
<1>2. CASE c.op = "word" /\ OneWord
  <2>1. Prints(0) /\ SteppingAlone /\ UNCHANGED <<debugMode, stepOver>>
    BY <1>2 DEF OneWord
  <2>. QED BY <1>1, <2>1, PrintedInOrder, SteppingKept DEF SessionInv
<1>3. CASE c.op = "go" /\ CmdGo(c)
  <2>1. HistoryAlone /\ UNCHANGED <<debugCpu, stepOver>>
    BY <1>3 DEF CmdGo
  <2>2. CASE /\ c.form = "help" /\ Prints(2)
             /\ stepping' = [stepping EXCEPT !.steps = -1, !.skip = NoSkip]
    <3>1. NoSkip.len \in Int
      BY DEF NoSkip
    <3>. QED BY <1>1, <2>1, <2>2, <3>1, PrintedInOrder, WindowOpened DEF SessionInv
  <2>3. CASE /\ c.form # "help" /\ Prints(0)
             /\ stepping' = [stepping EXCEPT !.steps = -1, !.skip = SkipWindow(c)]
    <3>1. SkipWindow(c).len \in Int
      BY <1>3, <2>3, WindowsMeasured
    <3>. QED BY <1>1, <2>1, <2>3, <3>1, PrintedInOrder, WindowOpened DEF SessionInv
  <2>. QED BY <1>3, <2>2, <2>3 DEF CmdGo
<1>4. CASE c.op = "out" /\ CmdStepOut
  <2>1. Prints(0) /\ HistoryAlone /\ UNCHANGED <<debugCpu, stepOver>>
    BY <1>4 DEF CmdStepOut
  <2>2. CASE UNCHANGED <<stepping, debugMode>>
    <3>1. SteppingAlone
      BY <2>1, <2>2 DEF SteppingAlone
    <3>. QED BY <1>1, <2>1, <2>2, <3>1, PrintedInOrder, SteppingKept DEF SessionInv
  <2>3. CASE stepping' = [stepping EXCEPT !.steps = -1, !.skip = NoSkip]
    <3>1. NoSkip.len \in Int
      BY DEF NoSkip
    <3>. QED BY <1>1, <2>1, <2>3, <3>1, PrintedInOrder, WindowOpened DEF SessionInv
  <2>. QED BY <1>4, <2>2, <2>3 DEF CmdStepOut
<1>5. CASE c.op = "trace" /\ CmdTrace(c.n)
  <2>. DEFINE s == [stepping EXCEPT !.steps = c.n]
  <2>1. DebugContinueStepping(s, "stepping") /\ Prints(0) /\ UNCHANGED stepOver
    BY <1>5 DEF CmdTrace
  <2>2. c.n \in Int
    BY <1>5, SessionAssumption
  <2>3. Steps(stepping) /\ stepping.force \in BOOLEAN
    BY <1>1 DEF SteppingInv, Steps
  <2>4. Steps(s) /\ s.force = stepping.force
    <3>1. s = [steps |-> c.n, force |-> stepping.force, skip |-> stepping.skip] /\ Steps(s)
      BY <2>2, <2>3, StepsSet
    <3>. QED BY <3>1
  <2>. HIDE DEF s
  <2>5. Steps(stepping') /\ StepsRemain' /\ PassInv'
    BY <1>1, <2>1, <2>3, <2>4, StepsTaken
  <2>6. LoopInv'
    BY <1>1, <2>1 DEF SteppingInv, LoopInv, Busy, InLoop
  <2>7. ConsoleInv'
    BY <1>1, <2>1, PrintedInOrder
  <2>. QED BY <2>5, <2>6, <2>7 DEF SessionInv, SteppingInv
<1>6. CASE c.op = "over" /\ CmdStepOver(c.n)
  <2>1. Prints(0) /\ SteppingAlone /\ UNCHANGED debugMode /\ stepOver'.turns = -1
    BY <1>6 DEF CmdStepOver
  <2>. QED BY <1>1, <2>1, PrintedInOrder, SteppingKept DEF SessionInv
<1>7. CASE c.op \in {"jsr", "pc"} /\ CmdJump(c)
  <2>1. Prints(0) /\ strayed' = TRUE /\ UNCHANGED <<debugMode, stepping, stepOver, unannounced>>
    BY <1>7 DEF CmdJump
  <2>2. PassInv' /\ SteppingInv'
    BY <1>1, <2>1 DEF PassInv, SteppingInv, StepsRemain, LoopInv, Busy, InLoop
  <2>. QED BY <1>1, <2>1, <2>2, PrintedInOrder DEF SessionInv
<1>8. CASE c.op \in {"brk", "brkop"} /\ CmdBreakOn(c)
  <2>1. Prints(0) /\ SteppingAlone /\ UNCHANGED <<debugMode, stepOver>>
    BY <1>8 DEF CmdBreakOn
  <2>. QED BY <1>1, <2>1, PrintedInOrder, SteppingKept DEF SessionInv
<1>9. CASE c.op \in {"tf", "list"} /\ CmdPrints(c)
  <2>. DEFINE k == IF c.op = "tf" THEN 1 ELSE c.lines
  <2>1. Prints(k) /\ SteppingAlone /\ UNCHANGED <<debugMode, stepOver>>
    BY <1>9 DEF CmdPrints
  <2>2. k \in Nat
    BY <1>9, SessionAssumption
  <2>. HIDE DEF k
  <2>. QED BY <1>1, <2>1, <2>2, PrintedInOrder, SteppingKept DEF SessionInv
<1>10. CASE c.op = "view" /\ CmdWindowViewOutput
  <2>1. /\ console' = [Echoed EXCEPT !.input = NoInput, !.viewing = TRUE] /\ said' = said + 1
        /\ SteppingAlone /\ UNCHANGED <<debugMode, stepOver>>
    BY <1>10 DEF CmdWindowViewOutput
  <2>. DEFINE d == [Echoed EXCEPT !.input = NoInput]
  <2>2. ConsoleLines(Echoed, said + 1) /\ Echoed.buffer = << >> /\ Echoed.paused = FALSE
    BY <1>1, EchoedLines DEF ConsoleInv, ConsoleLines
  <2>3. d = [buffer |-> << >>, shown |-> Echoed.shown, paused |-> Echoed.paused,
             input |-> NoInput, full |-> Echoed.full, viewing |-> Echoed.viewing]
    BY <2>2 DEF ConsoleLines
  <2>4. console' = [d EXCEPT !.viewing = TRUE]
    BY <2>1
  <2>. HIDE DEF d
  <2>5. console' = [buffer |-> << >>, shown |-> Echoed.shown, paused |-> Echoed.paused,
                    input |-> NoInput, full |-> Echoed.full, viewing |-> TRUE]
    BY <2>3, <2>4
  <2>6. ConsoleInv'
    BY <2>1, <2>2, <2>5 DEF ConsoleInv, ConsoleLines, PausesToShow
  <2>. QED BY <1>1, <2>1, <2>6, SteppingKept DEF SessionInv
<1>. QED BY <1>2, <1>3, <1>4, <1>5, <1>6, <1>7, <1>8, <1>9, <1>10 DEF ExecuteCommand

LEMMA KeysAtTheConsole ==
  ASSUME SessionInv, SteppingAlone, ~ Busy,
         UNCHANGED <<debugMode, stepOver>>, ConsoleInv'
  PROVE  SessionInv'
BY SteppingKept DEF SessionInv

LEMMA InputSet ==
  ASSUME ConsoleInv, NEW c \in SessionCommands \cup {NoInput}, ~ console.paused,
         console' = [console EXCEPT !.input = c], said' = said
  PROVE  ConsoleInv'
<1>1. /\ console = [buffer |-> console.buffer, shown |-> console.shown, paused |-> console.paused,
                    input |-> console.input, full |-> console.full, viewing |-> console.viewing]
      /\ Numbered(console.shown, console.buffer, said)
      /\ console.buffer # << >> => console.paused
  BY DEF ConsoleInv, ConsoleLines, PausesToShow
<1>2. console' = [buffer |-> console.buffer, shown |-> console.shown, paused |-> console.paused,
                  input |-> c, full |-> console.full, viewing |-> console.viewing]
  BY <1>1
<1>. QED BY <1>1, <1>2 DEF ConsoleInv, ConsoleLines, PausesToShow

LEMMA LooksSet ==
  ASSUME ConsoleInv, said' = said, NEW v,
         \/ console' = [console EXCEPT !.viewing = v]
         \/ console' = [console EXCEPT !.full = v]
  PROVE  ConsoleInv'
<1>1. /\ console = [buffer |-> console.buffer, shown |-> console.shown, paused |-> console.paused,
                    input |-> console.input, full |-> console.full, viewing |-> console.viewing]
      /\ Numbered(console.shown, console.buffer, said) /\ PausesToShow(console)
  BY DEF ConsoleInv, ConsoleLines
<1>2. CASE console' = [console EXCEPT !.viewing = v]
  <2>1. console' = [buffer |-> console.buffer, shown |-> console.shown, paused |-> console.paused,
                    input |-> console.input, full |-> console.full, viewing |-> v]
    BY <1>1, <1>2
  <2>. QED BY <1>1, <2>1 DEF ConsoleInv, ConsoleLines, PausesToShow
<1>3. CASE console' = [console EXCEPT !.full = v]
  <2>1. console' = [buffer |-> console.buffer, shown |-> console.shown, paused |-> console.paused,
                    input |-> console.input, full |-> v, viewing |-> console.viewing]
    BY <1>1, <1>3
  <2>. QED BY <1>1, <2>1 DEF ConsoleInv, ConsoleLines, PausesToShow
<1>. QED BY <1>2, <1>3

LEMMA MoreShown ==
  ASSUME SessionInv, NEW all \in BOOLEAN, ShowsMore(all)
  PROVE  SessionInv'
<1>. DEFINE n == IF all THEN Len(console.buffer) ELSE Least(Len(console.buffer), Page(console))
<1>1. /\ ConsoleInv /\ SteppingAlone /\ ~ Busy /\ said' = said /\ UNCHANGED <<debugMode, stepOver>>
      /\ console' = ConsoleBufferTryUnpause(console, n)
  BY DEF SessionInv, ShowsMore, AtConsole, SessionStep, KeyOnly
<1>2. ConsoleLines(console, said) /\ Len(console.buffer) \in Nat
  BY <1>1, BuffersAreFinite DEF ConsoleInv
<1>3. n \in 0 .. Len(console.buffer)
  BY <1>2, SessionAssumption DEF Least, Page
<1>. HIDE DEF n
<1>4. ConsoleInv'
  BY <1>1, <1>2, <1>3, UnpausedGood DEF ConsoleInv
<1>. QED BY <1>1, <1>4, KeysAtTheConsole

LEMMA ReturnsKeep ==
  ASSUME SessionInv, Return
  PROVE  SessionInv'
<1>1. ~ Busy /\ ~ Waits /\ ConsoleInv /\ SteppingInv /\ PassInv
  BY DEF Return, AtConsole, SessionStep, SessionInv
<1>2. CASE console.input # NoInput /\ ExecuteCommand(console.input)
  <2>1. console.input \in SessionCommands
    BY <1>1, <1>2 DEF ConsoleInv, PausesToShow
  <2>. QED BY <1>1, <1>2, <2>1, CommandsExecuted
<1>3. CASE /\ stepping' = [stepping EXCEPT !.steps = -1, !.skip = NoSkip]
           /\ ConsoleAlone /\ HistoryAlone /\ UNCHANGED <<debugCpu, stepOver>>
  <2>1. NoSkip.len \in Int
    BY DEF NoSkip
  <2>. QED BY <1>1, <1>3, <2>1, WindowOpened, ConsoleKept DEF SessionInv
<1>. QED BY <1>2, <1>3 DEF Return

LEMMA EscapesKeep ==
  ASSUME SessionInv, Escape
  PROVE  SessionInv'
<1>1. ~ Busy /\ ~ Waits /\ ConsoleInv /\ SteppingInv /\ PassInv
  BY DEF Escape, AtConsole, SessionStep, SessionInv
<1>2. CASE console' = [console EXCEPT !.input = NoInput] /\ KeyOnly
  <2>1. ~ console.paused
    BY <1>1 DEF Waits, ConsoleInv, PausesToShow
  <2>2. SteppingAlone /\ said' = said /\ UNCHANGED <<debugMode, stepOver>>
    BY <1>2 DEF KeyOnly
  <2>. QED BY <1>1, <1>2, <2>1, <2>2, InputSet, KeysAtTheConsole
<1>3. CASE debug_end /\ SteppingAlone /\ ConsoleAlone /\ UNCHANGED <<breakOn, stepOver>>
  <2>1. debugMode' # "stepping"
    BY <1>3 DEF debug_end
  <2>. QED BY <1>1, <1>3, <2>1, SteppingKept, ConsoleKept DEF SessionInv
<1>. QED BY <1>2, <1>3 DEF Escape

LEMMA SessionStarts ==
  SessionInit => SessionInv
<1>. SUFFICES ASSUME SessionInit PROVE SessionInv
  OBVIOUS
<1>1. Numbered(<< >>, << >>, 0)
  <2>1. << >> \in Seq(Nat) /\ Len(<< >>) = 0
    OBVIOUS
  <2>. QED BY <2>1 DEF Numbered
<1>2. ConsoleInv
  BY <1>1 DEF SessionInit, ConsoleInv, ConsoleLines, PausesToShow
<1>3. SteppingInv
  BY DEF SessionInit, SteppingInv, Steps, StepsRemain, LoopInv, InLoop
<1>4. PassInv
  BY DEF SessionInit, PassInv
<1>. QED BY <1>2, <1>3, <1>4 DEF SessionInv

\* The debugger's counters, its console and its stops keep to what they are
\* for, whatever the program and the lines typed (DebugContinueStepping,
\* ConsoleBufferPush, ConsoleBufferTryUnpause, CmdStepOver).
THEOREM SessionIsInductive == SessionSpec => []SessionInv
<1>1. SessionInit => SessionInv
  BY SessionStarts
<1>2. SessionInv /\ [SessionNext]_sessionVars => SessionInv'
  <2>. SUFFICES ASSUME SessionInv, [SessionNext]_sessionVars PROVE SessionInv'
    OBVIOUS
  <2>1. CASE FrameRuns
    BY <2>1, ShowsFrame
  <2>2. CASE handle_btn_debug \/ handle_btn_run
    BY <2>2, KeysEnterAndLeave
  <2>3. CASE OverIteration
    BY <2>3, IteratesOver
  <2>4. CASE OverLoop
    BY <2>4, LoopsOn
  <2>5. ASSUME NEW c \in SessionCommands, TypesLine(c) PROVE SessionInv'
    <3>1. /\ ConsoleInv /\ ~ Busy /\ ~ console.paused /\ console' = [console EXCEPT !.input = c]
          /\ SteppingAlone /\ said' = said /\ UNCHANGED <<debugMode, stepOver>>
      BY <2>5 DEF TypesLine, KeyOnly, SessionInv
    <3>. QED BY <3>1, InputSet, KeysAtTheConsole
  <2>6. CASE EndsView
    <3>1. /\ ConsoleInv /\ ~ Busy /\ console' = [console EXCEPT !.viewing = FALSE]
          /\ SteppingAlone /\ said' = said /\ UNCHANGED <<debugMode, stepOver>>
      BY <2>6 DEF EndsView, AtConsole, SessionStep, KeyOnly, SessionInv
    <3>. QED BY <3>1, LooksSet, KeysAtTheConsole
  <2>7. CASE ShowsMore(TRUE) \/ ShowsMore(FALSE)
    BY <2>7, MoreShown
  <2>8. CASE Return
    BY <2>8, ReturnsKeep
  <2>9. CASE Escape
    BY <2>9, EscapesKeep
  <2>10. CASE ToggleFullScreenConsole
    <3>1. /\ ConsoleInv /\ ~ Busy /\ console' = [console EXCEPT !.full = ~@]
          /\ SteppingAlone /\ said' = said /\ UNCHANGED <<debugMode, stepOver>>
      BY <2>10 DEF ToggleFullScreenConsole, AtConsole, SessionStep, KeyOnly, SessionInv
    <3>2. \E v : console' = [console EXCEPT !.full = v]
      BY <3>1
    <3>. QED BY <3>1, <3>2, LooksSet, KeysAtTheConsole
  <2>11. CASE UNCHANGED sessionVars
    <3>1. ConsoleInv'
      BY <2>11 DEF sessionVars, SessionInv, ConsoleInv, ConsoleLines, PausesToShow
    <3>2. SteppingInv'
      BY <2>11 DEF sessionVars, SessionInv, SteppingInv, StepsRemain, LoopInv, InLoop
    <3>3. PassInv'
      BY <2>11 DEF sessionVars, SessionInv, PassInv
    <3>. QED BY <3>1, <3>2, <3>3 DEF SessionInv
  <2>. QED BY <2>1, <2>2, <2>3, <2>4, <2>5, <2>6, <2>7, <2>8, <2>9, <2>10, <2>11 DEF SessionNext
<1>. QED BY <1>1, <1>2, PTL DEF SessionSpec

\* Every line printed is shown or waits, in order and once, and lines wait only
\* under the prompt; the machine stands still only with steps to make; stepping
\* over a subroutine ends but for a window of skipped addresses; an instruction
\* to stop at runs only after a stop at it, or when the pass that stop gave was
\* carried elsewhere.
THEOREM SessionsHold == SessionSpec => []SessionHolds
<1>1. SessionInv => SessionHolds
  <2>. SUFFICES ASSUME SessionInv PROVE SessionHolds
    OBVIOUS
  <2>1. ConsoleInOrder
    <3>1. Numbered(console.shown, console.buffer, said)
      BY DEF SessionInv, ConsoleInv, ConsoleLines
    <3>2. console.shown \o console.buffer = [i \in 1 .. said |-> i]
      BY <3>1, NumberedInOrder
    <3>. QED BY <3>2 DEF ConsoleInOrder, Waits, SessionInv, ConsoleInv, PausesToShow
  <2>2. StepsRemain
    BY DEF SessionInv, SteppingInv
  <2>3. OverEnds
    <3>1. stepOver.turns \in Int /\ stepping.force \in BOOLEAN /\ OverSteps \in Nat /\ LoopInv
      BY SessionAssumption DEF SessionInv, SteppingInv, LoopInv, Steps
    <3>2. ASSUME stepping.skip.len <= 0 PROVE stepOver.turns <= 2 * OverSteps
      <4>1. CASE ~ InLoop
        BY <3>1, <4>1 DEF InLoop
      <4>2. CASE InLoop
        <5>1. /\ stepping.steps \in 0 .. OverSteps
              /\ \/ stepping.steps # 0 /\ stepOver.turns <= 2 * (OverSteps - stepping.steps) + 1
                 \/ stepOver.turns <= 2 * (OverSteps - stepping.steps)
          BY <3>1, <3>2, <4>2 DEF LoopInv
        <5>. QED BY <3>1, <5>1
      <4>. QED BY <4>1, <4>2
    <3>. QED BY <3>2 DEF OverEnds
  <2>. QED BY <2>1, <2>2, <2>3 DEF SessionHolds, SessionInv, PassInv
<1>. QED BY <1>1, SessionIsInductive, PTL
----------------------------------------------------------------------------
(* The terminal's screen. A row that is not in doubt shows what was drawn, but *)
(* for what was displaced, and the cells compared with the next frame's are    *)
(* what was drawn.                                                             *)

RowsAreKnown ==
  \A c \in Cells(size) \ {LastCell(size)} :
    c[2] \notin inDoubt =>
      /\ backBuffer[c] = nextBuffer[c]
      /\ c \notin displaced => shown[c] = nextBuffer[c]

PictureIsOfThisSize ==
  picture.drawn => tui_video_picture_box = record_picture_box(Measures, size, picture.view)

ScreenInv == size \in ScreenSizes /\ RowsAreKnown /\ PictureIsOfThisSize

\* A frame: what is compared and the same was shown, what differs is written.
LEMMA FrameKeepsRows == ASSUME ScreenInv, tui_video_render_frame PROVE RowsAreKnown'
<1>0. PICK v \in Views, reached \in {FirstLost, size.h} :
        \E frame, next, told, struck :
          /\ told = {c \in Compared(size, v) : Emitted(next[c], backBuffer[c], frame)}
          /\ nextBuffer' = next /\ size' = size
          /\ WriteFrame(v, reached, frame, next, told, struck)
  BY DEF tui_video_render_frame
<1>1. PICK frame, next, told, struck :
        /\ told = {c \in Compared(size, v) : Emitted(next[c], backBuffer[c], frame)}
        /\ nextBuffer' = next /\ size' = size
        /\ WriteFrame(v, reached, frame, next, told, struck)
  BY <1>0
<1>. DEFINE status == IF ShowsStatus(Measures, size, v) THEN {size.h - 1} ELSE {}
            afresh == IF frame % RefreshEvery = 0 THEN (0 .. size.h - 1) \ status ELSE {}
<1>2. /\ backBuffer' = [c \in Cells(size) |-> IF c \in told THEN next[c] ELSE backBuffer[c]]
      /\ shown' = [c \in Cells(size) |->
                     IF c \in struck /\ c[2] <= reached THEN Piece("displaced", 0)
                     ELSE CASE c[2] >= reached -> shown[c]
                            [] c[2] < reached /\ c \in told -> next[c]
                            [] c[2] < reached /\ c[2] \in status -> Piece("status", 0)
                            [] OTHER -> shown[c]]
      /\ inDoubt' = (inDoubt \ afresh) \cup status \cup RowsLost(size, reached)
      /\ displaced' = (displaced \ told) \cup struck
  BY <1>1 DEF WriteFrame
<1>. SUFFICES ASSUME NEW c \in Cells(size), c # LastCell(size), c[2] \notin inDoubt'
              PROVE  /\ backBuffer'[c] = nextBuffer'[c]
                     /\ c \notin displaced' => shown'[c] = nextBuffer'[c]
  BY <1>1 DEF RowsAreKnown, Cells, LastCell
<1>3. size.h \in Nat /\ reached \in Nat /\ c[2] \in 0 .. size.h - 1
  BY ScreenAssumption DEF ScreenInv, Cells
<1>4. c[2] < reached
  <2>1. c[2] \notin reached .. size.h - 1
    BY <1>2 DEF RowsLost
  <2>. QED BY <2>1, <1>3
<1>5. c[2] \notin status /\ (c[2] \in inDoubt => c[2] \in afresh)
  BY <1>2
<1>6. c \in Compared(size, v)
  BY <1>5 DEF Compared
<1>7. c \in told <=> Emitted(next[c], backBuffer[c], frame)
  BY <1>1, <1>6
<1>. HIDE DEF status
<1>8. CASE c \in told
  <2>1. backBuffer'[c] = next[c]
    BY <1>2, <1>8
  <2>2. c \notin displaced' => shown'[c] = next[c]
    BY <1>2, <1>3, <1>4, <1>8
  <2>. QED BY <2>1, <2>2, <1>1
<1>9. CASE c \notin told
  <2>1. next[c] = backBuffer[c] /\ frame % RefreshEvery # 0
    BY <1>7, <1>9 DEF Emitted
  <2>2. c[2] \notin inDoubt
    BY <1>5, <2>1
  <2>3. backBuffer[c] = nextBuffer[c] /\ (c \notin displaced => shown[c] = nextBuffer[c])
    BY <2>2 DEF ScreenInv, RowsAreKnown
  <2>4. backBuffer'[c] = backBuffer[c]
    BY <1>2, <1>9
  <2>5. c \notin displaced' => c \notin displaced /\ shown'[c] = shown[c]
    BY <1>2, <1>3, <1>4, <1>5, <1>9
  <2>. QED BY <2>1, <2>3, <2>4, <2>5, <1>1
<1>. QED BY <1>8, <1>9

LEMMA FrameKeepsPicture == ASSUME ScreenInv, tui_video_render_frame PROVE PictureIsOfThisSize'
<1>1. PICK v \in Views :
        /\ size' = size
        /\ picture' = IF v.mode = "debugger" THEN picture
                      ELSE [drawn |-> TRUE, box |-> record_picture_box(Measures, size, v), view |-> v]
  BY DEF tui_video_render_frame
<1>2. CASE v.mode = "debugger"
  BY <1>1, <1>2 DEF ScreenInv, PictureIsOfThisSize, tui_video_picture_box
<1>3. CASE v.mode # "debugger"
  BY <1>1, <1>3 DEF PictureIsOfThisSize, tui_video_picture_box
<1>. QED BY <1>2, <1>3

\* After a change of size every row is in doubt and no picture is drawn.
LEMMA ResizedDoubtsAll ==
  ASSUME NEW s \in ScreenSizes, NEW c \in Cells(s) PROVE c[2] \in 0 .. s.h - 1
BY DEF Cells

\* What is known of the screen is inductive: the cells compared with the next frame are those the
\* terminal shows, but for the rows in doubt and the cells displaced (tui_video_render_frame,
\* tui_video_on_resize).
THEOREM ScreenIsInductive == ScreenSpec => []ScreenInv
<1>1. ScreenInit => ScreenInv
  <2>. SUFFICES ASSUME ScreenInit PROVE ScreenInv
    OBVIOUS
  <2>1. RowsAreKnown
    BY ResizedDoubtsAll DEF ScreenInit, RowsAreKnown
  <2>2. PictureIsOfThisSize
    BY DEF ScreenInit, PictureIsOfThisSize, NoPicture
  <2>. QED BY <2>1, <2>2 DEF ScreenInit, ScreenInv
<1>2. ScreenInv /\ [ScreenNext]_screenVars => ScreenInv'
  <2>. SUFFICES ASSUME ScreenInv, [ScreenNext]_screenVars PROVE ScreenInv'
    OBVIOUS
  <2>1. CASE tui_video_render_frame
    <3>1. size' = size
      BY <2>1 DEF tui_video_render_frame
    <3>. QED BY <2>1, <3>1, FrameKeepsRows, FrameKeepsPicture DEF ScreenInv
  <2>2. CASE tui_video_on_resize
    <3>1. PICK s \in ScreenSizes : size' = s /\ picture' = NoPicture /\ inDoubt' = 0 .. s.h - 1
      BY <2>2 DEF tui_video_on_resize
    <3>2. RowsAreKnown'
      BY <3>1, ResizedDoubtsAll DEF RowsAreKnown
    <3>3. PictureIsOfThisSize'
      BY <3>1 DEF PictureIsOfThisSize, NoPicture
    <3>. QED BY <3>1, <3>2, <3>3 DEF ScreenInv
  <2>3. CASE UNCHANGED screenVars
    BY <2>3 DEF ScreenInv, RowsAreKnown, PictureIsOfThisSize, tui_video_picture_box, screenVars
  <2>. QED BY <2>1, <2>2, <2>3 DEF ScreenNext
<1>. QED BY <1>1, <1>2, PTL DEF ScreenSpec

----------------------------------------------------------------------------
(* The layouts, of every terminal at least two by two *)

IsBox(b) == b = Box(b.part, b.x, b.y, b.w, b.h) /\ b.x \in Int /\ b.y \in Int /\ b.w \in Int /\ b.h \in Int
IsSize(s) == s.w \in Nat /\ s.h \in Nat /\ s.w > 1 /\ s.h > 1

LEMMA BoxIs ==
  ASSUME NEW part, NEW x \in Int, NEW y \in Int, NEW w \in Int, NEW h \in Int
  PROVE  LET b == Box(part, x, y, w, h)
         IN  IsBox(b) /\ b.part = part /\ b.x = x /\ b.y = y /\ b.w = w /\ b.h = h
BY DEF Box, IsBox

LEMMA AtLeastIs == ASSUME NEW n \in Int, NEW k \in Int PROVE AtLeast(n, k) \in Int /\ AtLeast(n, k) >= k /\ AtLeast(n, k) \in {n, k}
BY DEF AtLeast
LEMMA AtMostIs == ASSUME NEW n \in Int, NEW k \in Int PROVE AtMost(n, k) \in Int /\ AtMost(n, k) <= k /\ AtMost(n, k) <= n /\ AtMost(n, k) \in {n, k}
BY DEF AtMost
LEMMA CentredIs == \A n, k \in Int : Centred(n, k) \in Nat
<1>. SUFFICES ASSUME NEW n \in Int, NEW k \in Int PROVE Centred(n, k) \in Nat
  OBVIOUS
<1>1. (n - k) \div 2 \in Int
  OBVIOUS
<1>. QED BY <1>1, AtLeastIs DEF Centred

LEMMA ClippedFits ==
  ASSUME NEW b, IsBox(b), NEW s, IsSize(s), NEW rows \in Int, rows <= s.h, b.x >= 0, b.y >= 0
  PROVE  InScreen(Clipped(b, s, rows), s)
<1>. DEFINE w == AtLeast(AtMost(b.w, s.w - b.x), 0)
            h == AtLeast(AtMost(b.h, rows - b.y), 0)
<1>1. w \in Int /\ (w = 0 \/ w <= s.w - b.x)
  BY DEF IsBox, IsSize, AtLeast, AtMost
<1>2. h \in Int /\ (h = 0 \/ h <= rows - b.y)
  BY DEF IsBox, IsSize, AtLeast, AtMost
<1>. HIDE DEF w, h
<1>3. Clipped(b, s, rows) = [part |-> b.part, x |-> b.x, y |-> b.y, w |-> w, h |-> h]
  <2>. DEFINE c == [b EXCEPT !.w = w]
  <2>1. b = [part |-> b.part, x |-> b.x, y |-> b.y, w |-> b.w, h |-> b.h]
    BY DEF IsBox, Box
  <2>2. c = [part |-> b.part, x |-> b.x, y |-> b.y, w |-> w, h |-> b.h]
    BY <2>1
  <2>3. Clipped(b, s, rows) = [c EXCEPT !.h = h]
    BY DEF Clipped, w, h
  <2>. HIDE DEF c
  <2>. QED BY <2>2, <2>3
<1>. QED BY <1>1, <1>2, <1>3 DEF InScreen, IsBox, IsSize

LEMMA ClippedBelowFits ==
  ASSUME NEW b, IsBox(b), NEW s, IsSize(s), b.x >= 0, b.y >= 0, b.x + b.w <= s.w
  PROVE  InScreen(ClippedBelow(b, s), s)
<1>. DEFINE h == AtLeast(AtMost(b.h, s.h - b.y), 0)
<1>2. h \in Int /\ (h = 0 \/ h <= s.h - b.y)
  BY DEF IsBox, IsSize, AtLeast, AtMost
<1>. HIDE DEF h
<1>3. ClippedBelow(b, s) = [part |-> b.part, x |-> b.x, y |-> b.y, w |-> b.w, h |-> h]
  BY DEF ClippedBelow, IsBox, Box, h
<1>. QED BY <1>2, <1>3 DEF InScreen, IsBox, IsSize

LEMMA RowsAvailable ==
  ASSUME NEW s, IsSize(s), NEW m, NEW v PROVE AvailRows(m, s, v) \in Nat /\ AvailRows(m, s, v) <= s.h
BY DEF AvailRows, IsSize

\* A picture that fits has a size, whatever the rows it is given.
LEMMA PictureIs ==
  ASSUME NEW s, IsSize(s), NEW rows \in Nat
  PROVE  FittedHeight(s, rows) \in Nat /\ FittedWidth(s, rows) \in Int
<1>1. (rows * 8) \div 3 \in Int /\ (s.w * 3) \div 8 \in Nat
  BY DEF IsSize
<1>. QED BY <1>1 DEF FittedHeight, FittedWidth, AtMost, IsSize

LEMMA MeasuresAre ==
  /\ TuiMeasures.textRows = 24 /\ TuiMeasures.narrow = 40 /\ TuiMeasures.wide = 80
  /\ TuiMeasures.mixedLines = 4 /\ TuiMeasures.debugWidth = 80
  /\ TuiMeasures.helpWidth = 66 /\ TuiMeasures.helpLeast = 20 /\ TuiMeasures.helpHeader = 3
  /\ TuiMeasures.helpBody = 23 /\ TuiMeasures.separators = 4 /\ TuiMeasures.compactBelow = 28
  /\ TuiMeasures.pickerInner = 66 /\ TuiMeasures.pickerLeast = 40 /\ TuiMeasures.pickerRows = 14
  /\ TuiMeasures.pickerFew = 4 /\ TuiMeasures.pickerSmall = 24 /\ TuiMeasures.pickerTall = 30
  /\ TuiMeasures.pickerHead = 5 /\ TuiMeasures.pickerFoot = 3
  /\ TuiMeasures.disasmRows = 32 /\ TuiMeasures.promptRow = 39
BY DEF TuiMeasures

LEMMA ColumnsAre == ASSUME NEW v PROVE Columns(TuiMeasures, v) \in Nat
BY MeasuresAre DEF Columns

\* Pictures and pages begin in the terminal; the loops that fill them end with it.
LEMMA UnderFits ==
  ASSUME NEW s, IsSize(s), NEW v, v.mode \in {"text", "mixed", "graphics", "debugger"},
         NEW b \in Under(TuiMeasures, s, v)
  PROVE  InScreen(b, s)
<1>. DEFINE rows == AvailRows(TuiMeasures, s, v)
            few == MixedRows(TuiMeasures, s, v)
<1>1. rows \in Nat /\ rows <= s.h
  BY RowsAvailable
<1>2. few \in Nat
  BY <1>1, MeasuresAre DEF MixedRows, AtLeast
<1>3. Columns(TuiMeasures, v) \in Nat
  BY ColumnsAre
<1>4. FittedHeight(s, few) \in Nat /\ FittedWidth(s, few) \in Int
  BY <1>2, PictureIs
<1>5. FittedHeight(s, rows) \in Nat /\ FittedWidth(s, rows) \in Int
  BY <1>1, PictureIs
<1>6. s.w \in Int /\ 80 \in Int /\ 24 \in Int /\ rows \in Int
  BY <1>1 DEF IsSize
<1>7. FittedHeight(s, few) \in Int /\ FittedHeight(s, rows) \in Int /\ Columns(TuiMeasures, v) \in Int
  BY <1>3, <1>4, <1>5
<1>8. MixedTop(TuiMeasures, s, v) \in Nat
  <2>1. PICK n \in Int : n = FittedHeight(s, few) + TuiMeasures.mixedLines
    BY <1>4, MeasuresAre
  <2>2. Centred(rows, n) \in Nat
    BY <1>6, <2>1, CentredIs, Zenon
  <2>. QED BY <2>1, <2>2 DEF MixedTop
<1>. HIDE DEF rows, few
<1>9. CASE v.mode = "debugger"
  <2>1. b = Clipped(DebuggerBox(TuiMeasures, s, v), s, rows)
    BY <1>9 DEF Under, rows
  <2>2. Centred(s.w, 80) \in Nat
    BY <1>6, CentredIs, Zenon
  <2>3. DebuggerBox(TuiMeasures, s, v) = Box("debugger", Centred(s.w, 80), 0, 80, rows)
    BY MeasuresAre DEF DebuggerBox, rows
  <2>. QED BY <2>1, <2>2, <2>3, <1>1, BoxIs, ClippedFits
<1>10. CASE v.mode = "text"
  <2>1. b = Clipped(TextBox(TuiMeasures, s, v), s, rows)
    BY <1>10 DEF Under, rows
  <2>2. Centred(s.w, Columns(TuiMeasures, v)) \in Nat /\ Centred(rows, 24) \in Nat
    BY <1>6, <1>7, CentredIs, Zenon
  <2>3. TextBox(TuiMeasures, s, v) = Box("text", Centred(s.w, Columns(TuiMeasures, v)), Centred(rows, 24), Columns(TuiMeasures, v), 24)
    BY MeasuresAre DEF TextBox, rows
  <2>. QED BY <2>1, <2>2, <2>3, <1>1, <1>3, BoxIs, ClippedFits
<1>11. CASE v.mode = "graphics"
  <2>1. b = Clipped(GraphicsBox(TuiMeasures, s, v), s, rows)
    BY <1>11 DEF Under, rows
  <2>2. Centred(s.w, FittedWidth(s, rows)) \in Nat /\ Centred(rows, FittedHeight(s, rows)) \in Nat
    BY <1>6, <1>5, <1>7, CentredIs, Zenon
  <2>3. GraphicsBox(TuiMeasures, s, v)
          = Box("graphics", Centred(s.w, FittedWidth(s, rows)), Centred(rows, FittedHeight(s, rows)), FittedWidth(s, rows), FittedHeight(s, rows))
    BY DEF GraphicsBox, rows
  <2>. QED BY <2>1, <2>2, <2>3, <1>1, <1>5, BoxIs, ClippedFits
<1>12. CASE v.mode = "mixed"
  <2>. DEFINE top == MixedTop(TuiMeasures, s, v)
  <2>1. b \in {Clipped(MixedBox(TuiMeasures, s, v), s, rows), Clipped(MixedText(TuiMeasures, s, v), s, rows)}
    BY <1>12 DEF Under, rows
  <2>2. Centred(s.w, FittedWidth(s, few)) \in Nat /\ Centred(s.w, Columns(TuiMeasures, v)) \in Nat
    BY <1>6, <1>4, <1>7, CentredIs, Zenon
  <2>3. MixedBox(TuiMeasures, s, v)
          = Box("graphics", Centred(s.w, FittedWidth(s, few)), top, FittedWidth(s, few), FittedHeight(s, few))
    BY DEF MixedBox, few
  <2>4. MixedText(TuiMeasures, s, v)
          = Box("text", Centred(s.w, Columns(TuiMeasures, v)), top + FittedHeight(s, few), Columns(TuiMeasures, v), 4)
    BY MeasuresAre DEF MixedText, few
  <2>. HIDE DEF top
  <2>5. top \in Nat /\ top + FittedHeight(s, few) \in Nat
    BY <1>4, <1>8 DEF top
  <2>6. InScreen(Clipped(MixedBox(TuiMeasures, s, v), s, rows), s)
    BY <2>2, <2>3, <2>5, <1>1, <1>4, BoxIs, ClippedFits
  <2>7. InScreen(Clipped(MixedText(TuiMeasures, s, v), s, rows), s)
    BY <2>2, <2>4, <2>5, <1>1, <1>3, BoxIs, ClippedFits
  <2>. QED BY <2>1, <2>6, <2>7
<1>. QED BY <1>9, <1>10, <1>11, <1>12

LEMMA BoxTopIs ==
  ASSUME NEW s, IsSize(s), NEW n \in Nat
  PROVE  BoxTop(s, n) \in Nat /\ (n <= s.h => BoxTop(s, n) + n <= s.h)
<1>1. CASE s.h > n
  <2>1. (s.h - 1 - n) \div 2 \in Nat /\ (s.h - 1 - n) \div 2 <= s.h - 1 - n
    BY <1>1 DEF IsSize
  <2>. QED BY <1>1, <2>1 DEF BoxTop, IsSize
<1>2. CASE ~ (s.h > n)
  BY <1>2 DEF BoxTop, IsSize
<1>. QED BY <1>1, <1>2

LEMMA HelpFits ==
  ASSUME NEW s, IsSize(s), NEW b \in HelpBoxes(TuiMeasures, s) PROVE InScreen(b, s)
<1>1. s.w >= 66 /\ s.w \in Nat
  BY MeasuresAre DEF HelpBoxes, IsSize
<1>2. PICK n \in Nat : n = HelpLines(TuiMeasures, s) + 3
  BY MeasuresAre DEF HelpLines
<1>3. b = ClippedBelow(Box("help", (s.w - 66) \div 2, BoxTop(s, n), 66, n), s)
  BY <1>1, <1>2, MeasuresAre DEF HelpBoxes
<1>4. PICK x \in Nat : x = (s.w - 66) \div 2 /\ x + 66 <= s.w
  <2>1. (s.w - 66) \div 2 \in Nat /\ (s.w - 66) \div 2 + 66 <= s.w
    BY <1>1
  <2>. QED BY <2>1
<1>5. BoxTop(s, n) \in Nat
  BY <1>2, BoxTopIs
<1>. QED BY <1>3, <1>4, <1>5, BoxIs, ClippedBelowFits

LEMMA PickerFitsIn ==
  ASSUME NEW s, IsSize(s), NEW b \in PickerBoxes(TuiMeasures, s) PROVE InScreen(b, s)
<1>. DEFINE inner == PickerInner(TuiMeasures, s)
            rows == PickerRows(TuiMeasures, s)
            top == PickerTop(TuiMeasures, s)
            x == (s.w - inner - 2) \div 2
<1>1. PickerFits(TuiMeasures, s)
  BY DEF PickerBoxes
<1>2. b \in {PickerHeader(TuiMeasures, s), PickerList(TuiMeasures, s), PickerFoot(TuiMeasures, s)}
  BY <1>1 DEF PickerBoxes
<1>3. inner \in Int /\ inner >= 40 /\ inner <= s.w - 4
  BY <1>1, MeasuresAre DEF PickerFits, PickerInner, AtMost, IsSize
<1>4. rows \in Nat /\ s.h >= rows + 8
  <2>1. rows \in Nat
    BY AtLeastIs, MeasuresAre DEF PickerRows, IsSize
  <2>. QED BY <2>1, <1>1, MeasuresAre DEF PickerFits, PickerHeight
<1>5. top \in Nat /\ top + rows + 8 <= s.h
  <2>1. PICK n \in Nat : n = rows + 8
    BY <1>4
  <2>2. top = BoxTop(s, n)
    <3>1. PickerHeight(TuiMeasures, s) = n
      BY <2>1, <1>4, MeasuresAre DEF PickerHeight
    <3>. QED BY <3>1 DEF PickerTop
  <2>3. BoxTop(s, n) \in Nat /\ BoxTop(s, n) + n <= s.h
    BY <1>4, <2>1, BoxTopIs
  <2>. HIDE DEF top, rows
  <2>. QED BY <2>1, <2>2, <2>3, <1>4
<1>. HIDE DEF inner, rows, top
<1>6. x \in Nat /\ x + (inner + 2) <= s.w
  <2>1. PICK n \in Nat : n = s.w - inner - 2
    BY <1>3 DEF IsSize
  <2>2. n \div 2 \in Nat /\ n \div 2 <= n
    OBVIOUS
  <2>. QED BY <2>1, <2>2, <1>3 DEF IsSize
<1>. HIDE DEF x
<1>7. PickerHeader(TuiMeasures, s) = Box("header", x, top + 0, inner + 2, 5)
  BY MeasuresAre DEF PickerHeader, PickerPart, x, inner, top
<1>8. PickerList(TuiMeasures, s) = Box("list", x, top + 5, inner + 2, rows)
  BY MeasuresAre DEF PickerList, PickerPart, x, inner, top, rows
<1>9. PickerFoot(TuiMeasures, s) = Box("foot", x, top + (5 + rows), inner + 2, 3)
  BY MeasuresAre DEF PickerFoot, PickerPart, x, inner, top, rows
<1>10. ASSUME NEW part, NEW y \in Nat, NEW h \in Nat, y + h <= s.h
       PROVE  InScreen(Box(part, x, y, inner + 2, h), s)
  BY <1>3, <1>6, <1>10 DEF InScreen, Box, IsSize
<1>. QED BY <1>2, <1>4, <1>5, <1>7, <1>8, <1>9, <1>10 DEF IsSize

\* The debugger's rows: of the views while they last, then of the console's end.
LEMMA PromptIsLastAlways == ASSUME NEW rows \in Nat, rows >= 3 PROVE PromptIsLast(rows)
<1>. DEFINE con == ConsoleRows(TuiMeasures, rows)
            top == TopRows(TuiMeasures, rows)
<1>1. con \in Int /\ con >= 2 /\ rows - con >= 1 /\ (rows >= 40 => con = rows - 32)
  BY MeasuresAre DEF ConsoleRows
<1>2. top \in Nat /\ top <= 32 /\ top <= rows - 2 /\ (rows >= 40 => top = 32)
  <2>. HIDE DEF con
  <2>. QED BY <1>1, MeasuresAre DEF TopRows, AtLeast, AtMost, con
<1>. HIDE DEF top
<1>3. ASSUME NEW row \in 0 .. rows - 1
      PROVE  DebuggerSourceRow(TuiMeasures, rows, row)
               = IF row < top THEN row
                 ELSE IF 39 - (rows - 1 - row) < 32 /\ row < rows - 1 THEN -1
                 ELSE 39 - (rows - 1 - row)
  BY MeasuresAre DEF DebuggerSourceRow, top
<1>4. DebuggerSourceRow(TuiMeasures, rows, rows - 1) = TuiMeasures.promptRow
  BY <1>2, <1>3, MeasuresAre
<1>5. ASSUME NEW i \in 0 .. rows - 1, NEW j \in 0 .. rows - 1, i < j,
             DebuggerSourceRow(TuiMeasures, rows, j) >= 0
      PROVE  DebuggerSourceRow(TuiMeasures, rows, i) < DebuggerSourceRow(TuiMeasures, rows, j)
  BY <1>2, <1>3, <1>5
<1>. QED BY <1>4, <1>5 DEF PromptIsLast

\* Every box of every layout lies in the terminal, of whatever size, every row of the debugger's
\* comes from its own row of the screen, in order and the prompt's last, and the chooser shows at
\* least 14 rows of its list where the terminal has 24 (render_disk_select_overlay,
\* render_help_overlay, render_debugger_text_screen, tui_video_render_frame).
THEOREM LayoutsFit == EveryLayoutFits
<1>1. ASSUME NEW s \in LayoutSizes, NEW v \in LayoutViews,
             NEW b \in Under(TuiMeasures, s, v) \cup Over(TuiMeasures, s, v)
      PROVE  InScreen(b, s)
  <2>1. IsSize(s)
    BY ScreenAssumption DEF LayoutSizes, IsSize
  <2>2. v.mode \in {"text", "mixed", "graphics", "debugger"}
    BY DEF LayoutViews
  <2>3. CASE b \in Under(TuiMeasures, s, v)
    BY <2>1, <2>2, <2>3, UnderFits
  <2>4. CASE b \in Over(TuiMeasures, s, v)
    <3>1. CASE v.overlay = "help"
      BY <2>1, <2>4, <3>1, HelpFits DEF Over
    <3>2. CASE v.overlay = "picker"
      BY <2>1, <2>4, <3>2, PickerFitsIn DEF Over
    <3>. QED BY <3>1, <3>2 DEF LayoutViews
  <2>. QED BY <1>1, <2>3, <2>4
<1>2. ASSUME NEW rows \in 3 .. LargestHeight PROVE PromptIsLast(rows)
  BY PromptIsLastAlways, ScreenAssumption
<1>3. ASSUME NEW h \in 24 .. LargestHeight
      PROVE  PickerRows(TuiMeasures, [w |-> 80, h |-> h]) >= TuiMeasures.pickerRows
  BY ScreenAssumption, MeasuresAre DEF PickerRows
<1>. QED BY <1>1, <1>2, <1>3 DEF EveryLayoutFits

\* The terminal shows the last frame in every row that was not lost, uncovered or resized since all
\* of it was last written, in every cell that no byte which is not a character has displaced since;
\* the mouse is looked for where the picture of this size is; and no box is drawn beyond the
\* terminal; however large the terminal, wherever writes fail and whatever frames differ in
\* (tui_video_render_frame, tui_video_on_resize).
THEOREM ScreenIsFaithful == ScreenSpec => []ScreenIsWhatWasDrawn
<1>1. ScreenInv => ScreenIsWhatWasDrawn
  BY LayoutsFit DEF ScreenInv, ScreenIsWhatWasDrawn, RowsAreKnown, PictureIsOfThisSize
<1>. QED BY <1>1, ScreenIsInductive, PTL
----------------------------------------------------------------------------
(* Induction and folds. A fold over a sequence's places is a function of the   *)
(* sets of places, of which FoldLeft's is the one for all of them.             *)

LEMMA LeastNatural ==
  ASSUME NEW T, T \subseteq Nat, T # {}
  PROVE  \E m \in T : \A n \in T : m <= n
<1> DEFINE R == OpToRel(<, Nat)
<1>1. \E m \in T : \A n \in T : ~ (<<n, m>> \in R)
  <2> HIDE DEF R
  <2> QED BY NatLessThanWellFounded, WFMin DEF R
<1>2. ASSUME NEW m \in T, NEW n \in T, ~ (<<n, m>> \in R)
      PROVE  m <= n
  BY <1>2 DEF OpToRel
<1> QED BY <1>1, <1>2

(* Induction up to n, for the members of a set. *)
LEMMA UpTo ==
  ASSUME NEW n \in Nat, NEW T, 0 \in T,
         \A k \in 0 .. n : k < n /\ k \in T => k + 1 \in T
  PROVE  \A k \in 0 .. n : k \in T
<1> DEFINE U == {k \in 0 .. n : k \notin T}
<1>1. SUFFICES ASSUME U # {} PROVE FALSE
  OBVIOUS
<1>2. U \subseteq Nat
  OBVIOUS
<1>3. PICK m \in U : \A k \in U : m <= k
  BY <1>1, <1>2, LeastNatural
<1>4. m # 0 /\ m \in Nat /\ m <= n
  BY <1>3
<1>5. m - 1 \in 0 .. n /\ m - 1 < n
  BY <1>4
<1>6. m - 1 \in T
  BY <1>3, <1>5
<1>7. m - 1 + 1 \in T
  BY <1>5, <1>6
<1> QED BY <1>3, <1>4, <1>7

\* The greatest of some of the numbers from 1 to n.
LEMMA MaxIs ==
  ASSUME NEW n \in Nat, NEW s \in SUBSET (1 .. n), s # {}
  PROVE  Max(s) \in s /\ \A k \in s : k <= Max(s)
<1>. DEFINE T == {n - k : k \in s}
<1>1. T \subseteq Nat /\ T # {}
  <2>1. \A k \in s : k \in Nat /\ n - k \in Nat
    OBVIOUS
  <2>. QED BY <2>1
<1>2. PICK m \in T : \A j \in T : m <= j
  BY <1>1, LeastNatural
<1>3. PICK x \in s : m = n - x
  BY <1>2
<1>4. ASSUME NEW y \in s PROVE x >= y
  <2>1. n - x <= n - y
    BY <1>2, <1>3
  <2>2. x \in Nat /\ y \in Nat
    OBVIOUS
  <2>. HIDE DEF T
  <2>. QED BY <2>1, <2>2
<1>5. Max(s) \in s /\ \A y \in s : Max(s) >= y
  BY <1>3, <1>4 DEF Max
<1>. QED BY <1>5

LEMMA MaxIn ==
  ASSUME NEW n \in Nat, NEW s \in SUBSET (1 .. n + 1), n + 1 \in s
  PROVE  Max(s) = n + 1
<1>1. n + 1 \in Nat
  OBVIOUS
<1>2. Max(s) \in s /\ \A k \in s : k <= Max(s)
  BY <1>1, MaxIs
<1>3. Max(s) \in 1 .. n + 1 /\ n + 1 <= Max(s)
  BY <1>2
<1>. HIDE DEF Max
<1>. QED BY <1>3

IsFold(g, n, b, G) ==
  g = [s \in SUBSET (1 .. n) |-> IF s = {} THEN b ELSE G[<<g[s \ {Max(s)}], Max(s)>>]]

\* A fold over n places exists from any start.
LEMMA FoldExists ==
  ASSUME NEW n \in Nat, NEW T, NEW b \in T, NEW G \in [T \X (1 .. n) -> T]
  PROVE  \E g \in [SUBSET (1 .. n) -> T] : IsFold(g, n, b, G)
<1>. DEFINE U == {k \in Nat : \E g \in [SUBSET (1 .. k) -> T] : IsFold(g, k, b, G)}
<1>1. 0 \in U
  <2>1. PICK g : g = [s \in SUBSET (1 .. 0) |-> b]
    OBVIOUS
  <2>2. g \in [SUBSET (1 .. 0) -> T]
    BY <2>1
  <2>3. g = [s \in SUBSET (1 .. 0) |-> IF s = {} THEN b ELSE G[<<g[s \ {Max(s)}], Max(s)>>]]
    BY <2>1
  <2>. QED BY <2>2, <2>3 DEF IsFold
<1>2. ASSUME NEW k \in 0 .. n, k < n, k \in U PROVE k + 1 \in U
  <2>1. PICK g \in [SUBSET (1 .. k) -> T] : IsFold(g, k, b, G)
    BY <1>2
  <2>. DEFINE h == [s \in SUBSET (1 .. k + 1) |-> IF k + 1 \in s THEN G[<<g[s \ {k + 1}], k + 1>>] ELSE g[s]]
  <2>2. ASSUME NEW s \in SUBSET (1 .. k + 1)
        PROVE  /\ k + 1 \in s => s \ {k + 1} \in SUBSET (1 .. k)
               /\ k + 1 \notin s => s \in SUBSET (1 .. k)
               /\ h[s] \in T
               /\ h[s] = IF s = {} THEN b ELSE G[<<h[s \ {Max(s)}], Max(s)>>]
    <3>1. CASE k + 1 \in s
      <4>1. s \ {k + 1} \in SUBSET (1 .. k) /\ s \ {k + 1} \in SUBSET (1 .. k + 1)
        OBVIOUS
      <4>2. g[s \ {k + 1}] \in T /\ k + 1 \in 1 .. n
        BY <4>1, <1>2
      <4>3. h[s] = G[<<g[s \ {k + 1}], k + 1>>] /\ h[s] \in T
        BY <3>1, <4>2
      <4>4. h[s \ {k + 1}] = g[s \ {k + 1}]
        BY <4>1
      <4>5. Max(s) = k + 1
        BY <3>1, MaxIn
      <4>. HIDE DEF h
      <4>. QED BY <3>1, <4>1, <4>3, <4>4, <4>5
    <3>2. CASE k + 1 \notin s
      <4>1. s \in SUBSET (1 .. k)
        BY <3>2
      <4>2. h[s] = g[s] /\ h[s] \in T
        BY <3>2, <4>1
      <4>3. g[s] = IF s = {} THEN b ELSE G[<<g[s \ {Max(s)}], Max(s)>>]
        BY <2>1, <4>1 DEF IsFold
      <4>4. s \ {Max(s)} \in SUBSET (1 .. k + 1) /\ k + 1 \notin s \ {Max(s)}
        BY <3>2
      <4>5. h[s \ {Max(s)}] = g[s \ {Max(s)}]
        BY <4>4
      <4>. HIDE DEF h
      <4>. QED BY <3>2, <4>1, <4>2, <4>3, <4>5
    <3>. QED BY <3>1, <3>2
  <2>3. h \in [SUBSET (1 .. k + 1) -> T]
    <3>1. \A s \in SUBSET (1 .. k + 1) : h[s] \in T
      BY <2>2
    <3>. QED BY <3>1
  <2>4. h = [s \in SUBSET (1 .. k + 1) |-> h[s]]
    OBVIOUS
  <2>5. h = [s \in SUBSET (1 .. k + 1) |-> IF s = {} THEN b ELSE G[<<h[s \ {Max(s)}], Max(s)>>]]
    <3>. HIDE DEF h
    <3>. QED BY <2>2, <2>4
  <2>. HIDE DEF h
  <2>6. IsFold(h, k + 1, b, G)
    BY <2>5 DEF IsFold
  <2>. QED BY <2>3, <2>6
<1>. HIDE DEF U
<1>3. \A k \in 0 .. n : k \in U
  BY <1>1, <1>2, UpTo
<1>4. n \in U
  BY <1>3
<1>. QED BY <1>4 DEF U

\* What holds at the start and is kept at every place holds at the end.
LEMMA FoldStays ==
  ASSUME NEW n \in Nat, NEW h, NEW X, h[{}] \in X,
         \A k \in 1 .. n : h[1 .. k - 1] \in X => h[1 .. k] \in X
  PROVE  h[1 .. n] \in X
<1>. DEFINE U == {k \in 0 .. n : h[1 .. k] \in X}
<1>1. 0 \in U
  <2>1. 1 .. 0 = {}
    OBVIOUS
  <2>. QED BY <2>1
<1>2. ASSUME NEW k \in 0 .. n, k < n, k \in U PROVE k + 1 \in U
  <2>1. k + 1 \in 1 .. n /\ (k + 1) - 1 = k
    BY <1>2
  <2>. QED BY <1>2, <2>1
<1>. HIDE DEF U
<1>3. \A k \in 0 .. n : k \in U
  BY <1>1, <1>2, UpTo
<1>. QED BY <1>3 DEF U

LEMMA Prefix ==
  ASSUME NEW n \in Nat, NEW k \in 1 .. n
  PROVE  /\ 1 .. k \in SUBSET (1 .. n) /\ 1 .. k # {}
         /\ Max(1 .. k) = k /\ (1 .. k) \ {k} = 1 .. k - 1
<1>1. PICK j \in Nat : k = j + 1
  <2>1. k - 1 \in Nat /\ k = (k - 1) + 1
    OBVIOUS
  <2>. QED BY <2>1
<1>2. Max(1 .. k) = k
  BY <1>1, MaxIn
<1>3. (1 .. k) \ {k} = 1 .. k - 1
  OBVIOUS
<1>. QED BY <1>2, <1>3

----------------------------------------------------------------------------
(* Lists. What a command may leave a list as: of slots and a count, with the   *)
(* count exact, with every set slot counted.                                   *)

SlotRecords == [set : BOOLEAN, enabled : BOOLEAN, address : Nat]
Lists == [slots : [Slot -> SlotRecords], count : Int]
Exact == {l \in Lists : l.count = Cardinality(SetIn(l))}
Covered == {l \in Lists : Cardinality(SetIn(l)) <= l.count /\ l.count <= ListSlots}

ListsInv ==
  /\ debugLists \in [ListKinds -> Lists] /\ pointed \in BOOLEAN
  /\ debugLists["breakpoints"] \in Exact
  /\ \A kind \in ListKinds \ {"breakpoints"} :
       kind # "zeropage" \/ ~pointed => debugLists[kind] \in Covered

LEMMA SlotsCounted ==
  /\ IsFiniteSet(Slot) /\ Cardinality(Slot) = ListSlots
  /\ \A S \in SUBSET Slot : IsFiniteSet(S) /\ Cardinality(S) \in Nat /\ Cardinality(S) <= ListSlots
<1>1. IsFiniteSet(Slot) /\ Cardinality(Slot) = ListSlots
  BY FS_Interval, ListsAssumption DEF Slot
<1>2. ASSUME NEW S \in SUBSET Slot
      PROVE  IsFiniteSet(S) /\ Cardinality(S) \in Nat /\ Cardinality(S) <= ListSlots
  <2>1. IsFiniteSet(S) /\ Cardinality(S) <= Cardinality(Slot)
    BY <1>1, FS_Subset
  <2>2. Cardinality(S) \in Nat
    BY <2>1, FS_CardinalityType
  <2>. QED BY <1>1, <2>1, <2>2
<1>. QED BY <1>1, <1>2

LEMMA SetInIs == ASSUME NEW l \in Lists PROVE SetIn(l) \in SUBSET Slot
BY DEF SetIn

\* A slot written, whatever is then counted.
LEMMA SlotWritten ==
  ASSUME NEW l \in Lists, NEW i \in Slot, NEW c \in SlotRecords, NEW k \in Int,
         NEW m, m = [slots |-> [l.slots EXCEPT ![i] = c], count |-> k]
  PROVE  /\ m \in Lists /\ m.count = k
         /\ SetIn(m) = IF c.set THEN SetIn(l) \cup {i} ELSE SetIn(l) \ {i}
<1>1. PICK f : f = [l.slots EXCEPT ![i] = c]
  OBVIOUS
<1>2. l.slots \in [Slot -> SlotRecords]
  BY DEF Lists
<1>3. f \in [Slot -> SlotRecords] /\ \A j \in Slot : f[j] = IF j = i THEN c ELSE l.slots[j]
  BY <1>1, <1>2
<1>4. m.slots = f /\ m.count = k /\ m \in Lists
  BY <1>1, <1>3 DEF Lists
<1>5. SetIn(m) = IF c.set THEN SetIn(l) \cup {i} ELSE SetIn(l) \ {i}
  BY <1>3, <1>4 DEF SetIn
<1>. QED BY <1>4, <1>5

\* Slots rewritten under the same count.
LEMMA SlotsRewritten ==
  ASSUME NEW l \in Lists, NEW f \in [Slot -> SlotRecords], NEW m, m = [l EXCEPT !.slots = f]
  PROVE  m \in Lists /\ m.count = l.count /\ m.slots = f /\ SetIn(m) = {i \in Slot : f[i].set}
<1>1. m \in Lists /\ m.count = l.count /\ m.slots = f
  BY DEF Lists
<1>. QED BY <1>1 DEF SetIn

LEMMA KeptWhenFewer ==
  ASSUME NEW l \in Lists, NEW m \in Lists, m.count = l.count, SetIn(m) \subseteq SetIn(l)
  PROVE  l \in Covered => m \in Covered
<1>1. Cardinality(SetIn(m)) <= Cardinality(SetIn(l))
  <2>1. IsFiniteSet(SetIn(l))
    BY SetInIs, SlotsCounted
  <2>. QED BY <2>1, FS_Subset
<1>2. Cardinality(SetIn(m)) \in Nat /\ Cardinality(SetIn(l)) \in Nat /\ l.count \in Int
  BY SetInIs, SlotsCounted DEF Lists
<1>. QED BY <1>1, <1>2, ListsAssumption DEF Covered

LEMMA ExactIsCovered == Exact \subseteq Covered
BY SetInIs, SlotsCounted, ListsAssumption DEF Exact, Covered

LEMMA FirstFreeIs ==
  ASSUME NEW l \in Lists
  PROVE  /\ FirstFree(l) \in Int
         /\ FirstFree(l) # ListSlots => FirstFree(l) \in Slot /\ FirstFree(l) \notin SetIn(l)
<1>1. CASE SetIn(l) = Slot
  BY <1>1, ListsAssumption DEF FirstFree
<1>2. CASE SetIn(l) # Slot
  <2>0. SetIn(l) \subseteq Slot /\ Slot \subseteq Nat
    BY SetInIs, ListsAssumption DEF Slot
  <2>1. Slot \ SetIn(l) # {} /\ Slot \ SetIn(l) \subseteq Nat
    BY <1>2, <2>0
  <2>2. \E i \in Slot \ SetIn(l) : \A j \in Slot \ SetIn(l) : i <= j
    BY <2>1, LeastNatural
  <2>3. FirstFree(l) \in Slot \ SetIn(l)
    BY <1>2, <2>2 DEF FirstFree
  <2>. QED BY <2>1, <2>3
<1>. QED BY <1>1, <1>2

\* One address of BP takes the first free slot, and is counted.
LEMMA AddedIsExact ==
  ASSUME NEW l \in Exact, NEW address \in Nat
  PROVE  CmdBreakpointAddCommonArg(l, address) \in Exact
<1>. DEFINE i == FirstFree(l)
<1>0. l \in Lists /\ l.count \in Int
  BY DEF Exact, Lists
<1>1. CASE i = ListSlots
  BY <1>1 DEF CmdBreakpointAddCommonArg
<1>2. CASE i # ListSlots
  <2>1. i \in Slot /\ i \notin SetIn(l)
    BY <1>0, <1>2, FirstFreeIs
  <2>2. PICK c : c = [set |-> TRUE, enabled |-> TRUE, address |-> address]
    OBVIOUS
  <2>3. c \in SlotRecords /\ c.set
    BY <2>2 DEF SlotRecords
  <2>0. PICK k \in Int : k = l.count + 1
    BY <1>0
  <2>4. PICK m : m = [slots |-> [l.slots EXCEPT ![i] = c], count |-> k]
    OBVIOUS
  <2>. HIDE DEF i
  <2>5. m \in Lists /\ m.count = l.count + 1 /\ SetIn(m) = SetIn(l) \cup {i}
    BY <1>0, <2>1, <2>0, <2>3, <2>4, SlotWritten
  <2>6. Cardinality(SetIn(m)) = Cardinality(SetIn(l)) + 1
    <3>1. IsFiniteSet(SetIn(l))
      BY <1>0, SetInIs, SlotsCounted
    <3>. QED BY <2>1, <2>5, <3>1, FS_AddElement
  <2>7. CmdBreakpointAddCommonArg(l, address) = m
    BY <1>2, <2>0, <2>2, <2>4 DEF CmdBreakpointAddCommonArg, i
  <2>. QED BY <2>5, <2>6, <2>7 DEF Exact
<1>. QED BY <1>1, <1>2

\* An address of another list goes to its slot, and is counted whatever was there.
LEMMA AddedIsKept ==
  ASSUME NEW kind, NEW X \in {Lists, Covered}, NEW l \in X, NEW i \in Int, NEW address \in Nat
  PROVE  AddedAt(kind, l, i, address) \in X
<1>0. l \in Lists /\ l.count \in Int
  <2>1. l \in Lists
    BY Zenon DEF Covered
  <2>. QED BY <2>1 DEF Lists
<1>1. CASE ~ (i \in Slot /\ l.count < ListSlots)
  BY <1>1 DEF AddedAt
<1>2. CASE i \in Slot /\ l.count < ListSlots
  <2>1. PICK c : c = [set |-> TRUE, address |-> address, enabled |-> kind # "bookmarks" \/ l.slots[i].enabled]
    OBVIOUS
  <2>2. l.slots[i].enabled \in BOOLEAN
    BY <1>0, <1>2 DEF Lists, SlotRecords
  <2>3. c \in SlotRecords /\ c.set
    BY <2>1, <2>2 DEF SlotRecords
  <2>0. PICK k \in Int : k = l.count + 1
    BY <1>0
  <2>4. PICK m : m = [slots |-> [l.slots EXCEPT ![i] = c], count |-> k]
    OBVIOUS
  <2>5. m \in Lists /\ m.count = l.count + 1 /\ SetIn(m) = SetIn(l) \cup {i}
    BY <1>0, <1>2, <2>0, <2>3, <2>4, SlotWritten
  <2>6. AddedAt(kind, l, i, address) = m
    BY <1>2, <2>0, <2>1, <2>4 DEF AddedAt
  <2>7. ASSUME l \in Covered PROVE m \in Covered
    <3>1. IsFiniteSet(SetIn(l)) /\ Cardinality(SetIn(l)) \in Nat
      BY <1>0, SetInIs, SlotsCounted
    <3>2. Cardinality(SetIn(m)) \in {Cardinality(SetIn(l)), Cardinality(SetIn(l)) + 1}
      BY <2>5, <3>1, FS_AddElement
    <3>3. Cardinality(SetIn(l)) <= l.count
      BY <2>7 DEF Covered
    <3>4. Cardinality(SetIn(m)) <= m.count /\ m.count <= ListSlots
      BY <1>0, <1>2, <2>5, <3>1, <3>2, <3>3, ListsAssumption
    <3>. QED BY <2>5, <3>4 DEF Covered
  <2>. QED BY <2>5, <2>6, <2>7
<1>. QED BY <1>1, <1>2

\* A slot cleared is uncounted if it was set, and only then.
LEMMA RemovedIsKept ==
  ASSUME NEW X \in {Lists, Exact, Covered}, NEW l \in X, NEW i \in Slot
  PROVE  bwz_RemoveOne(l, i) \in X
<1>0. l \in Lists /\ l.count \in Int
  <2>1. l \in Lists
    BY Zenon DEF Exact, Covered
  <2>. QED BY <2>1 DEF Lists
<1>1. CASE ~ l.slots[i].set
  BY <1>1 DEF bwz_RemoveOne
<1>2. CASE l.slots[i].set
  <2>1. EmptySlot \in SlotRecords /\ ~ EmptySlot.set
    BY DEF EmptySlot, SlotRecords
  <2>0. PICK k \in Int : k = l.count - 1
    BY <1>0
  <2>2. PICK m : m = [slots |-> [l.slots EXCEPT ![i] = EmptySlot], count |-> k]
    OBVIOUS
  <2>3. m \in Lists /\ m.count = l.count - 1 /\ SetIn(m) = SetIn(l) \ {i}
    BY <1>0, <2>0, <2>1, <2>2, SlotWritten
  <2>4. bwz_RemoveOne(l, i) = m
    BY <1>2, <2>0, <2>2 DEF bwz_RemoveOne
  <2>5. IsFiniteSet(SetIn(l)) /\ Cardinality(SetIn(l)) \in Nat /\ i \in SetIn(l)
    BY <1>0, <1>2, SetInIs, SlotsCounted DEF SetIn
  <2>6. Cardinality(SetIn(m)) = Cardinality(SetIn(l)) - 1
    BY <2>3, <2>5, FS_RemoveElement
  <2>7. l \in Exact => m \in Exact
    BY <1>0, <2>3, <2>5, <2>6 DEF Exact
  <2>8. ASSUME l \in Covered PROVE m \in Covered
    <3>1. Cardinality(SetIn(l)) <= l.count /\ l.count <= ListSlots
      BY <2>8 DEF Covered
    <3>2. Cardinality(SetIn(m)) <= m.count /\ m.count <= ListSlots
      BY <1>0, <2>3, <2>5, <2>6, <3>1, ListsAssumption
    <3>. QED BY <2>3, <3>2 DEF Covered
  <2>. QED BY <2>3, <2>4, <2>7, <2>8
<1>. QED BY <1>1, <1>2

LEMMA RemovedAllIs == bwz_RemoveAll \in Exact
<1>1. EmptySlot \in SlotRecords /\ ~ EmptySlot.set
  BY DEF EmptySlot, SlotRecords
<1>2. PICK m : m = [slots |-> [i \in Slot |-> EmptySlot], count |-> 0]
  OBVIOUS
<1>3. m \in Lists /\ m.count = 0 /\ SetIn(m) = {}
  BY <1>1, <1>2 DEF Lists, SetIn
<1>. QED BY <1>2, <1>3, FS_EmptySet DEF Exact, bwz_RemoveAll

(* The loops over a command's arguments *)

LEMMA ClearFolds ==
  ASSUME NEW X, NEW l \in X, NEW named \in Seq(Nat), \A x \in X, i \in Slot : bwz_RemoveOne(x, i) \in X
  PROVE  bwz_ClearViaArgs(l, named) \in X
<1>. DEFINE n == Len(named)
            Step(x, i) == IF named[i] \in Slot THEN bwz_RemoveOne(x, named[i]) ELSE x
            G == [p \in X \X (1 .. n) |-> Step(p[1], p[2])]
            Eq(h) == h = [s \in SUBSET (DOMAIN named) |-> IF s = {} THEN l ELSE Step(h[s \ {Max(s)}], Max(s))]
            It == CHOOSE h : Eq(h)
<1>1. bwz_ClearViaArgs(l, named) = It[DOMAIN named]
  BY DEF bwz_ClearViaArgs, FoldLeft, MapThenFoldSet
<1>2. n \in Nat /\ DOMAIN named = 1 .. n
  OBVIOUS
<1>3. \A x \in X, i \in 1 .. n : Step(x, i) \in X
  OBVIOUS
<1>. HIDE DEF n, Step
<1>4. G \in [X \X (1 .. n) -> X]
  BY <1>3
<1>5. PICK g \in [SUBSET (1 .. n) -> X] : IsFold(g, n, l, G)
  <2>. HIDE DEF G
  <2>. QED BY <1>2, <1>4, FoldExists
<1>6. Eq(g)
  <2>1. ASSUME NEW s \in SUBSET (1 .. n), s # {} PROVE G[<<g[s \ {Max(s)}], Max(s)>>] = Step(g[s \ {Max(s)}], Max(s))
    <3>1. Max(s) \in 1 .. n /\ g[s \ {Max(s)}] \in X
      BY <1>2, <2>1, MaxIs
    <3>. QED BY <3>1
  <2>2. g = [s \in SUBSET (1 .. n) |-> IF s = {} THEN l ELSE G[<<g[s \ {Max(s)}], Max(s)>>]]
    BY <1>5 DEF IsFold
  <2>. HIDE DEF G
  <2>. QED BY <1>2, <2>1, <2>2
<1>7. Eq(It)
  <2>. HIDE DEF Eq
  <2>. QED BY <1>6
<1>. HIDE DEF It
<1>8. It[{}] = l
  BY <1>7
<1>9. ASSUME NEW k \in 1 .. n, It[1 .. k - 1] \in X PROVE It[1 .. k] \in X
  <2>1. 1 .. k \in SUBSET (1 .. n) /\ 1 .. k # {} /\ Max(1 .. k) = k /\ (1 .. k) \ {k} = 1 .. k - 1
    BY <1>2, Prefix
  <2>2. It[1 .. k] = Step(It[(1 .. k) \ {Max(1 .. k)}], Max(1 .. k))
    BY <1>2, <1>7, <2>1
  <2>3. It[1 .. k] = Step(It[1 .. k - 1], k)
    BY <2>1, <2>2
  <2>. QED BY <1>3, <1>9, <2>3
<1>10. It[1 .. n] \in X
  BY <1>2, <1>8, <1>9, FoldStays
<1>. QED BY <1>1, <1>2, <1>10

LEMMA BreakpointsFold ==
  ASSUME NEW l \in Exact, NEW named \in Seq(Nat)
  PROVE  FoldLeft(CmdBreakpointAddCommonArg, l, named) \in Exact
<1>. DEFINE n == Len(named)
            Step(x, i) == CmdBreakpointAddCommonArg(x, named[i])
            G == [p \in Exact \X (1 .. n) |-> Step(p[1], p[2])]
            Eq(h) == h = [s \in SUBSET (DOMAIN named) |-> IF s = {} THEN l ELSE Step(h[s \ {Max(s)}], Max(s))]
            It == CHOOSE h : Eq(h)
<1>1. FoldLeft(CmdBreakpointAddCommonArg, l, named) = It[DOMAIN named]
  BY DEF FoldLeft, MapThenFoldSet
<1>2. n \in Nat /\ DOMAIN named = 1 .. n
  OBVIOUS
<1>3. \A x \in Exact, i \in 1 .. n : Step(x, i) \in Exact
  BY AddedIsExact
<1>. HIDE DEF n, Step
<1>4. G \in [Exact \X (1 .. n) -> Exact]
  BY <1>3
<1>5. PICK g \in [SUBSET (1 .. n) -> Exact] : IsFold(g, n, l, G)
  <2>. HIDE DEF G
  <2>. QED BY <1>2, <1>4, FoldExists
<1>6. Eq(g)
  <2>1. ASSUME NEW s \in SUBSET (1 .. n), s # {}
        PROVE  G[<<g[s \ {Max(s)}], Max(s)>>] = Step(g[s \ {Max(s)}], Max(s))
    <3>1. Max(s) \in 1 .. n /\ g[s \ {Max(s)}] \in Exact
      BY <1>2, <2>1, MaxIs
    <3>. QED BY <3>1
  <2>2. g = [s \in SUBSET (1 .. n) |-> IF s = {} THEN l ELSE G[<<g[s \ {Max(s)}], Max(s)>>]]
    BY <1>5 DEF IsFold
  <2>. HIDE DEF G
  <2>. QED BY <1>2, <2>1, <2>2
<1>7. Eq(It)
  <2>. HIDE DEF Eq
  <2>. QED BY <1>6
<1>. HIDE DEF It
<1>8. It[{}] = l
  BY <1>7
<1>9. ASSUME NEW k \in 1 .. n, It[1 .. k - 1] \in Exact PROVE It[1 .. k] \in Exact
  <2>1. 1 .. k \in SUBSET (1 .. n) /\ 1 .. k # {} /\ Max(1 .. k) = k /\ (1 .. k) \ {k} = 1 .. k - 1
    BY <1>2, Prefix
  <2>2. It[1 .. k] = Step(It[(1 .. k) \ {Max(1 .. k)}], Max(1 .. k))
    BY <1>2, <1>7, <2>1
  <2>3. It[1 .. k] = Step(It[1 .. k - 1], k)
    BY <2>1, <2>2
  <2>. QED BY <1>3, <1>9, <2>3
<1>10. It[1 .. n] \in Exact
  BY <1>2, <1>8, <1>9, FoldStays
<1>. QED BY <1>1, <1>2, <1>10

\* The slot, the list and the refusal of an addition, after the addresses so far.
Additions(X) == [list : X, slot : Int, refused : BOOLEAN]
AddedOne(kind, t, address) ==
  IF t.refused \/ (kind = "watches" /\ address \in IoAddresses)
  THEN [t EXCEPT !.refused = TRUE]
  ELSE LET now == AddedAt(kind, t.list, t.slot, address)
       IN  [t EXCEPT !.list = now, !.slot = IF now = t.list THEN @ ELSE @ + 1]

AddedAll(kind, b, named) ==
  FoldLeft(LAMBDA t, address :
             IF t.refused \/ (kind = "watches" /\ address \in IoAddresses)
             THEN [t EXCEPT !.refused = TRUE]
             ELSE LET now == AddedAt(kind, t.list, t.slot, address)
                  IN  [t EXCEPT !.list = now, !.slot = IF now = t.list THEN @ ELSE @ + 1],
           b, named)

LEMMA AddedOneIsKept ==
  ASSUME NEW kind, NEW X \in {Lists, Covered}, NEW t \in Additions(X), NEW address \in Nat
  PROVE  AddedOne(kind, t, address) \in Additions(X)
<1>1. CASE t.refused \/ (kind = "watches" /\ address \in IoAddresses)
  BY <1>1 DEF AddedOne, Additions
<1>2. CASE ~ (t.refused \/ (kind = "watches" /\ address \in IoAddresses))
  <2>1. t.list \in X /\ t.slot \in Int
    BY DEF Additions
  <2>2. PICK now \in X : now = AddedAt(kind, t.list, t.slot, address)
    BY <2>1, AddedIsKept
  <2>3. PICK i \in Int : i = IF now = t.list THEN t.slot ELSE t.slot + 1
    BY <2>1
  <2>4. AddedOne(kind, t, address) = [t EXCEPT !.list = now, !.slot = i]
    BY <1>2, <2>2, <2>3 DEF AddedOne
  <2>5. [t EXCEPT !.list = now, !.slot = i] \in Additions(X)
    BY DEF Additions
  <2>. QED BY <2>4, <2>5
<1>. QED BY <1>1, <1>2

LEMMA AdditionsFold ==
  ASSUME NEW kind, NEW X \in {Lists, Covered}, NEW b \in Additions(X), NEW named \in Seq(Nat)
  PROVE  AddedAll(kind, b, named) \in Additions(X)
<1>. DEFINE n == Len(named)
            T == Additions(X)
            Step(t, i) == AddedOne(kind, t, named[i])
            G == [p \in T \X (1 .. n) |-> Step(p[1], p[2])]
            Eq(h) == h = [s \in SUBSET (DOMAIN named) |-> IF s = {} THEN b ELSE Step(h[s \ {Max(s)}], Max(s))]
            It == CHOOSE h : Eq(h)
<1>1. AddedAll(kind, b, named) = It[DOMAIN named]
  BY DEF AddedAll, FoldLeft, MapThenFoldSet, AddedOne
<1>2. n \in Nat /\ DOMAIN named = 1 .. n
  OBVIOUS
<1>3. \A t \in T, i \in 1 .. n : Step(t, i) \in T
  BY AddedOneIsKept
<1>. HIDE DEF n, Step, T
<1>4. G \in [T \X (1 .. n) -> T]
  BY <1>3
<1>5. PICK g \in [SUBSET (1 .. n) -> T] : IsFold(g, n, b, G)
  <2>. HIDE DEF G
  <2>. QED BY <1>2, <1>4, FoldExists DEF T
<1>6. Eq(g)
  <2>1. ASSUME NEW s \in SUBSET (1 .. n), s # {}
        PROVE  G[<<g[s \ {Max(s)}], Max(s)>>] = Step(g[s \ {Max(s)}], Max(s))
    <3>1. Max(s) \in 1 .. n /\ g[s \ {Max(s)}] \in T
      BY <1>2, <2>1, MaxIs
    <3>. QED BY <3>1
  <2>2. g = [s \in SUBSET (1 .. n) |-> IF s = {} THEN b ELSE G[<<g[s \ {Max(s)}], Max(s)>>]]
    BY <1>5 DEF IsFold
  <2>. HIDE DEF G
  <2>. QED BY <1>2, <2>1, <2>2
<1>7. Eq(It)
  <2>. HIDE DEF Eq
  <2>. QED BY <1>6
<1>. HIDE DEF It
<1>8. It[{}] = b
  BY <1>7
<1>9. ASSUME NEW k \in 1 .. n, It[1 .. k - 1] \in T PROVE It[1 .. k] \in T
  <2>1. 1 .. k \in SUBSET (1 .. n) /\ 1 .. k # {} /\ Max(1 .. k) = k /\ (1 .. k) \ {k} = 1 .. k - 1
    BY <1>2, Prefix
  <2>2. It[1 .. k] = Step(It[(1 .. k) \ {Max(1 .. k)}], Max(1 .. k))
    BY <1>2, <1>7, <2>1
  <2>3. It[1 .. k] = Step(It[1 .. k - 1], k)
    BY <2>1, <2>2
  <2>. QED BY <1>3, <1>9, <2>3
<1>10. It[1 .. n] \in T
  BY <1>2, <1>8, <1>9, FoldStays DEF T
<1>. QED BY <1>1, <1>2, <1>10 DEF T

(* The commands *)

\* A command writes one list, and leaves it counted as it was.
LEMMA ListReplaced ==
  ASSUME ListsInv, NEW kind \in ListKinds, NEW l \in Lists, ListBecomes(kind, l), UNCHANGED pointed,
         kind = "breakpoints" => l \in Exact,
         kind # "breakpoints" /\ (kind # "zeropage" \/ ~ pointed) => l \in Covered
  PROVE  ListsInv'
<1>1. debugLists' \in [ListKinds -> Lists]
  BY DEF ListsInv, ListBecomes
<1>2. \A k \in ListKinds : debugLists'[k] = IF k = kind THEN l ELSE debugLists[k]
  BY DEF ListsInv, ListBecomes
<1>3. debugLists'["breakpoints"] \in Exact
  BY <1>2 DEF ListsInv, ListKinds
<1>4. ASSUME NEW k \in ListKinds \ {"breakpoints"}, k # "zeropage" \/ ~ pointed
      PROVE  debugLists'[k] \in Covered
  BY <1>2, <1>4 DEF ListsInv
<1>. QED BY <1>1, <1>3, <1>4 DEF ListsInv

\* What a list is, by its kind: the sets of the invariant.
KindOf(kind) ==
  IF kind = "breakpoints" THEN Exact ELSE IF kind # "zeropage" \/ ~ pointed THEN Covered ELSE Lists

LEMMA ListIsOfKind ==
  ASSUME ListsInv, NEW kind \in ListKinds
  PROVE  /\ KindOf(kind) \in {Lists, Exact, Covered} /\ debugLists[kind] \in KindOf(kind)
         /\ debugLists[kind] \in Lists
         /\ kind # "breakpoints" => KindOf(kind) \in {Lists, Covered}
BY DEF ListsInv, KindOf

LEMMA KindReplaced ==
  ASSUME ListsInv, NEW kind \in ListKinds, NEW l \in KindOf(kind), ListBecomes(kind, l), UNCHANGED pointed
  PROVE  ListsInv'
<1>1. l \in Lists
  BY DEF KindOf, Exact, Covered
<1>2. /\ kind = "breakpoints" => l \in Exact
      /\ kind # "breakpoints" /\ (kind # "zeropage" \/ ~ pointed) => l \in Covered
  BY DEF KindOf
<1>. QED BY <1>1, <1>2, ListReplaced

LEMMA SameLists == ASSUME ListsInv, UNCHANGED <<debugLists, pointed>> PROVE ListsInv'
BY DEF ListsInv

LEMMA BreakpointsAdded ==
  ASSUME ListsInv, NEW named \in Seq(Nat), CmdBreakpointAddPC(named) PROVE ListsInv'
<1>1. "breakpoints" \in ListKinds /\ debugLists["breakpoints"] \in Exact /\ KindOf("breakpoints") = Exact
  BY DEF ListsInv, ListKinds, KindOf
<1>2. PICK l \in Exact : l = FoldLeft(CmdBreakpointAddCommonArg, debugLists["breakpoints"], named)
  BY <1>1, BreakpointsFold
<1>3. ListBecomes("breakpoints", l) /\ UNCHANGED pointed
  BY <1>2 DEF CmdBreakpointAddPC
<1>. QED BY <1>1, <1>3, KindReplaced

LEMMA OthersAdded ==
  ASSUME ListsInv, NEW named \in Seq(Nat), NEW kind \in ListKinds \ {"breakpoints"}, AddTo(kind, named)
  PROVE  ListsInv'
<1>. DEFINE list == debugLists[kind]
            first == IF Len(named) > 1 THEN named[1] ELSE FirstFree(list)
            addresses == IF Len(named) > 1 THEN Tail(named) ELSE named
<1>1. KindOf(kind) \in {Lists, Covered} /\ list \in KindOf(kind) /\ list \in Lists
  BY ListIsOfKind
<1>2. first \in Int
  <2>1. FirstFree(list) \in Int
    BY <1>1, FirstFreeIs
  <2>2. Len(named) > 1 => named[1] \in Nat
    OBVIOUS
  <2>. HIDE DEF list
  <2>. QED BY <2>1, <2>2
<1>3. addresses \in Seq(Nat)
  BY Len(named) > 1 => Tail(named) \in Seq(Nat)
<1>. HIDE DEF list, first, addresses
<1>4. PICK b : b = [list |-> list, slot |-> first, refused |-> FALSE]
  OBVIOUS
<1>5. b \in Additions(KindOf(kind))
  BY <1>1, <1>2, <1>4 DEF Additions
<1>6. PICK t \in Additions(KindOf(kind)) : t = AddedAll(kind, b, addresses)
  BY <1>1, <1>3, <1>5, AdditionsFold
<1>7. ListBecomes(kind, t.list) /\ UNCHANGED pointed
  BY <1>4, <1>6 DEF AddTo, AddedAll, list, first, addresses
<1>8. t.list \in KindOf(kind)
  BY DEF Additions
<1>. QED BY <1>7, <1>8, KindReplaced

LEMMA ListCleared ==
  ASSUME ListsInv, NEW named \in Seq(Nat), NEW kind \in ListKinds \ {"bookmarks"}, Clear(kind, named)
  PROVE  ListsInv'
<1>. DEFINE list == debugLists[kind]
<1>1. KindOf(kind) \in {Lists, Exact, Covered} /\ list \in KindOf(kind)
  BY ListIsOfKind
<1>2. CASE list.count = 0 \/ (named = << >> /\ kind = "zeropage")
  <2>1. UNCHANGED <<debugLists, pointed>>
    BY <1>2 DEF Clear
  <2>. QED BY <2>1, SameLists
<1>3. CASE list.count # 0 /\ named = << >> /\ kind # "zeropage"
  <2>1. ListBecomes(kind, bwz_RemoveAll) /\ UNCHANGED pointed
    BY <1>3 DEF Clear
  <2>2. bwz_RemoveAll \in KindOf(kind)
    BY RemovedAllIs, ExactIsCovered DEF KindOf, Exact
  <2>. QED BY <2>1, <2>2, KindReplaced
<1>4. CASE list.count # 0 /\ named # << >>
  <2>1. ListBecomes(kind, bwz_ClearViaArgs(list, named)) /\ UNCHANGED pointed
    BY <1>4 DEF Clear
  <2>2. \A x \in KindOf(kind), i \in Slot : bwz_RemoveOne(x, i) \in KindOf(kind)
    BY <1>1, RemovedIsKept
  <2>3. bwz_ClearViaArgs(list, named) \in KindOf(kind)
    BY <1>1, <2>2, ClearFolds
  <2>. QED BY <2>1, <2>3, KindReplaced
<1>. QED BY <1>2, <1>3, <1>4

LEMMA BookmarksCleared == ASSUME ListsInv, NEW unset, CmdBookmarkClear(unset) PROVE ListsInv'
<1>. DEFINE list == debugLists["bookmarks"]
            f == [i \in Slot |-> [list.slots[i] EXCEPT !.set = @ /\ i \notin unset]]
<1>1. list \in Lists /\ list \in Covered /\ "bookmarks" \in ListKinds /\ KindOf("bookmarks") = Covered
  BY DEF ListsInv, ListKinds, KindOf
<1>2. \A i \in Slot : f[i] \in SlotRecords /\ (f[i].set => list.slots[i].set)
  BY <1>1 DEF Lists, SlotRecords
<1>3. f \in [Slot -> SlotRecords]
  BY <1>2
<1>4. PICK m : m = [list EXCEPT !.slots = f]
  OBVIOUS
<1>5. ListBecomes("bookmarks", m) /\ UNCHANGED pointed
  <2>1. [list EXCEPT !.slots = [i \in Slot |-> [list.slots[i] EXCEPT !.set = @ /\ i \notin unset]]] = m
    BY <1>4
  <2>. HIDE DEF f
  <2>. QED BY <2>1 DEF CmdBookmarkClear
<1>. HIDE DEF list, f
<1>6. m \in Lists /\ m.count = list.count /\ SetIn(m) = {i \in Slot : f[i].set}
  BY <1>1, <1>3, <1>4, SlotsRewritten
<1>7. SetIn(m) \subseteq SetIn(list)
  BY <1>2, <1>6 DEF SetIn
<1>8. m \in Covered
  BY <1>1, <1>6, <1>7, KeptWhenFewer
<1>. QED BY <1>1, <1>5, <1>8, KindReplaced

\* A list whose slots stay set or not as they were is counted as it was.
LEMMA SlotsKept ==
  ASSUME ListsInv, NEW kind \in ListKinds, NEW f \in [Slot -> SlotRecords],
         \A i \in Slot : f[i].set = debugLists[kind].slots[i].set,
         ListBecomes(kind, [debugLists[kind] EXCEPT !.slots = f]), UNCHANGED pointed
  PROVE  ListsInv'
<1>1. PICK list \in Lists : list = debugLists[kind] /\ list \in KindOf(kind)
  BY ListIsOfKind
<1>2. PICK m : m = [list EXCEPT !.slots = f]
  OBVIOUS
<1>3. m \in Lists /\ m.count = list.count /\ SetIn(m) = {i \in Slot : f[i].set}
  BY <1>1, <1>2, SlotsRewritten
<1>4. SetIn(m) = SetIn(list)
  BY <1>1, <1>3 DEF SetIn
<1>5. (list \in Exact => m \in Exact) /\ (list \in Covered => m \in Covered)
  BY <1>3, <1>4 DEF Exact, Covered
<1>6. m \in KindOf(kind)
  BY <1>1, <1>3, <1>5 DEF KindOf
<1>. QED BY <1>1, <1>2, <1>6, KindReplaced

LEMMA SlotsEnabled ==
  ASSUME ListsInv, NEW kind \in ListKinds, NEW named, NEW on \in BOOLEAN, EnableDisable(kind, named, on)
  PROVE  ListsInv'
<1>. DEFINE list == debugLists[kind]
            f == [i \in Slot |-> [list.slots[i] EXCEPT !.enabled = IF \E k \in DOMAIN named : named[k] = i THEN on ELSE @]]
<1>1. list.slots \in [Slot -> SlotRecords]
  BY ListIsOfKind DEF Lists
<1>2. ASSUME NEW i \in Slot PROVE f[i] \in SlotRecords /\ f[i].set = list.slots[i].set
  <2>1. PICK e \in BOOLEAN : e = IF \E k \in DOMAIN named : named[k] = i THEN on ELSE list.slots[i].enabled
    BY <1>1 DEF SlotRecords
  <2>2. f[i] = [list.slots[i] EXCEPT !.enabled = e]
    BY <2>1
  <2>. HIDE DEF f, list
  <2>. QED BY <1>1, <2>2 DEF SlotRecords
<1>3. f \in [Slot -> SlotRecords]
  BY <1>2
<1>4. ListBecomes(kind, [list EXCEPT !.slots = f]) /\ UNCHANGED pointed
  <2>1. [list EXCEPT !.slots = [i \in Slot |-> [list.slots[i] EXCEPT !.enabled = IF \E k \in DOMAIN named : named[k] = i THEN on ELSE @]]]
          = [list EXCEPT !.slots = f]
    OBVIOUS
  <2>. HIDE DEF f
  <2>. QED BY <2>1 DEF EnableDisable
<1>. HIDE DEF f
<1>. QED BY <1>2, <1>3, <1>4, SlotsKept

LEMMA PointerSet ==
  ASSUME ListsInv, NEW i \in Slot, CmdZeroPagePointer(i, 0) PROVE ListsInv'
<1>1. PICK list \in Lists : list = debugLists["zeropage"] /\ "zeropage" \in ListKinds
  BY DEF ListsInv, ListKinds
<1>2. PICK c : c = [set |-> TRUE, enabled |-> TRUE, address |-> 0]
  OBVIOUS
<1>3. c \in SlotRecords
  BY <1>2 DEF SlotRecords
<1>4. PICK m : m = [list EXCEPT !.slots[i] = c]
  OBVIOUS
<1>5. m \in Lists
  BY <1>3, <1>4 DEF Lists
<1>6. debugLists' = [debugLists EXCEPT !["zeropage"] = m] /\ pointed' = TRUE
  BY <1>1, <1>2, <1>4 DEF CmdZeroPagePointer, ListBecomes
<1>7. debugLists' \in [ListKinds -> Lists] /\ \A k \in ListKinds : k # "zeropage" => debugLists'[k] = debugLists[k]
  BY <1>5, <1>6 DEF ListsInv
<1>. QED BY <1>6, <1>7 DEF ListsInv, ListKinds

LEMMA PointerOff ==
  ASSUME ListsInv, NEW i \in Slot, CmdZeroPagePointerOff(i) PROVE ListsInv'
<1>1. PICK list \in Lists : list = debugLists["zeropage"] /\ "zeropage" \in ListKinds
  BY DEF ListsInv, ListKinds
<1>. DEFINE f == [list.slots EXCEPT ![i].enabled = FALSE]
<1>2. list.slots \in [Slot -> SlotRecords]
  BY DEF Lists
<1>3. f \in [Slot -> SlotRecords] /\ \A j \in Slot : f[j].set = list.slots[j].set
  BY <1>2 DEF SlotRecords
<1>4. [list EXCEPT !.slots[i].enabled = FALSE] = [list EXCEPT !.slots = f]
  OBVIOUS
<1>5. ListBecomes("zeropage", [debugLists["zeropage"] EXCEPT !.slots = f]) /\ UNCHANGED pointed
  BY <1>1, <1>4 DEF CmdZeroPagePointerOff
<1>. HIDE DEF f
<1>. QED BY <1>1, <1>3, <1>5, SlotsKept

\* The counts of the lists are inductive: a breakpoint's exact, the others' no less than the slots
\* set and no more than there are, but for pointers set behind the count (bwz_RemoveOne, CmdBreakpointAddPC).
THEOREM ListsAreInductive == ListsSpec => []ListsInv
<1>1. ListsInit => ListsInv
  <2>. SUFFICES ASSUME ListsInit PROVE ListsInv
    OBVIOUS
  <2>1. PICK l : l = [slots |-> [i \in Slot |-> EmptySlot], count |-> 0]
    OBVIOUS
  <2>2. l \in Exact
    BY <2>1, RemovedAllIs DEF bwz_RemoveAll
  <2>3. l \in Lists /\ l \in Covered
    BY <2>2, ExactIsCovered DEF Exact
  <2>4. debugLists = [k \in ListKinds |-> l] /\ pointed = FALSE
    BY <2>1 DEF ListsInit
  <2>. QED BY <2>2, <2>3, <2>4 DEF ListsInv, ListKinds
<1>2. ListsInv /\ [ListsNext]_listVars => ListsInv'
  <2>. SUFFICES ASSUME ListsInv, [ListsNext]_listVars PROVE ListsInv'
    OBVIOUS
  <2>0. ListArguments \subseteq Seq(Nat)
    BY ListsAssumption
  <2>1. ASSUME NEW named \in ListArguments, CmdBreakpointAddPC(named) PROVE ListsInv'
    BY <2>0, <2>1, BreakpointsAdded
  <2>2. ASSUME NEW named \in ListArguments, NEW kind \in ListKinds \ {"breakpoints"}, AddTo(kind, named) PROVE ListsInv'
    BY <2>0, <2>2, OthersAdded
  <2>3. ASSUME NEW named \in ListArguments, NEW kind \in ListKinds \ {"bookmarks"}, Clear(kind, named) PROVE ListsInv'
    BY <2>0, <2>3, ListCleared
  <2>4. ASSUME NEW named \in ListArguments, NEW kind \in ListKinds, NEW on \in BOOLEAN, EnableDisable(kind, named, on)
        PROVE  ListsInv'
    BY <2>4, SlotsEnabled
  <2>5. ASSUME NEW i \in Slot, CmdZeroPagePointer(i, 0) PROVE ListsInv'
    BY <2>5, PointerSet
  <2>6. ASSUME NEW i \in Slot, CmdZeroPagePointerOff(i) PROVE ListsInv'
    BY <2>6, PointerOff
  <2>7. ASSUME NEW unset \in {{0}, Slot}, CmdBookmarkClear(unset) PROVE ListsInv'
    BY <2>7, BookmarksCleared
  <2>8. CASE UNCHANGED listVars
    BY <2>8, SameLists DEF listVars
  <2>. QED BY <2>1, <2>2, <2>3, <2>4, <2>5, <2>6, <2>7, <2>8 DEF ListsNext
<1>. QED BY <1>1, <1>2, PTL DEF ListsSpec

\* What a count says of a list is true, whatever is added, cleared and named, and however many
\* slots there are: a breakpoint is refused only when every slot is taken, and a list said to be
\* empty is (Clear, CmdBreakpointAddCommonArg, AddTo).
THEOREM CountsAreTrue == ListsSpec => []ListsTellTheTruth
<1>1. ListsInv => ListsTellTheTruth
  <2>. SUFFICES ASSUME ListsInv, NEW kind \in ListKinds
                PROVE  /\ kind = "breakpoints" => debugLists[kind].count = Cardinality(SetIn(debugLists[kind]))
                       /\ kind # "zeropage" \/ ~ pointed =>
                            /\ Cardinality(SetIn(debugLists[kind])) <= debugLists[kind].count
                            /\ debugLists[kind].count <= ListSlots
    BY DEF ListsTellTheTruth
  <2>1. CASE kind = "breakpoints"
    BY <2>1, ExactIsCovered DEF ListsInv, Exact, Covered
  <2>2. CASE kind # "breakpoints"
    BY <2>2 DEF ListsInv, Covered
  <2>. QED BY <2>1, <2>2
<1>. QED BY <1>1, ListsAreInductive, PTL

----------------------------------------------------------------------------
(* The keyboard. The keys down once the queued commands are delivered are keys *)
(* the hand is on, or whose release no handler saw.                            *)

KeyCards ==
  [latch : MatrixKeys \cup {"none"}, strobe : BOOLEAN, held : Seq(MatrixKeys), rept : BOOLEAN, next : Nat]
Commands ==
  {<<"press", k>> : k \in MatrixKeys} \cup {<<"release", k>> : k \in MatrixKeys}
    \cup {<<"rept", on>> : on \in BOOLEAN} \cup {<<"release all">>}
CardKeys == MatrixKeys \cup {"rept"}

Presses(c, k) == c = <<"press", k>> \/ (k = "rept" /\ c = <<"rept", TRUE>>)
Frees(c, k) ==
  \/ c = <<"release", k>>
  \/ k = "rept" /\ c = <<"rept", FALSE>>
  \/ k # "rept" /\ c = <<"release all">>
DownIn(c) == {k \in CardKeys : (k # "rept" /\ k \in Range(c.held)) \/ (k = "rept" /\ c.rept)}
\* After the first i commands of q, with the keys d down before them.
DownBy(q, d, i, k) ==
  \/ k \in d /\ \A j \in 1 .. i : ~ Frees(q[j], k)
  \/ \E j \in 1 .. i : Presses(q[j], k) /\ \A m \in j + 1 .. i : ~ Frees(q[m], k)
Unaccounted(k) == k \notin typed \cup missed

QueueIsAccounted ==
  \A k \in CardKeys : DownBy(keyCommands, DownIn(keyCard), Len(keyCommands), k) => ~ Unaccounted(k)
SwitchesAreAccounted ==
  \A s \in appleKeys : \E key \in (typed \cup missed) \cap AppleKeys : SwitchOf(key) = s
Repeating(c) == c.next # 0 <=> Repeats(c)

KeyboardInv ==
  /\ keyboardModel \in KeyboardModels
  /\ keyCard \in KeyCards /\ IsInjective(keyCard.held)
  /\ keyAlarm = keyCard.next /\ keyClock \in Nat /\ pressedAt \in Nat
  /\ keyCommands \in Seq(Commands)
  /\ QueueIsAccounted /\ SwitchesAreAccounted
  /\ Repeating(keyCard) /\ RepeatKeepsTime

(* The keys held *)

LEMMA KeyNumbers ==
  /\ HeldCapacity \in Nat \ {0} /\ VideoFrame \in Nat \ {0} /\ RepeatDelay \in Nat \ {0}
  /\ RepeatPhase \in Nat \ {0} /\ RepeatPeriod \in Nat \ {0} /\ ReptPeriod \in Nat \ {0}
  /\ RepeatDelay % RepeatPhase = 0 /\ Spans \subseteq Nat
BY KeyboardAssumption

LEMMA HoldIs ==
  ASSUME NEW s \in Seq(MatrixKeys), IsInjective(s), NEW key \in MatrixKeys
  PROVE  /\ Hold(s, key) \in Seq(MatrixKeys) /\ IsInjective(Hold(s, key))
         /\ Hold(s, key) # << >> /\ Range(Hold(s, key)) \subseteq Range(s) \cup {key}
<1>1. CASE key \in Range(s)
  BY <1>1 DEF Hold, Range
<1>2. CASE key \notin Range(s)
  <2>. DEFINE r == IF Len(s) = HeldCapacity THEN Tail(s) ELSE s
              t == Append(r, key)
  <2>1. /\ r \in Seq(MatrixKeys)
        /\ Len(s) = HeldCapacity => Len(r) = Len(s) - 1 /\ \A i \in 1 .. Len(r) : r[i] = s[i + 1]
        /\ Len(s) # HeldCapacity => r = s
    BY KeyNumbers
  <2>2. Hold(s, key) = t
    BY <1>2 DEF Hold
  <2>3. \A i \in 1 .. Len(r) : \E j \in 1 .. Len(s) : r[i] = s[j]
    <3>. HIDE DEF r
    <3>1. ASSUME NEW i \in 1 .. Len(r), Len(s) = HeldCapacity PROVE i + 1 \in 1 .. Len(s) /\ r[i] = s[i + 1]
      BY <2>1, <3>1
    <3>. QED BY <2>1, <3>1
  <2>4. \A i, j \in 1 .. Len(r) : r[i] = r[j] => i = j
    <3>. HIDE DEF r
    <3>0. \A i, j \in 1 .. Len(s) : s[i] = s[j] => i = j
      BY DEF IsInjective
    <3>1. ASSUME NEW i \in 1 .. Len(r), NEW j \in 1 .. Len(r), r[i] = r[j], Len(s) = HeldCapacity PROVE i = j
      <4>1. i + 1 \in 1 .. Len(s) /\ j + 1 \in 1 .. Len(s) /\ s[i + 1] = s[j + 1]
        BY <2>1, <3>1
      <4>. QED BY <3>0, <4>1
    <3>. QED BY <2>1, <3>0, <3>1
  <2>5. \A j \in 1 .. Len(s) : s[j] # key
    BY <1>2 DEF Range
  <2>. HIDE DEF r
  <2>6. /\ t \in Seq(MatrixKeys) /\ Len(t) = Len(r) + 1 /\ t[Len(t)] = key
        /\ \A i \in 1 .. Len(r) : t[i] = r[i]
    BY <2>1
  <2>. HIDE DEF t
  <2>7. ASSUME NEW i \in 1 .. Len(t), NEW j \in 1 .. Len(t), t[i] = t[j] PROVE i = j
    <3>0. ASSUME NEW m \in 1 .. Len(t), m # Len(t) PROVE t[m] # key
      <4>1. m \in 1 .. Len(r)
        BY <2>1, <2>6, <3>0
      <4>. QED BY <2>3, <2>5, <2>6, <4>1
    <3>1. CASE i = Len(t) \/ j = Len(t)
      BY <2>6, <2>7, <3>0, <3>1
    <3>2. CASE i # Len(t) /\ j # Len(t)
      <4>1. i \in 1 .. Len(r) /\ j \in 1 .. Len(r)
        BY <2>1, <2>6, <3>2
      <4>. QED BY <2>4, <2>6, <2>7, <4>1
    <3>. QED BY <3>1, <3>2
  <2>8. ASSUME NEW i \in 1 .. Len(t) PROVE t[i] = key \/ \E j \in 1 .. Len(s) : t[i] = s[j]
    <3>1. i = Len(t) \/ i \in 1 .. Len(r)
      BY <2>1, <2>6
    <3>. QED BY <2>3, <2>6, <3>1
  <2>9. IsInjective(t) /\ Range(t) \subseteq Range(s) \cup {key}
    BY <2>6, <2>7, <2>8 DEF IsInjective, Range
  <2>10. t # << >>
    BY <2>1, <2>6
  <2>. QED BY <2>2, <2>6, <2>9, <2>10
<1>. QED BY <1>1, <1>2

LEMMA RemovedAt ==
  ASSUME NEW M, NEW s \in Seq(M), NEW i \in 1 .. Len(s)
  PROVE  /\ RemoveAt(s, i) \in Seq(M) /\ Len(RemoveAt(s, i)) = Len(s) - 1
         /\ \A j \in 1 .. Len(s) - 1 : RemoveAt(s, i)[j] = IF j < i THEN s[j] ELSE s[j + 1]
<1>. DEFINE a == SubSeq(s, 1, i - 1)
            b == SubSeq(s, i + 1, Len(s))
<1>1. a \in Seq(M) /\ Len(a) = i - 1 /\ \A j \in 1 .. i - 1 : a[j] = s[j]
  OBVIOUS
<1>2. b \in Seq(M) /\ Len(b) = Len(s) - i /\ \A j \in 1 .. Len(s) - i : b[j] = s[i + j]
  OBVIOUS
<1>3. RemoveAt(s, i) = a \o b
  BY DEF RemoveAt
<1>. HIDE DEF a, b
<1>4. a \o b \in Seq(M) /\ Len(a \o b) = Len(s) - 1
  <2>1. a \o b \in Seq(M) /\ Len(a \o b) = Len(a) + Len(b)
    BY <1>1, <1>2, ConcatProperties
  <2>2. Len(a) + Len(b) = Len(s) - 1
    BY <1>1, <1>2
  <2>. QED BY <2>1, <2>2
<1>5. ASSUME NEW j \in 1 .. Len(s) - 1 PROVE (a \o b)[j] = IF j < i THEN s[j] ELSE s[j + 1]
  <2>1. CASE j < i
    BY <1>1, <1>2, <2>1
  <2>2. CASE ~ (j < i)
    <3>1. j - (i - 1) \in 1 .. Len(s) - i /\ i + (j - (i - 1)) = j + 1
      BY <2>2
    <3>2. (a \o b)[j] = b[j - (i - 1)]
      BY <1>1, <1>2, <2>2
    <3>. QED BY <1>2, <2>2, <3>1, <3>2
  <2>. QED BY <2>1, <2>2
<1>. QED BY <1>3, <1>4, <1>5

\* Of a key held once, the first place is the only one.
LEMMA LetGoIs ==
  ASSUME NEW s \in Seq(MatrixKeys), IsInjective(s), NEW key
  PROVE  /\ LetGo(s, key) \in Seq(MatrixKeys) /\ IsInjective(LetGo(s, key))
         /\ Range(LetGo(s, key)) \subseteq Range(s) \ {key}
         /\ s = << >> => LetGo(s, key) = << >>
<1>1. CASE key \notin Range(s)
  BY <1>1 DEF LetGo, Range
<1>2. CASE key \in Range(s)
  <2>0. \A i, j \in 1 .. Len(s) : s[i] = s[j] => i = j
    BY DEF IsInjective
  <2>1. PICK i \in 1 .. Len(s) : s[i] = key
    BY <1>2 DEF Range
  <2>2. \A j \in 1 .. i - 1 : s[j] # key
    BY <2>0, <2>1
  <2>3. \A j \in DOMAIN s : s[j] = key => j = i
    BY <2>0, <2>1
  <2>4. held_index(s, key) = i
    BY <2>1, <2>2, <2>3 DEF held_index
  <2>5. PICK t : t = RemoveAt(s, i)
    OBVIOUS
  <2>6. /\ t \in Seq(MatrixKeys) /\ Len(t) = Len(s) - 1
        /\ \A j \in 1 .. Len(s) - 1 : t[j] = IF j < i THEN s[j] ELSE s[j + 1]
    BY <2>5, RemovedAt
  <2>7. ASSUME NEW j \in 1 .. Len(t)
        PROVE  \E m \in 1 .. Len(s) : m # i /\ t[j] = s[m] /\ m = IF j < i THEN j ELSE j + 1
    BY <2>6
  <2>8. ASSUME NEW j \in 1 .. Len(t), NEW k \in 1 .. Len(t), t[j] = t[k] PROVE j = k
    <3>1. PICK m \in 1 .. Len(s) : t[j] = s[m] /\ m = IF j < i THEN j ELSE j + 1
      BY <2>7
    <3>2. PICK n \in 1 .. Len(s) : t[k] = s[n] /\ n = IF k < i THEN k ELSE k + 1
      BY <2>7
    <3>3. m = n
      BY <2>0, <2>8, <3>1, <3>2
    <3>. QED BY <3>1, <3>2, <3>3
  <2>9. IsInjective(t)
    BY <2>6, <2>8 DEF IsInjective
  <2>10. Range(t) \subseteq Range(s) \ {key}
    <3>1. ASSUME NEW j \in 1 .. Len(t) PROVE t[j] \in Range(s) \ {key}
      <4>1. PICK m \in 1 .. Len(s) : m # i /\ t[j] = s[m]
        BY <2>7
      <4>. QED BY <2>0, <2>1, <4>1 DEF Range
    <3>. QED BY <2>6, <3>1 DEF Range
  <2>11. LetGo(s, key) = t /\ s # << >>
    BY <1>2, <2>1, <2>4, <2>5 DEF LetGo
  <2>. QED BY <2>6, <2>9, <2>10, <2>11
<1>. QED BY <1>1, <1>2

(* The times of the repeat *)

LEMMA Multiple == ASSUME NEW n \in Nat \ {0}, NEW c \in Nat PROVE (n * c) % n = 0
OBVIOUS

LEMMA Divided == ASSUME NEW n \in Nat \ {0}, NEW a \in Nat, a % n = 0 PROVE \E c \in Nat : a = n * c
<1>1. PICK q \in Nat : q = a \div n
  BY Quotient
<1>2. a = n * q
  BY <1>1
<1>. QED BY <1>2

LEMMA Distributed == ASSUME NEW n \in Nat, NEW a \in Nat, NEW b \in Nat PROVE n * (a + b) = n * a + n * b
OBVIOUS

LEMMA Reordered == ASSUME NEW a \in Nat, NEW b \in Nat, NEW c \in Nat PROVE (a * b) * c = (a * c) * b
OBVIOUS

\* A number raised to the next multiple of p.
LEMMA PhaseIs ==
  ASSUME NEW f \in Nat, NEW p \in Nat \ {0}
  PROVE  /\ (p - (f % p)) % p \in 0 .. p - 1
         /\ \E m \in Nat : f + ((p - (f % p)) % p) = p * m
<1>1. PICK q \in Nat : q = f \div p
  BY Quotient
<1>2. PICK r \in Nat : r = f % p
  OBVIOUS
<1>3. f = p * q + r /\ r < p
  BY <1>1, <1>2
<1>4. CASE r = 0
  <2>1. (p - r) % p = 0
    BY <1>4
  <2>2. (p - (f % p)) % p = 0 /\ f = p * q
    BY <1>2, <1>3, <1>4, <2>1
  <2>3. f + 0 = f /\ 0 \in 0 .. p - 1
    OBVIOUS
  <2>. QED BY <2>2, <2>3
<1>5. CASE r # 0
  <2>1. (p - r) % p = p - r /\ p - r \in 0 .. p - 1
    BY <1>3, <1>5
  <2>2. p * (q + 1) = p * q + p
    OBVIOUS
  <2>3. p * q \in Nat
    OBVIOUS
  <2>4. f + (p - r) = p * (q + 1)
    BY <1>3, <2>2, <2>3
  <2>5. (p - (f % p)) % p = p - r
    BY <1>2, <2>1
  <2>6. PICK m \in Nat : m = q + 1
    OBVIOUS
  <2>7. f + ((p - (f % p)) % p) = p * m
    BY <2>4, <2>5, <2>6
  <2>. QED BY <2>1, <2>5, <2>7
<1>. QED BY <1>4, <1>5

LEMMA AutoRepeatIs ==
  ASSUME NEW now \in Nat
  PROVE  /\ AutoRepeatAt(now) \in Nat /\ AutoRepeatAt(now) > now
         /\ AutoRepeatAt(now) > now + (RepeatDelay - 1) * VideoFrame
         /\ AutoRepeatAt(now) <= now + (RepeatDelay + RepeatPhase) * VideoFrame
         /\ AutoRepeatAt(now) % (RepeatPhase * VideoFrame) = 0
<1>1. PICK v \in Nat : v = VideoFrame
  BY KeyNumbers
<1>2. PICK d \in Nat : d = RepeatDelay
  BY KeyNumbers
<1>3. PICK p \in Nat : p = RepeatPhase
  BY KeyNumbers
<1>4. v > 0 /\ d > 0 /\ p > 0 /\ d % p = 0
  BY <1>1, <1>2, <1>3, KeyNumbers
<1>5. PICK f \in Nat : f = now \div v
  BY <1>1, <1>4, Quotient
<1>6. v * f <= now /\ now < v * f + v
  BY <1>4, <1>5, Quotient
<1>7. PICK e \in 0 .. p - 1 : e = (p - (f % p)) % p
  BY <1>4, PhaseIs
<1>8. PICK at : at = (f + d + e) * v
  OBVIOUS
<1>9. AutoRepeatAt(now) = at
  BY <1>1, <1>2, <1>3, <1>5, <1>7, <1>8 DEF AutoRepeatAt
<1>10. PICK m \in Nat : f + e = p * m
  <2>0. p \in Nat \ {0}
    BY <1>4
  <2>1. \E m \in Nat : f + ((p - (f % p)) % p) = p * m
    BY <2>0, PhaseIs, Zenon
  <2>. QED BY <1>7, <2>1
<1>11. PICK c \in Nat : d = p * c
  BY <1>4, Divided
<1>12. at \in Nat /\ at = v * f + v * d + v * e
  BY <1>8
<1>13. v * (d - 1) = v * d - v /\ (d - 1) * v = v * d - v /\ (d + p) * v = v * d + v * p
  OBVIOUS
<1>14. v * e \in Nat /\ v * f \in Nat /\ v * d \in Nat /\ v * p \in Nat /\ v * e <= v * p /\ v <= v * d
  <2>1. e \in Nat /\ e <= p
    BY <1>7
  <2>2. v * e <= v * p
    BY <2>1, Product
  <2>3. v * 1 <= v * d
    BY <1>4, Product
  <2>. QED BY <2>1, <2>2, <2>3
<1>15. at > now + (d - 1) * v /\ at <= now + (d + p) * v /\ at > now
  BY <1>6, <1>12, <1>13, <1>14
<1>16. at % (p * v) = 0
  <2>1. f + d + e = p * (m + c)
    <3>1. p * (m + c) = p * m + p * c
      BY Distributed
    <3>2. f + d + e = (f + e) + d
      BY <1>7
    <3>. QED BY <1>10, <1>11, <3>1, <3>2
  <2>2. PICK j \in Nat : j = m + c
    OBVIOUS
  <2>3. at = (p * v) * j
    BY <1>8, <2>1, <2>2, Reordered
  <2>4. PICK w \in Nat \ {0} : w = p * v
    BY <1>4
  <2>5. (w * j) % w = 0
    BY Multiple
  <2>. QED BY <2>3, <2>4, <2>5
<1>. QED BY <1>1, <1>2, <1>3, <1>9, <1>12, <1>15, <1>16

\* A late wake: the next edge of the phase after now.
LEMMA StrobedIs ==
  ASSUME NEW at \in Nat, NEW now \in Nat, at <= now, NEW period \in Nat \ {0}
  PROVE  /\ at + period * ((now - at) \div period + 1) \in Nat
         /\ at + period * ((now - at) \div period + 1) > now
         /\ at + period * ((now - at) \div period + 1) <= now + period
         /\ \E j \in Nat : at + period * ((now - at) \div period + 1) = at + period * j
<1>1. PICK late \in Nat : late = now - at
  OBVIOUS
<1>2. PICK k \in Nat : k = late \div period
  BY Quotient
<1>3. period * k <= late /\ late < period * k + period
  BY <1>2, Quotient
<1>4. period * (k + 1) = period * k + period /\ period * k \in Nat /\ k + 1 \in Nat
  OBVIOUS
<1>5. PICK x \in Nat : x = period * (k + 1)
  BY <1>4
<1>6. at + x \in Nat /\ at + x > now /\ at + x <= now + period
  BY <1>1, <1>3, <1>4, <1>5
<1>. QED BY <1>1, <1>2, <1>4, <1>5, <1>6

(* What is down after some commands *)

LEMMA DownAgain ==
  ASSUME NEW q, NEW d, NEW i \in Nat, i # 0, NEW k
  PROVE  DownBy(q, d, i, k) <=> Presses(q[i], k) \/ (DownBy(q, d, i - 1, k) /\ ~ Frees(q[i], k))
<1>1. ASSUME DownBy(q, d, i, k) PROVE Presses(q[i], k) \/ (DownBy(q, d, i - 1, k) /\ ~ Frees(q[i], k))
  <2>1. i \in 1 .. i
    OBVIOUS
  <2>2. CASE k \in d /\ \A j \in 1 .. i : ~ Frees(q[j], k)
    BY <2>1, <2>2 DEF DownBy
  <2>3. CASE \E j \in 1 .. i : Presses(q[j], k) /\ \A m \in j + 1 .. i : ~ Frees(q[m], k)
    <3>1. PICK j \in 1 .. i : Presses(q[j], k) /\ \A m \in j + 1 .. i : ~ Frees(q[m], k)
      BY <2>3
    <3>2. CASE j = i
      BY <3>1, <3>2
    <3>3. CASE j # i
      <4>1. j \in 1 .. i - 1 /\ i \in j + 1 .. i /\ j + 1 .. i - 1 \subseteq j + 1 .. i
        BY <3>3
      <4>. QED BY <3>1, <4>1 DEF DownBy
    <3>. QED BY <3>2, <3>3
  <2>. QED BY <1>1, <2>2, <2>3 DEF DownBy
<1>2. ASSUME Presses(q[i], k) PROVE DownBy(q, d, i, k)
  <2>1. i \in 1 .. i /\ i + 1 .. i = {}
    OBVIOUS
  <2>. QED BY <1>2, <2>1 DEF DownBy
<1>3. ASSUME DownBy(q, d, i - 1, k), ~ Frees(q[i], k) PROVE DownBy(q, d, i, k)
  <2>1. \A j \in 1 .. i : j = i \/ j \in 1 .. i - 1
    OBVIOUS
  <2>2. CASE k \in d /\ \A j \in 1 .. i - 1 : ~ Frees(q[j], k)
    BY <1>3, <2>1, <2>2 DEF DownBy
  <2>3. CASE \E j \in 1 .. i - 1 : Presses(q[j], k) /\ \A m \in j + 1 .. i - 1 : ~ Frees(q[m], k)
    <3>1. PICK j \in 1 .. i - 1 : Presses(q[j], k) /\ \A m \in j + 1 .. i - 1 : ~ Frees(q[m], k)
      BY <2>3
    <3>2. \A m \in j + 1 .. i : m = i \/ m \in j + 1 .. i - 1
      OBVIOUS
    <3>3. j \in 1 .. i
      OBVIOUS
    <3>. QED BY <1>3, <3>1, <3>2, <3>3 DEF DownBy
  <2>. QED BY <1>3, <2>2, <2>3 DEF DownBy
<1>. QED BY <1>1, <1>2, <1>3

LEMMA DownAtFirst == ASSUME NEW q, NEW d, NEW k PROVE DownBy(q, d, 0, k) <=> k \in d
<1>1. 1 .. 0 = {}
  OBVIOUS
<1>. QED BY <1>1 DEF DownBy

LEMMA FewerDown ==
  ASSUME NEW q, NEW d, NEW e, d \subseteq e, NEW i, NEW k, DownBy(q, d, i, k) PROVE DownBy(q, e, i, k)
BY DEF DownBy

\* One more command in the queue.
LEMMA DownWhenQueued ==
  ASSUME NEW q \in Seq(Commands), NEW command \in Commands, NEW d, NEW k,
         DownBy(Append(q, command), d, Len(Append(q, command)), k)
  PROVE  Presses(command, k) \/ (DownBy(q, d, Len(q), k) /\ ~ Frees(command, k))
<1>1. PICK r : r = Append(q, command)
  OBVIOUS
<1>2. PICK n \in Nat : n = Len(q)
  OBVIOUS
<1>3. Len(r) = n + 1 /\ r[n + 1] = command /\ \A j \in 1 .. n : r[j] = q[j]
  BY <1>1, <1>2
<1>4. n + 1 \in Nat /\ n + 1 # 0 /\ (n + 1) - 1 = n
  OBVIOUS
<1>5. DownBy(r, d, n + 1, k)
  BY <1>1, <1>3
<1>6. Presses(r[n + 1], k) \/ (DownBy(r, d, n, k) /\ ~ Frees(r[n + 1], k))
  BY <1>4, <1>5, DownAgain
<1>7. ASSUME DownBy(r, d, n, k) PROVE DownBy(q, d, n, k)
  <2>1. \A j \in 1 .. n : \A m \in j + 1 .. n : m \in 1 .. n
    OBVIOUS
  <2>. QED BY <1>3, <1>7, <2>1 DEF DownBy
<1>. QED BY <1>2, <1>3, <1>6, <1>7

(* What a command does to the card *)

\* What holds of the card c after one command more.
Follows(c, command, now, after) ==
  /\ after \in KeyCards /\ IsInjective(after.held) /\ Repeating(after)
  /\ \A k \in DownIn(after) : Presses(command, k) \/ (k \in DownIn(c) /\ ~ Frees(command, k))
  /\ after.next # 0 =>
       /\ keyboardModel = "apple2e" =>
            IF command[1] = "press" THEN after.next = AutoRepeatAt(now) ELSE after.next = c.next
       /\ keyboardModel # "apple2e" => after.next \in {c.next, now + ReptPeriod}

LEMMA CardFields ==
  ASSUME NEW c \in KeyCards
  PROVE  /\ c.latch \in MatrixKeys \cup {"none"} /\ c.strobe \in BOOLEAN /\ c.held \in Seq(MatrixKeys)
         /\ c.rept \in BOOLEAN /\ c.next \in Nat
BY DEF KeyCards

LEMMA CardMade ==
  ASSUME NEW l \in MatrixKeys \cup {"none"}, NEW s \in BOOLEAN, NEW h \in Seq(MatrixKeys),
         NEW r \in BOOLEAN, NEW n \in Nat
  PROVE  [latch |-> l, strobe |-> s, held |-> h, rept |-> r, next |-> n] \in KeyCards
BY DEF KeyCards

LEMMA DownInIs ==
  ASSUME NEW c \in KeyCards, NEW k
  PROVE  k \in DownIn(c) <=> (k \in MatrixKeys /\ k \in Range(c.held)) \/ (k = "rept" /\ c.rept)
<1>1. "rept" \notin MatrixKeys
  BY KeyboardAssumption
<1>2. Range(c.held) \subseteq MatrixKeys
  BY CardFields DEF Range
<1>. QED BY <1>1, <1>2 DEF DownIn, CardKeys

LEMMA Timed ==
  ASSUME NEW now \in Nat
  PROVE  /\ AutoRepeatAt(now) \in Nat /\ AutoRepeatAt(now) # 0
         /\ now + ReptPeriod \in Nat /\ now + ReptPeriod # 0
<1>1. AutoRepeatAt(now) \in Nat /\ AutoRepeatAt(now) > now
  BY AutoRepeatIs
<1>2. ReptPeriod \in Nat \ {0}
  BY KeyNumbers
<1>. QED BY <1>1, <1>2

LEMMA PressFollows ==
  ASSUME NEW c \in KeyCards, IsInjective(c.held), Repeating(c), NEW now \in Nat, NEW key \in MatrixKeys
  PROVE  Follows(c, <<"press", key>>, now, Pressed(c, key, now))
<1>. DEFINE h == Hold(c.held, key)
            n == IF keyboardModel = "apple2e" THEN AutoRepeatAt(now)
                 ELSE IF c.rept THEN now + ReptPeriod ELSE c.next
            after == [latch |-> key, strobe |-> TRUE, held |-> h, rept |-> c.rept, next |-> n]
<1>1. /\ c.latch \in MatrixKeys \cup {"none"} /\ c.strobe \in BOOLEAN /\ c.held \in Seq(MatrixKeys)
      /\ c.rept \in BOOLEAN /\ c.next \in Nat
  BY CardFields
<1>2. Pressed(c, key, now) = after
  BY DEF Pressed, KeyCards
<1>3. h \in Seq(MatrixKeys) /\ IsInjective(h) /\ h # << >> /\ Range(h) \subseteq Range(c.held) \cup {key}
  BY <1>1, HoldIs
<1>4. n \in Nat
  BY <1>1, Timed
<1>5. keyboardModel = "apple2e" \/ c.rept => n # 0
  BY Timed
<1>6. keyboardModel # "apple2e" /\ ~ c.rept => n = 0
  BY DEF Repeating, Repeats
<1>7. keyboardModel = "apple2e" => n = AutoRepeatAt(now)
  OBVIOUS
<1>8. keyboardModel # "apple2e" => n \in {c.next, now + ReptPeriod}
  OBVIOUS
<1>. HIDE DEF h, n
<1>9. after \in KeyCards
  BY <1>1, <1>3, <1>4, CardMade
<1>10. after.held = h /\ after.rept = c.rept /\ after.next = n
  OBVIOUS
<1>. HIDE DEF after
<1>11. Repeating(after)
  BY <1>3, <1>5, <1>6, <1>10 DEF Repeating, Repeats, AnyKeyDown
<1>12. ASSUME NEW k \in DownIn(after)
       PROVE  Presses(<<"press", key>>, k) \/ (k \in DownIn(c) /\ ~ Frees(<<"press", key>>, k))
  <2>1. (k \in MatrixKeys /\ k \in Range(h)) \/ (k = "rept" /\ c.rept)
    BY <1>9, <1>10, <1>12, DownInIs
  <2>2. k = key \/ k \in DownIn(c)
    BY <1>3, <2>1, DownInIs
  <2>3. ~ Frees(<<"press", key>>, k)
    BY DEF Frees
  <2>. QED BY <2>2, <2>3 DEF Presses
<1>13. <<"press", key>>[1] = "press"
  OBVIOUS
<1>. QED BY <1>2, <1>3, <1>7, <1>8, <1>9, <1>10, <1>11, <1>12, <1>13 DEF Follows

LEMMA ReleaseFollows ==
  ASSUME NEW c \in KeyCards, IsInjective(c.held), Repeating(c), NEW now \in Nat, NEW key \in MatrixKeys
  PROVE  Follows(c, <<"release", key>>, now, Released(c, key, now))
<1>. DEFINE h == LetGo(c.held, key)
            n == IF h # << >> THEN c.next ELSE 0
            after == [latch |-> c.latch, strobe |-> c.strobe, held |-> h, rept |-> c.rept, next |-> n]
<1>1. /\ c.latch \in MatrixKeys \cup {"none"} /\ c.strobe \in BOOLEAN /\ c.held \in Seq(MatrixKeys)
      /\ c.rept \in BOOLEAN /\ c.next \in Nat
  BY CardFields
<1>2. Released(c, key, now) = after
  BY DEF Released, Disarmed, AnyKeyDown, KeyCards
<1>3. /\ h \in Seq(MatrixKeys) /\ IsInjective(h) /\ Range(h) \subseteq Range(c.held) \ {key}
      /\ c.held = << >> => h = << >>
  BY <1>1, LetGoIs
<1>4. n \in Nat /\ (n # 0 => h # << >> /\ n = c.next) /\ (h # << >> => n = c.next)
  BY <1>1
<1>. HIDE DEF h, n
<1>9. after \in KeyCards
  BY <1>1, <1>3, <1>4, CardMade
<1>10. after.held = h /\ after.rept = c.rept /\ after.next = n
  OBVIOUS
<1>. HIDE DEF after
<1>11. Repeating(after)
  BY <1>3, <1>4, <1>10 DEF Repeating, Repeats, AnyKeyDown
<1>12. ASSUME NEW k \in DownIn(after)
       PROVE  k \in DownIn(c) /\ ~ Frees(<<"release", key>>, k)
  <2>1. (k \in MatrixKeys /\ k \in Range(h)) \/ (k = "rept" /\ c.rept)
    BY <1>9, <1>10, <1>12, DownInIs
  <2>2. k \in DownIn(c) /\ k # key
    BY <1>3, <2>1, DownInIs, KeyboardAssumption
  <2>. QED BY <2>2 DEF Frees
<1>13. <<"release", key>>[1] # "press"
  OBVIOUS
<1>. QED BY <1>2, <1>3, <1>4, <1>9, <1>10, <1>11, <1>12, <1>13 DEF Follows

LEMMA ReptFollows ==
  ASSUME NEW c \in KeyCards, IsInjective(c.held), Repeating(c), NEW now \in Nat, NEW on \in BOOLEAN
  PROVE  Follows(c, <<"rept", on>>, now, Rept(c, on, now))
<1>1. /\ c.latch \in MatrixKeys \cup {"none"} /\ c.strobe \in BOOLEAN /\ c.held \in Seq(MatrixKeys)
      /\ c.rept \in BOOLEAN /\ c.next \in Nat
  BY CardFields
<1>2. PICK s \in BOOLEAN, n \in Nat :
        /\ Rept(c, on, now) = [latch |-> c.latch, strobe |-> s, held |-> c.held, rept |-> on, next |-> n]
        /\ IF keyboardModel = "apple2e" THEN n = c.next
           ELSE IF ~ on THEN n = 0
           ELSE IF c.held # << >> THEN n = now + ReptPeriod ELSE n = c.next
  <2>1. now + ReptPeriod \in Nat
    BY Timed
  <2>2. CASE keyboardModel = "apple2e"
    BY <1>1, <2>2 DEF Rept, KeyCards
  <2>3. CASE keyboardModel # "apple2e" /\ ~ on
    BY <1>1, <2>3 DEF Rept, Disarmed, KeyCards
  <2>4. CASE keyboardModel # "apple2e" /\ on /\ c.held # << >>
    BY <1>1, <2>1, <2>4 DEF Rept, AnyKeyDown, KeyCards
  <2>5. CASE keyboardModel = "apple2" /\ on /\ c.held = << >>
    BY <1>1, <2>5 DEF Rept, AnyKeyDown, KeyCards
  <2>6. CASE keyboardModel \notin {"apple2", "apple2e"} /\ on /\ c.held = << >>
    BY <1>1, <2>6 DEF Rept, AnyKeyDown, KeyCards
  <2>. QED BY <2>2, <2>3, <2>4, <2>5, <2>6
<1>3. PICK after : after = [latch |-> c.latch, strobe |-> s, held |-> c.held, rept |-> on, next |-> n]
  OBVIOUS
<1>9. after \in KeyCards
  BY <1>1, <1>3, CardMade
<1>10. after.held = c.held /\ after.rept = on /\ after.next = n
  BY <1>3
<1>11. Repeating(after)
  BY <1>2, <1>10, Timed DEF Repeating, Repeats, AnyKeyDown
<1>12. ASSUME NEW k \in DownIn(after)
       PROVE  Presses(<<"rept", on>>, k) \/ (k \in DownIn(c) /\ ~ Frees(<<"rept", on>>, k))
  <2>1. (k \in MatrixKeys /\ k \in Range(c.held)) \/ (k = "rept" /\ on)
    BY <1>9, <1>10, <1>12, DownInIs
  <2>2. CASE k = "rept" /\ on
    BY <2>2 DEF Presses
  <2>3. CASE k \in MatrixKeys /\ k \in Range(c.held)
    <3>1. k # "rept" /\ k \in DownIn(c)
      BY <2>3, DownInIs, KeyboardAssumption
    <3>. QED BY <3>1 DEF Frees
  <2>. QED BY <2>1, <2>2, <2>3
<1>13. <<"rept", on>>[1] # "press"
  OBVIOUS
<1>14. n # 0 => IF keyboardModel = "apple2e" THEN n = c.next ELSE n \in {c.next, now + ReptPeriod}
  BY <1>2
<1>. QED BY <1>2, <1>3, <1>9, <1>10, <1>11, <1>12, <1>13, <1>14 DEF Follows

LEMMA ReleaseAllFollows ==
  ASSUME NEW c \in KeyCards, NEW now \in Nat
  PROVE  Follows(c, <<"release all">>, now, ReleasedAll(c))
<1>1. /\ c.latch \in MatrixKeys \cup {"none"} /\ c.strobe \in BOOLEAN
      /\ c.rept \in BOOLEAN /\ c.next \in Nat
  BY CardFields
<1>2. PICK after : after = [latch |-> c.latch, strobe |-> c.strobe, held |-> << >>, rept |-> c.rept, next |-> 0]
  OBVIOUS
<1>3. ReleasedAll(c) = after
  <2>1. PICK freed : freed = [c EXCEPT !.held = << >>]
    OBVIOUS
  <2>2. freed = [latch |-> c.latch, strobe |-> c.strobe, held |-> << >>, rept |-> c.rept, next |-> c.next]
    BY <2>1 DEF KeyCards
  <2>3. Disarmed(freed) = after
    BY <1>2, <2>2 DEF Disarmed
  <2>. QED BY <2>1, <2>3 DEF ReleasedAll
<1>4. << >> \in Seq(MatrixKeys) /\ IsInjective(<< >>)
  BY DEF IsInjective
<1>9. after \in KeyCards
  BY <1>1, <1>2, <1>4, CardMade
<1>10. after.held = << >> /\ after.rept = c.rept /\ after.next = 0
  BY <1>2
<1>11. Repeating(after)
  BY <1>10 DEF Repeating, Repeats, AnyKeyDown
<1>12. ASSUME NEW k \in DownIn(after)
       PROVE  k \in DownIn(c) /\ ~ Frees(<<"release all">>, k)
  <2>1. k \notin Range(after.held)
    BY <1>10 DEF Range
  <2>2. k = "rept" /\ c.rept
    BY <1>9, <1>10, <1>12, <2>1, DownInIs
  <2>. QED BY <2>2, DownInIs DEF Frees
<1>. QED BY <1>3, <1>4, <1>9, <1>10, <1>11, <1>12 DEF Follows

LEMMA CommandFollows ==
  ASSUME NEW c \in KeyCards, IsInjective(c.held), Repeating(c), NEW now \in Nat, NEW command \in Commands
  PROVE  Follows(c, command, now, Commanded(c, command, now))
<1>1. CASE \E k \in MatrixKeys : command = <<"press", k>>
  <2>1. PICK k \in MatrixKeys : command = <<"press", k>>
    BY <1>1
  <2>2. Commanded(c, command, now) = Pressed(c, k, now)
    BY <2>1 DEF Commanded
  <2>. QED BY <2>1, <2>2, PressFollows
<1>2. CASE \E k \in MatrixKeys : command = <<"release", k>>
  <2>1. PICK k \in MatrixKeys : command = <<"release", k>>
    BY <1>2
  <2>2. Commanded(c, command, now) = Released(c, k, now)
    BY <2>1 DEF Commanded
  <2>. QED BY <2>1, <2>2, ReleaseFollows
<1>3. CASE \E on \in BOOLEAN : command = <<"rept", on>>
  <2>1. PICK on \in BOOLEAN : command = <<"rept", on>>
    BY <1>3
  <2>2. Commanded(c, command, now) = Rept(c, on, now)
    BY <2>1 DEF Commanded
  <2>. QED BY <2>1, <2>2, ReptFollows
<1>4. CASE command = <<"release all">>
  <2>1. Commanded(c, command, now) = ReleasedAll(c)
    BY <1>4 DEF Commanded
  <2>. QED BY <1>4, <2>1, ReleaseAllFollows
<1>. QED BY <1>1, <1>2, <1>3, <1>4 DEF Commands

(* A whole queue of commands *)

DrainedBy(c, q, now) == FoldLeft(LAMBDA card, command : Commanded(card, command, now), c, q)

PressAmong(q, i) == \E j \in 1 .. i : q[j][1] = "press"

\* What holds of the card c0 after the first i commands of q, at now.
AfterSome(c0, q, now, i, c) ==
  /\ c \in KeyCards /\ IsInjective(c.held) /\ Repeating(c)
  /\ \A k \in DownIn(c) : DownBy(q, DownIn(c0), i, k)
  /\ c.next # 0 =>
       /\ keyboardModel = "apple2e" =>
            IF PressAmong(q, i) THEN c.next = AutoRepeatAt(now) ELSE c.next = c0.next
       /\ keyboardModel # "apple2e" => c.next \in {c0.next, now + ReptPeriod}

LEMMA OneMore ==
  ASSUME NEW c0 \in KeyCards, NEW q \in Seq(Commands), NEW now \in Nat, NEW i \in 1 .. Len(q),
         NEW c, AfterSome(c0, q, now, i - 1, c)
  PROVE  AfterSome(c0, q, now, i, Commanded(c, q[i], now))
<1>1. PICK command \in Commands : command = q[i]
  OBVIOUS
<1>2. c \in KeyCards /\ IsInjective(c.held) /\ Repeating(c)
  BY DEF AfterSome
<1>3. PICK after : after = Commanded(c, command, now)
  OBVIOUS
<1>4. Follows(c, command, now, after)
  BY <1>2, <1>3, CommandFollows
<1>5. ASSUME NEW k \in DownIn(after) PROVE DownBy(q, DownIn(c0), i, k)
  <2>1. Presses(q[i], k) \/ (k \in DownIn(c) /\ ~ Frees(q[i], k))
    BY <1>1, <1>4, <1>5 DEF Follows
  <2>2. k \in DownIn(c) => DownBy(q, DownIn(c0), i - 1, k)
    BY DEF AfterSome
  <2>3. i \in Nat /\ i # 0
    OBVIOUS
  <2>. QED BY <2>1, <2>2, <2>3, DownAgain
<1>6. PressAmong(q, i) <=> PressAmong(q, i - 1) \/ command[1] = "press"
  <2>1. \A j \in 1 .. i : j = i \/ j \in 1 .. i - 1
    OBVIOUS
  <2>2. i \in 1 .. i /\ \A j \in 1 .. i - 1 : j \in 1 .. i
    OBVIOUS
  <2>. QED BY <1>1, <2>1, <2>2 DEF PressAmong
<1>7. ASSUME after.next # 0, keyboardModel = "apple2e"
      PROVE  IF PressAmong(q, i) THEN after.next = AutoRepeatAt(now) ELSE after.next = c0.next
  BY <1>4, <1>6, <1>7 DEF Follows, AfterSome
<1>8. ASSUME after.next # 0, keyboardModel # "apple2e" PROVE after.next \in {c0.next, now + ReptPeriod}
  BY <1>4, <1>8 DEF Follows, AfterSome
<1>. QED BY <1>1, <1>3, <1>4, <1>5, <1>7, <1>8 DEF Follows, AfterSome

LEMMA Drains ==
  ASSUME NEW c0 \in KeyCards, IsInjective(c0.held), Repeating(c0), NEW q \in Seq(Commands), NEW now \in Nat
  PROVE  AfterSome(c0, q, now, Len(q), DrainedBy(c0, q, now))
<1>. DEFINE n == Len(q)
            X == {c \in KeyCards : IsInjective(c.held) /\ Repeating(c)}
            Step(x, i) == Commanded(x, q[i], now)
            G == [p \in X \X (1 .. n) |-> Step(p[1], p[2])]
            Eq(h) == h = [s \in SUBSET (DOMAIN q) |-> IF s = {} THEN c0 ELSE Step(h[s \ {Max(s)}], Max(s))]
            It == CHOOSE h : Eq(h)
            U == {k \in 0 .. n : AfterSome(c0, q, now, k, It[1 .. k])}
<1>1. DrainedBy(c0, q, now) = It[DOMAIN q]
  BY DEF DrainedBy, FoldLeft, MapThenFoldSet
<1>2. n \in Nat /\ DOMAIN q = 1 .. n
  OBVIOUS
<1>3. \A x \in X, i \in 1 .. n : Step(x, i) \in X
  <2>. SUFFICES ASSUME NEW x \in X, NEW i \in 1 .. n PROVE Step(x, i) \in X
    OBVIOUS
  <2>1. x \in KeyCards /\ IsInjective(x.held) /\ Repeating(x) /\ q[i] \in Commands
    OBVIOUS
  <2>2. Follows(x, q[i], now, Step(x, i))
    BY <2>1, CommandFollows
  <2>. QED BY <2>2 DEF Follows
<1>4. c0 \in X
  OBVIOUS
<1>. HIDE DEF n, Step, X
<1>5. G \in [X \X (1 .. n) -> X]
  BY <1>3
<1>6. PICK g \in [SUBSET (1 .. n) -> X] : IsFold(g, n, c0, G)
  <2>. HIDE DEF G
  <2>. QED BY <1>2, <1>4, <1>5, FoldExists
<1>7. Eq(g)
  <2>1. ASSUME NEW s \in SUBSET (1 .. n), s # {} PROVE G[<<g[s \ {Max(s)}], Max(s)>>] = Step(g[s \ {Max(s)}], Max(s))
    <3>1. Max(s) \in 1 .. n /\ g[s \ {Max(s)}] \in X
      BY <1>2, <2>1, MaxIs
    <3>. QED BY <3>1
  <2>2. g = [s \in SUBSET (1 .. n) |-> IF s = {} THEN c0 ELSE G[<<g[s \ {Max(s)}], Max(s)>>]]
    BY <1>6 DEF IsFold
  <2>. HIDE DEF G
  <2>. QED BY <1>2, <2>1, <2>2
<1>8. Eq(It)
  <2>. HIDE DEF Eq
  <2>. QED BY <1>7
<1>. HIDE DEF It
<1>9. 0 \in U
  <2>1. It[{}] = c0 /\ 1 .. 0 = {}
    BY <1>8
  <2>2. AfterSome(c0, q, now, 0, c0)
    <3>1. ~ PressAmong(q, 0)
      BY DEF PressAmong
    <3>2. \A k \in DownIn(c0) : DownBy(q, DownIn(c0), 0, k)
      BY DownAtFirst
    <3>. QED BY <3>1, <3>2 DEF AfterSome
  <2>3. It[1 .. 0] = c0 /\ 0 \in 0 .. n
    BY <1>2, <2>1
  <2>. QED BY <2>2, <2>3
<1>10. ASSUME NEW j \in 0 .. n, j < n, j \in U PROVE j + 1 \in U
  <2>1. PICK k \in 1 .. n : k = j + 1
    BY <1>2, <1>10
  <2>2. 1 .. k \in SUBSET (1 .. n) /\ 1 .. k # {} /\ Max(1 .. k) = k /\ (1 .. k) \ {k} = 1 .. k - 1
    BY <1>2, Prefix
  <2>3. It[1 .. k] = Step(It[(1 .. k) \ {Max(1 .. k)}], Max(1 .. k))
    BY <1>2, <1>8, <2>2
  <2>4. It[1 .. k] = Step(It[1 .. k - 1], k)
    BY <2>2, <2>3
  <2>5. k - 1 = j /\ AfterSome(c0, q, now, j, It[1 .. j])
    BY <1>10, <2>1
  <2>6. AfterSome(c0, q, now, k, Step(It[1 .. k - 1], k))
    BY <2>5, OneMore DEF Step, n
  <2>. QED BY <1>2, <2>1, <2>4, <2>6
<1>. HIDE DEF U
<1>11. \A k \in 0 .. n : k \in U
  BY <1>2, <1>9, <1>10, UpTo
<1>12. n \in U
  BY <1>2, <1>11
<1>. QED BY <1>1, <1>2, <1>12 DEF U, n

(* The actions *)

LEMMA CommandsAre ==
  ASSUME NEW command \in Commands
  PROVE  \/ \E k \in MatrixKeys : command = <<"press", k>>
         \/ \E k \in MatrixKeys : command = <<"release", k>>
         \/ \E on \in BOOLEAN : command = <<"rept", on>>
         \/ command = <<"release all">>
BY DEF Commands

\* A card that waits for a time to come is not woken.
LEMMA NothingDue ==
  ASSUME NEW c \in KeyCards, NEW now \in Nat, c.next = 0 \/ now < c.next PROVE Thought(c, now) = c
<1>1. PICK at \in Nat : at = c.next
  BY CardFields
<1>2. at = 0 \/ ~ (now >= at)
  BY <1>1
<1>. QED BY <1>1, <1>2 DEF Thought

\* The queue, delivered at once, leaves down what it says.
LEMMA DrainKeeps == ASSUME KeyboardInv, DrainCommands PROVE KeyboardInv'
<1>1. PICK now \in Nat : now = keyClock
  BY DEF KeyboardInv
<1>2. PICK q \in Seq(Commands) : q = keyCommands
  BY DEF KeyboardInv
<1>3. PICK told : told = DrainedBy(keyCard, q, now)
  OBVIOUS
<1>4. keyCard \in KeyCards /\ IsInjective(keyCard.held) /\ Repeating(keyCard) /\ RepeatKeepsTime
  BY DEF KeyboardInv
<1>5. AfterSome(keyCard, q, now, Len(q), told)
  BY <1>3, <1>4, Drains
<1>6. told.next \in Nat /\ ReptPeriod \in Nat \ {0}
  BY <1>5, CardFields, KeyNumbers DEF AfterSome
<1>7. told.next = 0 \/ now < told.next
  <2>1. ASSUME told.next # 0 PROVE now < told.next
    <3>1. told.next = AutoRepeatAt(now) \/ told.next = keyCard.next \/ told.next = now + ReptPeriod
      BY <1>5, <2>1 DEF AfterSome
    <3>2. CASE told.next = keyCard.next
      BY <1>1, <1>4, <2>1, <3>2 DEF RepeatKeepsTime, KeyboardInv, KeyCards
    <3>3. AutoRepeatAt(now) \in Nat /\ now < AutoRepeatAt(now)
      BY AutoRepeatIs
    <3>. QED BY <1>6, <3>1, <3>2, <3>3
  <2>. QED BY <2>1
<1>8. Thought(told, now) = told
  BY <1>5, <1>7, NothingDue DEF AfterSome
<1>9. /\ keyCard' = told /\ keyAlarm' = told.next /\ keyClock' = now /\ keyCommands' = << >>
      /\ keyboardModel' = keyboardModel /\ appleKeys' = appleKeys /\ typed' = typed /\ missed' = missed
      /\ pressedAt' = IF \E i \in DOMAIN q : q[i][1] = "press" THEN now ELSE pressedAt
  <2>0. Becomes(Thought(DrainedBy(keyCard, keyCommands, keyClock), keyClock))
    BY DEF DrainCommands, DrainedBy
  <2>1. Becomes(Thought(DrainedBy(keyCard, q, now), now))
    BY <1>1, <1>2, <2>0
  <2>. QED BY <1>1, <1>2, <1>3, <1>8, <2>1 DEF DrainCommands, Becomes, hostVars
<1>10. (\E i \in DOMAIN q : q[i][1] = "press") <=> PressAmong(q, Len(q))
  BY DEF PressAmong
<1>11. QueueIsAccounted'
  <2>. SUFFICES ASSUME NEW k \in CardKeys, DownBy(<< >>, DownIn(told), 0, k)
                PROVE  k \in typed \cup missed
    BY <1>9 DEF QueueIsAccounted, Unaccounted
  <2>1. k \in DownIn(told)
    BY DownAtFirst
  <2>2. DownBy(q, DownIn(keyCard), Len(q), k)
    BY <1>5, <2>1 DEF AfterSome
  <2>. QED BY <1>2, <2>2 DEF KeyboardInv, QueueIsAccounted, Unaccounted
<1>12. RepeatKeepsTime'
  <2>. SUFFICES ASSUME told.next # 0 PROVE RepeatKeepsTime'
    BY <1>9 DEF RepeatKeepsTime
  <2>1. now < told.next
    BY <1>7
  <2>2. CASE keyboardModel # "apple2e"
    <3>1. told.next = keyCard.next \/ told.next = now + ReptPeriod
      BY <1>5, <2>2 DEF AfterSome
    <3>2. told.next <= now + ReptPeriod
      <4>1. CASE told.next = keyCard.next
        BY <1>1, <1>4, <2>2, <4>1 DEF RepeatKeepsTime
      <4>. QED BY <1>6, <3>1, <4>1
    <3>. QED BY <1>9, <2>1, <2>2, <3>2 DEF RepeatKeepsTime
  <2>3. CASE keyboardModel = "apple2e" /\ PressAmong(q, Len(q))
    <3>1. told.next = AutoRepeatAt(now) /\ pressedAt' = now
      BY <1>5, <1>9, <1>10, <2>3 DEF AfterSome
    <3>2. FirstRepeat(told.next)'
      BY <1>9, <3>1, AutoRepeatIs DEF FirstRepeat
    <3>. QED BY <1>9, <2>1, <2>3, <3>2 DEF RepeatKeepsTime
  <2>4. CASE keyboardModel = "apple2e" /\ ~ PressAmong(q, Len(q))
    <3>1. told.next = keyCard.next /\ pressedAt' = pressedAt
      BY <1>5, <1>9, <1>10, <2>4 DEF AfterSome
    <3>2. FirstRepeat(told.next) \/ LaterRepeat(told.next)
      BY <1>4, <2>4, <3>1 DEF RepeatKeepsTime
    <3>3. FirstRepeat(told.next)' \/ LaterRepeat(told.next)'
      BY <1>1, <1>9, <3>1, <3>2 DEF FirstRepeat, LaterRepeat
    <3>. QED BY <1>9, <2>1, <2>4, <3>3 DEF RepeatKeepsTime
  <2>. QED BY <2>2, <2>3, <2>4
<1>13. SwitchesAreAccounted'
  BY <1>9 DEF KeyboardInv, SwitchesAreAccounted
<1>14. told \in KeyCards /\ IsInjective(told.held) /\ Repeating(told)'
  BY <1>5, <1>9 DEF AfterSome, Repeating, Repeats
<1>15. pressedAt' \in Nat /\ << >> \in Seq(Commands) /\ keyboardModel \in KeyboardModels
  BY <1>9 DEF KeyboardInv
<1>. QED BY <1>9, <1>11, <1>12, <1>13, <1>14, <1>15 DEF KeyboardInv, Repeating

\* What concerns the card alone.
CardHolds ==
  /\ keyCard \in KeyCards /\ IsInjective(keyCard.held) /\ keyAlarm = keyCard.next
  /\ keyClock \in Nat /\ pressedAt \in Nat /\ Repeating(keyCard) /\ RepeatKeepsTime

\* While no command is queued or delivered, no more keys go down in the card.
LEMMA CardStepKeeps ==
  ASSUME KeyboardInv, CardHolds', UNCHANGED <<keyboardModel, keyCommands, appleKeys, typed, missed>>,
         DownIn(keyCard)' \subseteq DownIn(keyCard)
  PROVE  KeyboardInv'
<1>1. QueueIsAccounted'
  <2>. SUFFICES ASSUME NEW k \in CardKeys, DownBy(keyCommands, DownIn(keyCard)', Len(keyCommands), k)
                PROVE  k \in typed \cup missed
    BY DEF QueueIsAccounted, Unaccounted
  <2>1. DownBy(keyCommands, DownIn(keyCard), Len(keyCommands), k)
    BY FewerDown
  <2>. QED BY <2>1 DEF KeyboardInv, QueueIsAccounted, Unaccounted
<1>2. SwitchesAreAccounted'
  BY DEF KeyboardInv, SwitchesAreAccounted
<1>. QED BY <1>1, <1>2 DEF KeyboardInv, CardHolds

LEMMA ClearKeeps == ASSUME KeyboardInv, ClearStrobe PROVE KeyboardInv'
<1>1. PICK c : c = [keyCard EXCEPT !.strobe = FALSE]
  OBVIOUS
<1>2. keyCard \in KeyCards /\ keyCard' = c
  BY <1>1 DEF KeyboardInv, ClearStrobe
<1>3. c \in KeyCards /\ c.held = keyCard.held /\ c.rept = keyCard.rept /\ c.next = keyCard.next
  BY <1>1, <1>2 DEF KeyCards
<1>4. /\ UNCHANGED <<keyboardModel, keyCommands, appleKeys, typed, missed>>
      /\ keyAlarm' = keyAlarm /\ keyClock' = keyClock /\ pressedAt' = pressedAt
  BY DEF ClearStrobe, hostVars
<1>5. DownIn(keyCard)' \subseteq DownIn(keyCard)
  BY <1>2, <1>3 DEF DownIn
<1>6. CardHolds'
  BY <1>2, <1>3, <1>4 DEF KeyboardInv, CardHolds, Repeating, Repeats, AnyKeyDown, RepeatKeepsTime,
     FirstRepeat, LaterRepeat
<1>. QED BY <1>4, <1>5, <1>6, CardStepKeeps

LEMMA CardCleared ==
  ASSUME KeyboardInv, NEW c \in KeyCards, c.held = << >>, c.rept = FALSE, c.next = 0, Becomes(c),
         UNCHANGED <<keyboardModel, keyClock, keyCommands, appleKeys, typed, missed, pressedAt>>
  PROVE  KeyboardInv'
<1>1. keyCard' = c /\ keyAlarm' = 0
  BY DEF Becomes
<1>2. IsInjective(c.held) /\ Range(c.held) = {}
  BY DEF IsInjective, Range
<1>3. DownIn(keyCard)' \subseteq DownIn(keyCard)
  BY <1>1, <1>2 DEF DownIn
<1>4. CardHolds'
  BY <1>1, <1>2 DEF KeyboardInv, CardHolds, Repeating, Repeats, AnyKeyDown, RepeatKeepsTime
<1>. QED BY <1>3, <1>4, CardStepKeeps

LEMMA PowerKeeps == ASSUME KeyboardInv, PowerCycleKeys PROVE KeyboardInv'
<1>1. PICK c : c = CardAtPowerOn
  OBVIOUS
<1>2. c \in KeyCards /\ c.held = << >> /\ c.rept = FALSE /\ c.next = 0
  BY <1>1 DEF CardAtPowerOn, KeyCards
<1>3. Becomes(c) /\ UNCHANGED <<keyboardModel, keyClock, keyCommands, appleKeys, typed, missed, pressedAt>>
  BY <1>1 DEF PowerCycleKeys
<1>. QED BY <1>2, <1>3, CardCleared

LEMMA LoadKeeps == ASSUME KeyboardInv, NEW strobe \in BOOLEAN, LoadKeyboard(strobe) PROVE KeyboardInv'
<1>1. PICK c : c = [keyCard EXCEPT !.strobe = strobe, !.held = << >>, !.rept = FALSE, !.next = 0]
  OBVIOUS
<1>0. keyCard \in KeyCards
  BY DEF KeyboardInv
<1>2. c = [latch |-> keyCard.latch, strobe |-> strobe, held |-> << >>, rept |-> FALSE, next |-> 0]
  BY <1>0, <1>1 DEF KeyCards
<1>3. c \in KeyCards /\ c.held = << >> /\ c.rept = FALSE /\ c.next = 0
  <2>1. << >> \in Seq(MatrixKeys) /\ keyCard.latch \in MatrixKeys \cup {"none"}
    BY <1>0, CardFields
  <2>. QED BY <1>2, <2>1, CardMade
<1>4. Becomes(c) /\ UNCHANGED <<keyboardModel, keyClock, keyCommands, appleKeys, typed, missed, pressedAt>>
  BY <1>1 DEF LoadKeyboard
<1>. QED BY <1>3, <1>4, CardCleared

\* A wake, however late: one strobe, and the next at the next edge of the phase.
LEMMA RunKeeps == ASSUME KeyboardInv, NEW cycles \in Spans, RunFor(cycles) PROVE KeyboardInv'
<1>1. PICK now \in Nat : now = keyClock + cycles
  BY KeyNumbers DEF KeyboardInv
<1>2. keyClock' = now /\ keyClock <= now /\ UNCHANGED <<keyboardModel, keyCommands, appleKeys, typed, missed, pressedAt>>
  BY <1>1, KeyNumbers DEF RunFor, hostVars, KeyboardInv
<1>3. /\ keyCard \in KeyCards /\ IsInjective(keyCard.held) /\ keyAlarm = keyCard.next /\ keyClock \in Nat
      /\ pressedAt \in Nat /\ Repeating(keyCard) /\ RepeatKeepsTime /\ keyboardModel \in KeyboardModels
  BY DEF KeyboardInv
<1>4. PICK at \in Nat : at = keyCard.next
  BY <1>3, CardFields
<1>5. /\ VideoFrame \in Nat \ {0} /\ RepeatPeriod \in Nat \ {0} /\ RepeatPhase \in Nat \ {0}
      /\ RepeatDelay \in Nat \ {0} /\ ReptPeriod \in Nat \ {0}
  BY KeyNumbers
<1>6. CASE at = 0 \/ now < at
  <2>1. keyCard' = keyCard /\ keyAlarm' = keyAlarm
    BY <1>1, <1>2, <1>3, <1>4, <1>6 DEF RunFor
  <2>2. CASE at = 0
    BY <1>2, <1>3, <1>4, <2>1, <2>2, CardStepKeeps DEF CardHolds, DownIn, Repeating, Repeats, RepeatKeepsTime
  <2>3. CASE at # 0
    <3>1. now < at
      BY <1>6, <2>3
    <3>2. keyboardModel # "apple2e" => at <= now + ReptPeriod
      BY <1>2, <1>3, <1>4, <1>5, <2>3 DEF RepeatKeepsTime
    <3>3. keyboardModel = "apple2e" => FirstRepeat(at)' \/ LaterRepeat(at)'
      <4>. SUFFICES ASSUME keyboardModel = "apple2e" PROVE FirstRepeat(at)' \/ LaterRepeat(at)'
        OBVIOUS
      <4>1. FirstRepeat(at) \/ LaterRepeat(at)
        BY <1>3, <1>4, <2>3 DEF RepeatKeepsTime
      <4>2. CASE FirstRepeat(at)
        BY <1>2, <4>2 DEF FirstRepeat
      <4>3. CASE LaterRepeat(at)
        <5>1. PICK p \in Nat : p = RepeatPeriod * VideoFrame
          BY <1>5
        <5>2. at <= keyClock + p => at <= now + p
          BY <1>2, <1>3
        <5>. QED BY <1>2, <4>3, <5>1, <5>2 DEF LaterRepeat
      <4>. QED BY <4>1, <4>2, <4>3
    <3>4. RepeatKeepsTime'
      BY <1>2, <1>4, <2>1, <3>1, <3>2, <3>3 DEF RepeatKeepsTime
    <3>5. CardHolds'
      BY <1>2, <1>3, <2>1, <3>4 DEF CardHolds, Repeating, Repeats
    <3>. QED BY <1>2, <2>1, <3>5, CardStepKeeps DEF DownIn
  <2>. QED BY <2>2, <2>3
<1>7. CASE at # 0 /\ at <= now
  <2>1. PICK period \in Nat \ {0} : period = Period
    BY <1>5 DEF Period
  <2>2. PICK next \in Nat : next = at + period * ((now - at) \div period + 1)
    BY <1>7, <2>1, StrobedIs
  <2>3. next > now /\ next <= now + period /\ \E j \in Nat : next = at + period * j
    <3>1. \E j \in Nat : at + period * ((now - at) \div period + 1) = at + period * j
      BY <1>7, StrobedIs
    <3>2. next > now /\ next <= now + period
      BY <1>7, <2>2, StrobedIs
    <3>. QED BY <2>2, <3>1, <3>2
  <2>4. Repeats(keyCard)
    BY <1>3, <1>4, <1>7 DEF Repeating
  <2>5. PICK c : c = [keyCard EXCEPT !.strobe = TRUE, !.next = next]
    OBVIOUS
  <2>6. Thought(keyCard, now) = c
    <3>1. Strobed(keyCard, now, period) = c
      BY <1>4, <2>2, <2>5 DEF Strobed
    <3>2. ~ (now < at)
      BY <1>7
    <3>. QED BY <1>4, <1>7, <2>1, <2>4, <3>1, <3>2 DEF Thought
  <2>7. keyCard' = c /\ keyAlarm' = c.next
    BY <1>1, <1>2, <1>3, <1>4, <1>7, <2>6 DEF RunFor, Becomes
  <2>8. c \in KeyCards /\ c.held = keyCard.held /\ c.rept = keyCard.rept /\ c.next = next
    BY <1>3, <2>5 DEF KeyCards
  <2>9. Repeating(keyCard)'
    BY <1>2, <2>3, <2>4, <2>7, <2>8 DEF Repeating, Repeats, AnyKeyDown
  <2>10. RepeatKeepsTime'
    <3>1. CASE keyboardModel # "apple2e"
      BY <1>2, <2>1, <2>3, <2>7, <2>8, <3>1 DEF RepeatKeepsTime, Period
    <3>2. CASE keyboardModel = "apple2e"
      <4>1. PICK v \in Nat \ {0} : v = VideoFrame
        BY <1>5
      <4>2. period = RepeatPeriod * v
        BY <2>1, <3>2, <4>1 DEF Period
      <4>3. at > pressedAt + (RepeatDelay - 1) * v /\ at % v = 0
        <5>1. FirstRepeat(at) \/ LaterRepeat(at)
          BY <1>3, <1>4, <1>7, <3>2 DEF RepeatKeepsTime
        <5>2. CASE LaterRepeat(at)
          BY <4>1, <5>2 DEF LaterRepeat
        <5>3. CASE FirstRepeat(at)
          <6>1. PICK w \in Nat \ {0} : w = RepeatPhase * v
            BY <1>5, <4>1
          <6>2. at % w = 0
            BY <4>1, <5>3, <6>1 DEF FirstRepeat
          <6>3. PICK j \in Nat : at = w * j
            BY <6>2, Divided
          <6>4. PICK p \in Nat : p = RepeatPhase
            BY <1>5
          <6>5. PICK i \in Nat : i = p * j
            BY <6>4
          <6>6. at = v * i
            BY <6>1, <6>3, <6>4, <6>5
          <6>7. at % v = 0
            BY <6>6, Multiple
          <6>. QED BY <4>1, <5>3, <6>7 DEF FirstRepeat
        <5>. QED BY <5>1, <5>2, <5>3
      <4>4. next % v = 0
        <5>1. PICK i \in Nat : at = v * i
          BY <4>3, Divided
        <5>2. PICK j \in Nat : next = at + period * j
          BY <2>3
        <5>3. PICK p \in Nat : p = RepeatPeriod
          BY <1>5
        <5>4. PICK m \in Nat : m = p * j
          BY <5>3
        <5>5. period * j = v * m
          BY <4>2, <5>3, <5>4
        <5>6. PICK x \in Nat : x = i + m
          OBVIOUS
        <5>7. next = v * x
          BY <5>1, <5>2, <5>5, <5>6, Distributed
        <5>. QED BY <5>7, Multiple
      <4>5. next > pressedAt + (RepeatDelay - 1) * v
        <5>1. PICK d \in Int : d = pressedAt + (RepeatDelay - 1) * v
          BY <1>3, <1>5
        <5>2. next > d
          BY <1>7, <2>3, <4>3, <5>1
        <5>. QED BY <5>1, <5>2
      <4>6. LaterRepeat(next)'
        BY <1>2, <2>3, <4>1, <4>2, <4>4, <4>5 DEF LaterRepeat
      <4>. QED BY <1>2, <2>3, <2>7, <2>8, <3>2, <4>6 DEF RepeatKeepsTime
    <3>. QED BY <3>1, <3>2
  <2>11. CardHolds'
    BY <1>2, <1>3, <2>7, <2>8, <2>9, <2>10 DEF CardHolds, Repeating
  <2>12. DownIn(keyCard)' \subseteq DownIn(keyCard)
    BY <2>7, <2>8 DEF DownIn
  <2>. QED BY <1>2, <2>11, <2>12, CardStepKeeps
<1>. QED BY <1>4, <1>6, <1>7

\* The host's events touch neither the card nor the clock.
LEMMA HostStepKeeps ==
  ASSUME KeyboardInv, UNCHANGED <<keyboardModel, cardVars>>,
         keyCommands' \in Seq(Commands), QueueIsAccounted', SwitchesAreAccounted'
  PROVE  KeyboardInv'
<1>1. /\ keyboardModel' = keyboardModel /\ keyCard' = keyCard /\ keyAlarm' = keyAlarm
      /\ keyClock' = keyClock /\ pressedAt' = pressedAt
  BY DEF cardVars
<1>2. Repeating(keyCard)' /\ RepeatKeepsTime'
  BY <1>1 DEF KeyboardInv, Repeating, Repeats, RepeatKeepsTime, FirstRepeat, LaterRepeat
<1>. QED BY <1>1, <1>2 DEF KeyboardInv

LEMMA NothingQueued ==
  ASSUME KeyboardInv, UNCHANGED <<keyCard, keyCommands>>,
         \A k \in CardKeys : k \in typed \cup missed => k \in typed' \cup missed'
  PROVE  keyCommands' \in Seq(Commands) /\ QueueIsAccounted'
<1>1. keyCommands' = keyCommands /\ keyCard' = keyCard
  OBVIOUS
<1>. QED BY <1>1 DEF KeyboardInv, QueueIsAccounted, Unaccounted

LEMMA OneQueued ==
  ASSUME KeyboardInv, keyCard' = keyCard, NEW command \in Commands, Queue(command),
         \A k \in CardKeys : Presses(command, k) \/ (k \in typed \cup missed /\ ~ Frees(command, k))
                               => k \in typed' \cup missed'
  PROVE  keyCommands' \in Seq(Commands) /\ QueueIsAccounted'
<1>1. PICK q \in Seq(Commands) : q = keyCommands
  BY DEF KeyboardInv
<1>2. keyCommands' = Append(q, command)
  BY <1>1 DEF Queue
<1>3. PICK d : d = DownIn(keyCard)
  OBVIOUS
<1>4. DownIn(keyCard)' = d
  BY <1>3 DEF DownIn
<1>5. ASSUME NEW k \in CardKeys, DownBy(Append(q, command), d, Len(Append(q, command)), k)
      PROVE  k \in typed' \cup missed'
  <2>1. Presses(command, k) \/ (DownBy(q, d, Len(q), k) /\ ~ Frees(command, k))
    BY <1>5, DownWhenQueued
  <2>2. DownBy(q, d, Len(q), k) => k \in typed \cup missed
    BY <1>1, <1>3 DEF KeyboardInv, QueueIsAccounted, Unaccounted
  <2>. QED BY <1>5, <2>1, <2>2
<1>6. keyCommands' \in Seq(Commands)
  BY <1>2
<1>. QED BY <1>2, <1>4, <1>5, <1>6 DEF QueueIsAccounted, Unaccounted

LEMMA KeysApart ==
  /\ "rept" \notin MatrixKeys \cup AppleKeys /\ MatrixKeys \cap AppleKeys = {}
  /\ CardKeys \cap AppleKeys = {}
BY KeyboardAssumption DEF CardKeys

LEMMA DownKeeps == ASSUME KeyboardInv, NEW key \in HostKeys, KeyDown(key) PROVE KeyboardInv'
<1>1. keyboardModel' = keyboardModel /\ UNCHANGED cardVars /\ keyCard' = keyCard /\ missed' = missed \ typed'
  BY DEF KeyDown, cardVars
<1>2. CASE UNCHANGED <<keyCommands, appleKeys, typed>>
  <2>1. \A k : k \in typed \cup missed => k \in typed' \cup missed'
    BY <1>1, <1>2
  <2>2. keyCommands' \in Seq(Commands) /\ QueueIsAccounted'
    BY <1>1, <1>2, <2>1, NothingQueued
  <2>3. SwitchesAreAccounted'
    BY <1>2, <2>1 DEF KeyboardInv, SwitchesAreAccounted
  <2>. QED BY <1>1, <2>2, <2>3, HostStepKeeps
<1>3. CASE key \in AppleKeys /\ CloseSwitch(key) /\ typed' = typed \cup {key} /\ keyCommands' = keyCommands
  <2>1. \A k : k \in typed \cup missed => k \in typed' \cup missed'
    BY <1>1, <1>3
  <2>2. keyCommands' \in Seq(Commands) /\ QueueIsAccounted'
    BY <1>1, <1>3, <2>1, NothingQueued
  <2>3. SwitchesAreAccounted'
    <3>1. \A s \in appleKeys : \E k \in (typed' \cup missed') \cap AppleKeys : SwitchOf(k) = s
      BY <2>1 DEF KeyboardInv, SwitchesAreAccounted
    <3>2. appleKeys' = appleKeys \cup {SwitchOf(key)} /\ key \in (typed' \cup missed') \cap AppleKeys
      BY <1>3 DEF CloseSwitch
    <3>. QED BY <3>1, <3>2 DEF SwitchesAreAccounted
  <2>. QED BY <1>1, <2>2, <2>3, HostStepKeeps
<1>4. CASE key = "rept" /\ Queue(<<"rept", TRUE>>) /\ typed' = typed \cup {key} /\ appleKeys' = appleKeys
  <2>1. \A k : k \in typed \cup missed \cup {key} => k \in typed' \cup missed'
    BY <1>1, <1>4
  <2>2. PICK command \in Commands : command = <<"rept", TRUE>>
    BY DEF Commands
  <2>3. \A k : Presses(command, k) => k = key
    BY <1>4, <2>2 DEF Presses
  <2>4. keyCommands' \in Seq(Commands) /\ QueueIsAccounted'
    BY <1>1, <1>4, <2>1, <2>2, <2>3, OneQueued
  <2>5. SwitchesAreAccounted'
    BY <1>4, <2>1 DEF KeyboardInv, SwitchesAreAccounted
  <2>. QED BY <1>1, <2>4, <2>5, HostStepKeeps
<1>5. CASE key \in MatrixKeys /\ Queue(<<"press", key>>) /\ typed' = typed \cup {key} /\ appleKeys' = appleKeys
  <2>1. \A k : k \in typed \cup missed \cup {key} => k \in typed' \cup missed'
    BY <1>1, <1>5
  <2>2. PICK command \in Commands : command = <<"press", key>>
    BY <1>5 DEF Commands
  <2>3. \A k : Presses(command, k) => k = key
    BY <2>2 DEF Presses
  <2>4. keyCommands' \in Seq(Commands) /\ QueueIsAccounted'
    BY <1>1, <1>5, <2>1, <2>2, <2>3, OneQueued
  <2>5. SwitchesAreAccounted'
    BY <1>5, <2>1 DEF KeyboardInv, SwitchesAreAccounted
  <2>. QED BY <1>1, <2>4, <2>5, HostStepKeeps
<1>6. \/ UNCHANGED <<keyCommands, appleKeys, typed>>
      \/ key \in AppleKeys /\ CloseSwitch(key) /\ typed' = typed \cup {key} /\ keyCommands' = keyCommands
      \/ key = "rept" /\ Queue(<<"rept", TRUE>>) /\ typed' = typed \cup {key} /\ appleKeys' = appleKeys
      \/ key \in MatrixKeys /\ Queue(<<"press", key>>) /\ typed' = typed \cup {key} /\ appleKeys' = appleKeys
  BY DEF KeyDown
<1>. QED BY <1>2, <1>3, <1>4, <1>5, <1>6

LEMMA UpKeeps == ASSUME KeyboardInv, NEW key \in HostKeys, KeyUp(key) PROVE KeyboardInv'
<1>1. keyboardModel' = keyboardModel /\ UNCHANGED cardVars /\ keyCard' = keyCard /\ typed' = typed \ {key}
  BY DEF KeyUp, cardVars
<1>. DEFINE heard == focused /\ shell # "modal" /\ ~ ToStick(key)
<1>2. CASE ~ heard
  <2>0. missed' = missed \cup (typed \cap {key}) /\ UNCHANGED <<keyCommands, appleKeys>>
    BY <1>2 DEF KeyUp
  <2>1. \A k : k \in typed \cup missed => k \in typed' \cup missed'
    BY <1>1, <2>0
  <2>2. keyCommands' \in Seq(Commands) /\ QueueIsAccounted'
    BY <1>1, <2>0, <2>1, NothingQueued
  <2>3. SwitchesAreAccounted'
    BY <2>0, <2>1 DEF KeyboardInv, SwitchesAreAccounted
  <2>. QED BY <1>1, <2>2, <2>3, HostStepKeeps
<1>3. CASE heard
  <2>0. missed' = missed \ {key}
    BY <1>3 DEF KeyUp
  <2>1. \A k : k \in typed \cup missed /\ k # key => k \in typed' \cup missed'
    BY <1>1, <2>0
  <2>2. CASE key \in AppleKeys
    <3>1. OpenSwitch(key) /\ keyCommands' = keyCommands
      BY <1>3, <2>2, KeysApart DEF KeyUp, OpenSwitch
    <3>2. keyCommands' \in Seq(Commands) /\ QueueIsAccounted'
      BY <1>1, <2>1, <2>2, <3>1, NothingQueued, KeysApart
    <3>3. SwitchesAreAccounted'
      <4>1. appleKeys' = appleKeys \ {SwitchOf(key)}
        BY <3>1 DEF OpenSwitch
      <4>2. ASSUME NEW s \in appleKeys, s # SwitchOf(key)
            PROVE  \E k \in (typed' \cup missed') \cap AppleKeys : SwitchOf(k) = s
        <5>1. PICK k \in (typed \cup missed) \cap AppleKeys : SwitchOf(k) = s
          BY DEF KeyboardInv, SwitchesAreAccounted
        <5>2. k # key
          BY <4>2, <5>1
        <5>. QED BY <2>1, <5>1, <5>2
      <4>. QED BY <4>1, <4>2 DEF SwitchesAreAccounted
    <3>. QED BY <1>1, <3>2, <3>3, HostStepKeeps
  <2>3. CASE key \notin AppleKeys
    <3>1. PICK command \in Commands :
            Queue(command) /\ \A k \in CardKeys : ~ Presses(command, k) /\ (k = key => Frees(command, k))
      <4>1. CASE key = "rept"
        <5>1. PICK command \in Commands : command = <<"rept", FALSE>>
          BY DEF Commands
        <5>2. Queue(command)
          BY <1>3, <2>3, <4>1, <5>1, KeysApart DEF KeyUp, Queue
        <5>3. \A k : ~ Presses(command, k) /\ (k = key => Frees(command, k))
          BY <4>1, <5>1 DEF Presses, Frees
        <5>. QED BY <5>2, <5>3
      <4>2. CASE key \in MatrixKeys
        <5>1. PICK command \in Commands : command = <<"release", key>>
          BY <4>2 DEF Commands
        <5>2. Queue(command)
          BY <1>3, <2>3, <4>2, <5>1, KeysApart DEF KeyUp, Queue
        <5>3. \A k : ~ Presses(command, k) /\ (k = key => Frees(command, k))
          BY <5>1 DEF Presses, Frees
        <5>. QED BY <5>2, <5>3
      <4>. QED BY <2>3, <4>1, <4>2 DEF HostKeys
    <3>2. keyCommands' \in Seq(Commands) /\ QueueIsAccounted'
      BY <1>1, <2>1, <3>1, OneQueued
    <3>3. appleKeys' = appleKeys
      BY <1>3, <2>3 DEF KeyUp, HostKeys
    <3>4. SwitchesAreAccounted'
      BY <2>1, <2>3, <3>3 DEF KeyboardInv, SwitchesAreAccounted
    <3>. QED BY <1>1, <3>2, <3>4, HostStepKeeps
  <2>. QED BY <2>2, <2>3
<1>. QED BY <1>2, <1>3

LEMMA LoseKeeps == ASSUME KeyboardInv, LoseFocus PROVE KeyboardInv'
<1>1. keyboardModel' = keyboardModel /\ UNCHANGED cardVars /\ keyCard' = keyCard /\ typed' = {}
  BY DEF LoseFocus, cardVars
<1>2. CASE shell = "modal"
  <2>0. missed' = missed \cup typed /\ UNCHANGED <<keyCommands, appleKeys>>
    BY <1>2 DEF LoseFocus
  <2>1. \A k : k \in typed \cup missed => k \in typed' \cup missed'
    BY <1>1, <2>0
  <2>2. keyCommands' \in Seq(Commands) /\ QueueIsAccounted'
    BY <1>1, <2>0, <2>1, NothingQueued
  <2>3. SwitchesAreAccounted'
    BY <2>0, <2>1 DEF KeyboardInv, SwitchesAreAccounted
  <2>. QED BY <1>1, <2>2, <2>3, HostStepKeeps
<1>3. CASE shell # "modal"
  <2>0. Queue(<<"release all">>) /\ appleKeys' = {} /\ missed' = (missed \cup typed) \cap {"rept"}
    BY <1>3 DEF LoseFocus
  <2>1. PICK command \in Commands : command = <<"release all">>
    BY DEF Commands
  <2>2. \A k : ~ Presses(command, k) /\ (k # "rept" => Frees(command, k))
    BY <2>1 DEF Presses, Frees
  <2>3. keyCommands' \in Seq(Commands) /\ QueueIsAccounted'
    BY <1>1, <2>0, <2>1, <2>2, OneQueued
  <2>4. SwitchesAreAccounted'
    BY <2>0 DEF SwitchesAreAccounted
  <2>. QED BY <1>1, <2>3, <2>4, HostStepKeeps
<1>. QED BY <1>2, <1>3

LEMMA OthersKeep ==
  ASSUME KeyboardInv,
         UNCHANGED <<keyboardModel, cardVars, keyCommands, appleKeys, typed, missed>>
  PROVE  KeyboardInv'
<1>1. keyCommands' = keyCommands /\ keyCard' = keyCard /\ appleKeys' = appleKeys /\ typed' = typed /\ missed' = missed
  BY DEF cardVars
<1>2. keyCommands' \in Seq(Commands) /\ QueueIsAccounted'
  BY <1>1, NothingQueued
<1>3. SwitchesAreAccounted'
  BY <1>1 DEF KeyboardInv, SwitchesAreAccounted
<1>. QED BY <1>2, <1>3, HostStepKeeps

\* The keys down once the queue is delivered, the switches closed, the card's repeat and its alarm
\* are accounted for at every step, whatever the hand does, whenever the program runs and the card
\* is woken (frontend_handle_key_event, keyboard_release_host_modifiers, the commands and
\* keyboard_abi_think of Keyboard.cpp).
THEOREM KeyboardIsInductive == KeyboardSpec => []KeyboardInv
<1>1. KeyboardInit => KeyboardInv
  <2>. SUFFICES ASSUME KeyboardInit PROVE KeyboardInv
    OBVIOUS
  <2>1. PICK c : c = CardAtPowerOn
    OBVIOUS
  <2>2. c \in KeyCards /\ c.held = << >> /\ c.rept = FALSE /\ c.next = 0
    BY <2>1 DEF CardAtPowerOn, KeyCards
  <2>3. keyCard = c /\ keyCommands = << >> /\ appleKeys = {} /\ keyAlarm = 0 /\ keyClock = 0 /\ pressedAt = 0
    BY <2>1 DEF KeyboardInit
  <2>4. IsInjective(c.held) /\ DownIn(c) = {}
    BY <2>2 DEF IsInjective, DownIn, Range
  <2>5. QueueIsAccounted
    <3>1. \A k : ~ DownBy(<< >>, {}, 0, k)
      BY DownAtFirst
    <3>. QED BY <2>3, <2>4, <3>1 DEF QueueIsAccounted
  <2>6. SwitchesAreAccounted /\ RepeatKeepsTime /\ Repeating(keyCard)
    BY <2>2, <2>3 DEF SwitchesAreAccounted, RepeatKeepsTime, Repeating, Repeats, AnyKeyDown
  <2>7. << >> \in Seq(Commands) /\ keyboardModel \in KeyboardModels
    BY DEF KeyboardInit
  <2>. QED BY <2>2, <2>3, <2>4, <2>5, <2>6, <2>7 DEF KeyboardInv
<1>2. KeyboardInv /\ [KeyboardNext]_keyboardVars => KeyboardInv'
  <2>. SUFFICES ASSUME KeyboardInv, [KeyboardNext]_keyboardVars PROVE KeyboardInv'
    OBVIOUS
  <2>1. CASE DrainCommands
    BY <2>1, DrainKeeps
  <2>2. CASE ClearStrobe
    BY <2>2, ClearKeeps
  <2>3. ASSUME NEW cycles \in Spans, RunFor(cycles) PROVE KeyboardInv'
    BY <2>3, RunKeeps
  <2>4. ASSUME NEW key \in HostKeys, KeyDown(key) \/ KeyUp(key) PROVE KeyboardInv'
    BY <2>4, DownKeeps, UpKeeps
  <2>5. CASE LoseFocus
    BY <2>5, LoseKeeps
  <2>6. CASE GainFocus
    BY <2>6, OthersKeep DEF GainFocus
  <2>7. ASSUME NEW mode, ChangeMode(mode) PROVE KeyboardInv'
    BY <2>7, OthersKeep DEF ChangeMode
  <2>8. CASE ReinitialiseSticks
    BY <2>8, OthersKeep DEF ReinitialiseSticks
  <2>9. CASE PowerCycleKeys
    BY <2>9, PowerKeeps
  <2>10. ASSUME NEW strobe \in BOOLEAN, LoadKeyboard(strobe) PROVE KeyboardInv'
    BY <2>10, LoadKeeps
  <2>11. CASE UNCHANGED keyboardVars
    BY <2>11, OthersKeep DEF keyboardVars, cardVars
  <2>. QED BY <2>1, <2>2, <2>3, <2>4, <2>5, <2>6, <2>7, <2>8, <2>9, <2>10, <2>11 DEF KeyboardNext, HostStep
<1>. QED BY <1>1, <1>2, PTL DEF KeyboardSpec

\* No key stays down when the hand is off it and every release was heard, and the repeat keeps its
\* time, for any keys, times and spans, and however late the card is woken (Keyboard.cpp and the
\* frontends' key handlers).
THEOREM KeysAreFollowed == KeyboardSpec => []KeysFollowTheHand
<1>1. KeyboardInv => KeysFollowTheHand
  <2>. SUFFICES ASSUME KeyboardInv PROVE NoKeyStaysDown
    BY DEF KeyboardInv, KeysFollowTheHand
  <2>. SUFFICES ASSUME keyCommands = << >>
                PROVE  /\ Range(keyCard.held) \subseteq typed \cup missed
                       /\ keyCard.rept => "rept" \in typed \cup missed
    BY DEF KeyboardInv, SwitchesAreAccounted, Repeating, NoKeyStaysDown
  <2>1. \A k \in CardKeys : k \in DownIn(keyCard) => k \in typed \cup missed
    <3>1. \A k \in CardKeys : DownBy(keyCommands, DownIn(keyCard), 0, k) => k \in typed \cup missed
      BY DEF KeyboardInv, QueueIsAccounted, Unaccounted
    <3>. QED BY <3>1, DownAtFirst
  <2>2. keyCard \in KeyCards
    BY DEF KeyboardInv
  <2>3. Range(keyCard.held) \subseteq MatrixKeys
    BY <2>2, CardFields DEF Range
  <2>4. ASSUME NEW k \in Range(keyCard.held) PROVE k \in DownIn(keyCard) /\ k \in CardKeys
    BY <2>2, <2>3, DownInIs DEF CardKeys
  <2>5. keyCard.rept => "rept" \in DownIn(keyCard) /\ "rept" \in CardKeys
    BY <2>2, DownInIs DEF CardKeys
  <2>. QED BY <2>1, <2>4, <2>5
<1>. QED BY <1>1, KeyboardIsInductive, PTL
============================================================================
