--------------------------- MODULE HostPath_proof ----------------------------
(***************************************************************************)
(* What lies between the host and the cards: the cards in their slots      *)
(* (CardSlots), and the bytes a card sends to the printer's file and over  *)
(* the serial cable (PrinterPath, SerialFarEnd).  SlotsAreKept and         *)
(* LoadIsWhole, for every set of built cards, every configuration, and any *)
(* number of commands and loads; PrinterKeepsItsBytes, for any number of   *)
(* bytes and steps; CableIsTransparent, for every size of the rings, every *)
(* kind of device and any number of bytes and outages.                     *)
(***************************************************************************)
EXTENDS CardSlots, PrinterPath, SerialFarEnd, SequenceTheorems, FiniteSetTheorems, TLAPS

----------------------------------------------------------------------------
\* The cards in the slots.

\* What every slot of a board or of a manifest may name: the configuration's card, or
\* in the slot of the legacy key one of the key's two cards.
Named(names) ==
  /\ names = [s \in Expansion |-> names[s]]
  /\ \A s \in Expansion :
       /\ names[s] \in Built \cup {None}
       /\ s # override.slot => names[s] = Placed(setting)[s]
       /\ s = override.slot => names[s] \in {"mouse", override.displaced}

\* A slot holds one card or none.
Held(card) == IF card = None THEN <<>> ELSE <<card>>

BoardInv ==
  /\ override = LegacyOverride(setting)
  /\ requested = RequestSlot(setting, SlotsConfigured(setting))
  /\ mouseSlot = SlotOf(board, "mouse")
  /\ board = [s \in 0 .. 7 |-> board[s]] /\ board[0] = InternalDevices
  /\ \A s \in Expansion : board[s] = Held(FrontCard(board, s))
  /\ Named(Names(board))
  /\ \A names \in slotFiles : Named(names)
  /\ loads \in Seq({"loaded", "refused"})
  /\ loads = <<>> => board = AsBoard(Placed(setting))

Left == Len(draining) + Len(waiting)

\* The slot still holds what the command was sent to, or another instance.
Reached(n) ==
  LET command == sent[n]
  IN /\ command.life <= life[command.slot]
     /\ command.life = life[command.slot] =>
          \E i \in DOMAIN board[command.slot] : Addressed(command, board[command.slot][i])

Kept(n) ==
  /\ sent[n].target # None => \A t \in taken[n] : t.card = sent[n].target
  /\ n <= Len(sent) - Left /\ sent[n].life = life[sent[n].slot] => taken[n] # {}

CommandsInv ==
  /\ life \in [0 .. 7 -> Nat]
  /\ sent \in Seq([slot : 0 .. 7, target : {None, "mouse"}, life : Nat])
  /\ Len(taken) = Len(sent) /\ taken \in Seq(SUBSET [card : Cards, life : Nat])
  /\ waiting \in Seq(Nat) /\ draining \in Seq(Nat)
  /\ Left <= Len(sent)
  /\ \A i \in 1 .. Len(draining) : draining[i] = Len(sent) - Left + i
  /\ \A i \in 1 .. Len(waiting) : waiting[i] = Len(sent) - Len(waiting) + i
  /\ \A n \in 1 .. Len(sent) : Reached(n) /\ Kept(n)

SlotsInv == BoardInv /\ CommandsInv

LEMMA NoneIsNotACard == None \notin Built /\ FoundCard(None) = None
BY CardSlotsAssumption DEF None, FoundCard

LEMMA FoundIsBuilt ==
  ASSUME NEW card
  PROVE  /\ FoundCard(card) \in Built \cup {None}
         /\ FoundCard(card) # None <=> card \in Built
         /\ card \in Built => FoundCard(card) = card
BY NoneIsNotACard DEF FoundCard

\* A set of slots has its lowest and its highest.
LEMMA LowestSlot ==
  ASSUME NEW S \in SUBSET (0 .. 7), S # {}
  PROVE  \E s \in S : \A t \in S : s <= t
<1>1. ASSUME NEW n \in 0 .. 7, n \in S, \A m \in 0 .. 7 : m < n => m \notin S
      PROVE  \A t \in S : n <= t
  BY <1>1
<1>2. 0 \in S \/ 1 \in S \/ 2 \in S \/ 3 \in S \/ 4 \in S \/ 5 \in S \/ 6 \in S \/ 7 \in S
  <2>. PICK x : x \in S
    OBVIOUS
  <2>1. x \in 0 .. 7
    OBVIOUS
  <2>. QED BY <2>1
<1>3. \E n \in 0 .. 7 : n \in S /\ \A m \in 0 .. 7 : m < n => m \notin S
  BY <1>2, SMTT(30)
<1>. QED BY <1>1, <1>3

LEMMA HighestSlot ==
  ASSUME NEW S \in SUBSET (1 .. 7), S # {}
  PROVE  \E s \in S : \A t \in S : t <= s
<1>1. ASSUME NEW n \in 1 .. 7, n \in S, \A m \in 1 .. 7 : m > n => m \notin S
      PROVE  \A t \in S : t <= n
  BY <1>1
<1>2. 1 \in S \/ 2 \in S \/ 3 \in S \/ 4 \in S \/ 5 \in S \/ 6 \in S \/ 7 \in S
  <2>. PICK x : x \in S
    OBVIOUS
  <2>1. x \in 1 .. 7
    OBVIOUS
  <2>. QED BY <2>1
<1>3. \E n \in 1 .. 7 : n \in S /\ \A m \in 1 .. 7 : m > n => m \notin S
  BY <1>2, SMTT(30)
<1>. QED BY <1>1, <1>3

----------------------------------------------------------------------------
(* The placement of the configured cards *)

LEMMA ConfiguredCards ==
  ASSUME NEW c
  PROVE  /\ SlotsConfigured(c) = [s \in Expansion |-> SlotsConfigured(c)[s]]
         /\ \A s \in Expansion : SlotsConfigured(c)[s] \in Built \cup {None}
<1>1. ASSUME NEW s \in Expansion PROVE SlotsConfigured(c)[s] \in Built \cup {None}
  <2>1. SlotsConfigured(c)[s] = IF MouseKeyRules(c, s) THEN "mouse" ELSE FoundCard(NamedCard(c, s))
    BY DEF SlotsConfigured
  <2>2. MouseKeyRules(c, s) => "mouse" \in Built
    BY DEF MouseKeyRules
  <2>. QED BY <2>1, <2>2, FoundIsBuilt
<1>. QED BY <1>1 DEF SlotsConfigured

LEMMA DefaultSlots ==
  ASSUME NEW card \in Built
  PROVE  DefaultSlot(card) \in {-1, 1, 2, 4, 6, 7}
BY CardSlotsAssumption DEF DefaultSlot

\* The slot a card that was asked for looks for a place from
Own(c) == IF DefaultSlot(c.request) \in Expansion THEN DefaultSlot(c.request) ELSE 7

\* The request goes to where its card is, else to a free slot as near its own as can be.
LEMMA RequestsAreMet ==
  ASSUME NEW c, NEW at, at = [s \in Expansion |-> at[s]]
  PROVE  /\ RequestSlot(c, at) \in {-1} \cup Expansion
         /\ RequestSlot(c, at) # -1 =>
              /\ c.request \in Built
              /\ at[RequestSlot(c, at)] = c.request \/ TakesRequest(c, at, RequestSlot(c, at), Own(c))
         /\ RequestSlot(c, at) = -1 /\ c.request \in Built =>
              \A s \in Expansion : at[s] # c.request /\ (s <= Own(c) => ~ TakesRequest(c, at, s, Own(c)))
<1>. DEFINE holders == {s \in Expansion : at[s] = c.request}
            free == {s \in 1 .. Own(c) : TakesRequest(c, at, s, Own(c))}
            r == RequestSlot(c, at)
<1>0. Own(c) \in Expansion
  BY DEF Expansion, Own
<1>1. r =
       IF FoundCard(c.request) = None THEN -1
       ELSE IF holders # {} THEN CHOOSE s \in holders : \A t \in holders : s <= t
       ELSE IF free # {} THEN CHOOSE s \in free : \A t \in free : t <= s
       ELSE -1
  BY DEF RequestSlot, Own
<1>2. holders # {} => (CHOOSE s \in holders : \A t \in holders : s <= t) \in holders
  <2>1. holders \in SUBSET (0 .. 7)
    BY DEF Expansion
  <2>. HIDE DEF holders
  <2>. QED BY <2>1, LowestSlot
<1>3. free # {} => (CHOOSE s \in free : \A t \in free : t <= s) \in free
  <2>1. free \in SUBSET (1 .. 7)
    BY <1>0 DEF Expansion
  <2>. HIDE DEF free
  <2>. QED BY <2>1, HighestSlot
<1>4. holders \subseteq Expansion /\ free \subseteq Expansion
  BY <1>0 DEF Expansion
<1>5. CASE FoundCard(c.request) = None
  <2>1. c.request \notin Built
    BY <1>5, FoundIsBuilt
  <2>2. r = -1
    <3>. HIDE DEF holders, free
    <3>. QED BY <1>1, <1>5
  <2>. QED BY <2>1, <2>2
<1>6. CASE FoundCard(c.request) # None /\ holders # {}
  <2>1. r \in holders
    <3>. HIDE DEF holders, free
    <3>. QED BY <1>1, <1>2, <1>6
  <2>2. c.request \in Built
    BY <1>6, FoundIsBuilt
  <2>3. r \in Expansion /\ at[r] = c.request /\ r # -1
    BY <1>4, <2>1 DEF Expansion
  <2>. QED BY <2>2, <2>3
<1>7. CASE FoundCard(c.request) # None /\ holders = {} /\ free = {}
  <2>1. r = -1
    <3>. HIDE DEF holders, free
    <3>. QED BY <1>1, <1>7
  <2>2. \A s \in Expansion : at[s] # c.request /\ (s <= Own(c) => ~ TakesRequest(c, at, s, Own(c)))
    <3>1. \A s \in Expansion : at[s] # c.request
      BY <1>7
    <3>2. ASSUME NEW s \in Expansion, s <= Own(c) PROVE ~ TakesRequest(c, at, s, Own(c))
      <4>1. s \in 1 .. Own(c)
        BY <1>0, <3>2 DEF Expansion
      <4>. QED BY <1>7, <4>1
    <3>. QED BY <3>1, <3>2
  <2>. QED BY <2>1, <2>2
<1>8. CASE FoundCard(c.request) # None /\ holders = {} /\ free # {}
  <2>1. r \in free
    <3>. HIDE DEF holders, free
    <3>. QED BY <1>1, <1>3, <1>8
  <2>2. c.request \in Built
    BY <1>8, FoundIsBuilt
  <2>3. r \in Expansion /\ TakesRequest(c, at, r, Own(c)) /\ r # -1
    BY <1>4, <2>1 DEF Expansion
  <2>. QED BY <2>2, <2>3
<1>. QED BY <1>5, <1>6, <1>7, <1>8

\* What the placement puts in the slots: the configured cards, and the card asked for
\* in a slot they leave free.
LEMMA PlacedCards ==
  ASSUME NEW c
  PROVE  /\ Placed(c) = [s \in Expansion |-> Placed(c)[s]]
         /\ \A s \in Expansion :
              /\ Placed(c)[s] \in Built \cup {None}
              /\ SlotsConfigured(c)[s] # None => Placed(c)[s] = SlotsConfigured(c)[s]
<1>. DEFINE at == SlotsConfigured(c)
            r == RequestSlot(c, at)
<1>1. at = [s \in Expansion |-> at[s]] /\ \A s \in Expansion : at[s] \in Built \cup {None}
  BY ConfiguredCards
<1>2. Placed(c) = IF r = -1 THEN at ELSE [at EXCEPT ![r] = c.request]
  BY DEF Placed
<1>3. /\ r \in {-1} \cup Expansion
      /\ r # -1 => c.request \in Built /\ (at[r] = c.request \/ at[r] = None)
  <2>. HIDE DEF at
  <2>. QED BY <1>1, RequestsAreMet DEF TakesRequest
<1>. HIDE DEF at, r
<1>4. CASE r = -1
  BY <1>1, <1>2, <1>4 DEF at
<1>5. CASE r # -1
  <2>1. Placed(c) = [s \in Expansion |-> IF s = r THEN c.request ELSE at[s]]
    BY <1>1, <1>2, <1>5
  <2>2. ASSUME NEW s \in Expansion
        PROVE  /\ Placed(c)[s] \in Built \cup {None}
               /\ at[s] # None => Placed(c)[s] = at[s]
    BY <1>1, <1>3, <1>5, <2>1
  <2>. QED BY <2>1, <2>2 DEF at
<1>. QED BY <1>4, <1>5

\* Where the request was served it is in the slot.
LEMMA RequestIsPlaced ==
  ASSUME NEW c, RequestSlot(c, SlotsConfigured(c)) # -1
  PROVE  Placed(c)[RequestSlot(c, SlotsConfigured(c))] = c.request
<1>. DEFINE at == SlotsConfigured(c)
            r == RequestSlot(c, at)
<1>1. at = [s \in Expansion |-> at[s]]
  BY ConfiguredCards
<1>2. Placed(c) = [at EXCEPT ![r] = c.request]
  BY DEF Placed
<1>3. r \in Expansion
  <2>. HIDE DEF at
  <2>. QED BY <1>1, RequestsAreMet DEF r, at
<1>. HIDE DEF at, r
<1>. QED BY <1>1, <1>2, <1>3 DEF at, r

\* Where it was not, the slots are the configured ones.
LEMMA RequestIsRefused ==
  ASSUME NEW c, RequestSlot(c, SlotsConfigured(c)) = -1
  PROVE  Placed(c) = SlotsConfigured(c)
BY DEF Placed

\* The slot the mouse key rules holds the mouse.
LEMMA OverriddenSlot ==
  ASSUME NEW c
  PROVE  LET o == LegacyOverride(c)
         IN /\ o.slot \in {0, 4} /\ o.displaced \in Built \cup {None}
            /\ o.slot = 4 => Placed(c)[4] = "mouse" /\ "mouse" \in Built
<1>1. FoundCard(NamedCard(c, 4)) \in Built \cup {None}
  BY FoundIsBuilt
<1>2. ASSUME MouseKeyRules(c, 4) PROVE Placed(c)[4] = "mouse" /\ "mouse" \in Built
  <2>1. SlotsConfigured(c)[4] = "mouse" /\ "mouse" \in Built
    BY <1>2 DEF SlotsConfigured, MouseKeyRules, Expansion
  <2>2. 4 \in Expansion /\ "mouse" # None
    BY DEF Expansion, None
  <2>. QED BY <2>1, <2>2, PlacedCards
<1>. QED BY <1>1, <1>2 DEF LegacyOverride

----------------------------------------------------------------------------
(* Boards and manifests *)

LEMMA HeldCards ==
  ASSUME NEW card
  PROVE  /\ Held(card) = <<>> <=> card = None
         /\ card # None => Held(card) = <<card>>
         /\ Len(Held(card)) <= 1
         /\ \A i \in DOMAIN Held(card) : Held(card)[i] = card
         /\ card # None => Held(card)[1] = card /\ 1 \in DOMAIN Held(card)
BY DEF Held

LEMMA FrontOfHeld ==
  ASSUME NEW b, NEW s, NEW card, b[s] = Held(card)
  PROVE  FrontCard(b, s) = card
<1>1. CASE card = None
  BY <1>1 DEF FrontCard, Held
<1>2. CASE card # None
  <2>1. b[s] = <<card>> /\ b[s] # <<>>
    BY <1>2, HeldCards
  <2>2. Head(<<card>>) = card
    OBVIOUS
  <2>. QED BY <2>1, <2>2 DEF FrontCard
<1>. QED BY <1>1, <1>2

LEMMA BoardOfCards ==
  ASSUME NEW at
  PROVE  /\ AsBoard(at) = [s \in 0 .. 7 |-> AsBoard(at)[s]]
         /\ AsBoard(at)[0] = InternalDevices
         /\ \A s \in Expansion : AsBoard(at)[s] = Held(at[s]) /\ FrontCard(AsBoard(at), s) = at[s]
<1>1. ASSUME NEW s \in Expansion PROVE AsBoard(at)[s] = Held(at[s])
  BY DEF AsBoard, Held, Expansion
<1>. QED BY <1>1, FrontOfHeld DEF AsBoard

LEMMA NamesOfCards ==
  ASSUME NEW at, at = [s \in Expansion |-> at[s]]
  PROVE  Names(AsBoard(at)) = at
BY BoardOfCards DEF Names

LEMMA NamedAtStart ==
  ASSUME override = LegacyOverride(setting)
  PROVE  Named(Placed(setting))
<1>1. override.slot \in {0, 4} /\ (override.slot = 4 => Placed(setting)[4] = "mouse")
  BY OverriddenSlot
<1>2. /\ Placed(setting) = [s \in Expansion |-> Placed(setting)[s]]
      /\ \A s \in Expansion : Placed(setting)[s] \in Built \cup {None}
  BY PlacedCards
<1>3. ASSUME NEW s \in Expansion, s = override.slot
      PROVE  Placed(setting)[s] \in {"mouse", override.displaced}
  BY <1>1, <1>3 DEF Expansion
<1>. QED BY <1>2, <1>3 DEF Named

\* A file of this session, taken whenever, is admitted whatever was loaded since.
LEMMA NamedIsAdmitted ==
  ASSUME NEW names, Named(names), Named(Names(board))
  PROVE  Admits(names, board)
<1>. SUFFICES ASSUME NEW s \in Expansion, names[s] # FrontCard(board, s)
              PROVE  SwapWanted(names, board, s)
  BY DEF Admits
<1>1. Names(board)[s] = FrontCard(board, s)
  BY DEF Names
<1>2. s = override.slot
  BY <1>1 DEF Named
<1>3. names[s] \in {"mouse", override.displaced} /\ FrontCard(board, s) \in {"mouse", override.displaced}
  BY <1>1, <1>2 DEF Named
<1>. QED BY <1>2, <1>3 DEF SwapWanted

\* What is admitted names only what the slots may hold.
LEMMA AdmittedIsNamed ==
  ASSUME NEW names, names = [s \in Expansion |-> names[s]],
         override = LegacyOverride(setting), Named(Names(board)), Admits(names, board)
  PROVE  Named(names)
<1>1. /\ override.slot \in {0, 4} /\ override.displaced \in Built \cup {None}
      /\ override.slot = 4 => "mouse" \in Built
  BY OverriddenSlot
<1>2. ASSUME NEW s \in Expansion
      PROVE  /\ names[s] \in Built \cup {None}
             /\ s # override.slot => names[s] = Placed(setting)[s]
             /\ s = override.slot => names[s] \in {"mouse", override.displaced}
  <2>1. Names(board)[s] = FrontCard(board, s)
    BY DEF Names
  <2>2. CASE names[s] = FrontCard(board, s)
    BY <2>1, <2>2 DEF Named
  <2>3. CASE SwapWanted(names, board, s)
    <3>1. s = override.slot /\ names[s] \in {"mouse", override.displaced}
      BY <2>3 DEF SwapWanted
    <3>2. s = 4
      BY <1>1, <3>1 DEF Expansion
    <3>. QED BY <1>1, <3>1, <3>2
  <2>. QED BY <2>2, <2>3 DEF Admits
<1>. QED BY <1>2 DEF Named

\* A file of another machine is not.
LEMMA ForeignIsRefused ==
  ASSUME override = LegacyOverride(setting)
  PROVE  ~ Admits(Foreign(board), board)
<1>1. override.slot # 7
  BY OverriddenSlot
<1>2. 7 \in Expansion
  BY DEF Expansion
<1>3. Names(board)[7] = FrontCard(board, 7)
  BY <1>2 DEF Names
<1>4. Foreign(board)[7] # FrontCard(board, 7)
  BY <1>2, <1>3 DEF Foreign, Names, None
<1>. QED BY <1>1, <1>2, <1>4 DEF Admits, SwapWanted

\* After a load the slots hold what the file names.
LEMMA SwappedCards ==
  ASSUME NEW names, names = [s \in Expansion |-> names[s]], BoardInv
  PROVE  LET b == CardsSwapped(names, board)
         IN /\ b = [s \in 0 .. 7 |-> b[s]] /\ b[0] = InternalDevices
            /\ \A s \in Expansion : b[s] = Held(names[s]) /\ FrontCard(b, s) = names[s]
            /\ Names(b) = names
<1>. DEFINE b == CardsSwapped(names, board)
<1>1. b = [s \in 0 .. 7 |-> b[s]]
  BY DEF CardsSwapped
<1>2. b[0] = InternalDevices
  BY DEF CardsSwapped, BoardInv, Expansion
<1>3. ASSUME NEW s \in Expansion PROVE b[s] = Held(names[s])
  <2>1. b[s] = IF names[s] # FrontCard(board, s) THEN Held(names[s]) ELSE board[s]
    BY DEF CardsSwapped, Expansion, Held
  <2>2. board[s] = Held(FrontCard(board, s))
    BY DEF BoardInv
  <2>. QED BY <2>1, <2>2
<1>. HIDE DEF b
<1>4. ASSUME NEW s \in Expansion PROVE FrontCard(b, s) = names[s]
  BY <1>3, FrontOfHeld
<1>5. Names(b) = names
  BY <1>4 DEF Names
<1>. QED BY <1>1, <1>2, <1>3, <1>4, <1>5 DEF b

\* Every file a load may be given lists the seven slots.
LEMMA FilesNameTheSlots ==
  ASSUME BoardInv, NEW names \in slotFiles \cup {Earlier, Foreign(board)}
  PROVE  names = [s \in Expansion |-> names[s]]
<1>1. CASE names \in slotFiles
  BY <1>1 DEF BoardInv, Named
<1>2. CASE names = Earlier
  <2>1. ASSUME NEW b PROVE Names(b) = [s \in Expansion |-> Names(b)[s]]
    BY DEF Names
  <2>. QED BY <1>2, <2>1 DEF Earlier
<1>3. CASE names = Foreign(board)
  BY <1>3 DEF Foreign, Names
<1>. QED BY <1>1, <1>2, <1>3

----------------------------------------------------------------------------
(* The board is kept *)

LEMMA BoardInvInitially == SlotsInit => BoardInv
<1>. SUFFICES ASSUME SlotsInit PROVE BoardInv
  OBVIOUS
<1>1. Started(setting)
  BY DEF SlotsInit, Started
<1>2. board = AsBoard(Placed(setting)) /\ override = LegacyOverride(setting)
      /\ requested = RequestSlot(setting, SlotsConfigured(setting))
      /\ mouseSlot = SlotOf(board, "mouse") /\ slotFiles = {} /\ loads = <<>>
  BY <1>1 DEF Started, SlotsInit
<1>3. Placed(setting) = [s \in Expansion |-> Placed(setting)[s]]
  BY PlacedCards
<1>4. Names(board) = Placed(setting) /\ Named(Placed(setting))
  BY <1>2, <1>3, NamesOfCards, NamedAtStart
<1>5. /\ board = [s \in 0 .. 7 |-> board[s]] /\ board[0] = InternalDevices
      /\ \A s \in Expansion : board[s] = Held(FrontCard(board, s))
  BY <1>2, BoardOfCards
<1>6. loads \in Seq({"loaded", "refused"})
  BY <1>2
<1>. QED BY <1>2, <1>4, <1>5, <1>6 DEF BoardInv

LEMMA BoardInvUnchanged ==
  ASSUME BoardInv, UNCHANGED <<setting, board, override, requested, mouseSlot, slotFiles, loads>>
  PROVE  BoardInv'
BY DEF BoardInv, Named, Names

LEMMA BoardInvSaved ==
  ASSUME BoardInv, SaveState
  PROVE  BoardInv'
<1>1. UNCHANGED <<setting, board, override, requested, mouseSlot, loads>>
      /\ slotFiles' = slotFiles \cup {Names(board)}
  BY DEF SaveState
<1>2. ASSUME NEW names, Named(names) PROVE Named(names)'
  BY <1>1, <1>2 DEF Named
<1>3. Named(Names(board))' /\ \A names \in slotFiles' : Named(names)'
  BY <1>1, <1>2 DEF BoardInv, Named, Names
<1>. QED BY <1>1, <1>3 DEF BoardInv

LEMMA BoardInvLoaded ==
  ASSUME BoardInv,
         NEW names \in slotFiles \cup {Earlier, Foreign(board)}, NEW trailer \in BOOLEAN,
         NEW sane \in BOOLEAN, NEW refused, LoadSlots(names, trailer, sane, refused)
  PROVE  BoardInv'
<1>1. UNCHANGED <<setting, override, requested, slotFiles>>
  BY DEF LoadSlots
<1>2. CASE ~ (Admits(names, board) /\ sane)
  <2>1. UNCHANGED <<board, mouseSlot>> /\ loads' = Append(loads, "refused")
    BY <1>2 DEF LoadSlots
  <2>2. loads' \in Seq({"loaded", "refused"}) /\ loads' # <<>>
    BY <2>1, AppendProperties DEF BoardInv
  <2>3. Named(Names(board))' /\ \A file \in slotFiles' : Named(file)'
    BY <1>1, <2>1 DEF BoardInv, Named, Names
  <2>. QED BY <1>1, <2>1, <2>2, <2>3 DEF BoardInv
<1>3. CASE Admits(names, board) /\ sane
  <2>1. board' = CardsSwapped(names, board) /\ mouseSlot' = SlotOf(board', "mouse")
        /\ loads' = Append(loads, "loaded")
    BY <1>3 DEF LoadSlots
  <2>2. loads' \in Seq({"loaded", "refused"}) /\ loads' # <<>>
    BY <2>1, AppendProperties DEF BoardInv
  <2>3. names = [s \in Expansion |-> names[s]]
    BY FilesNameTheSlots
  <2>4. /\ board' = [s \in 0 .. 7 |-> board'[s]] /\ board'[0] = InternalDevices
        /\ \A s \in Expansion : board'[s] = Held(names[s]) /\ FrontCard(board', s) = names[s]
        /\ Names(board') = names
    BY <2>1, <2>3, SwappedCards
  <2>5. Named(names)
    BY <1>3, <2>3, AdmittedIsNamed DEF BoardInv
  <2>6. Named(Names(board))'
    BY <1>1, <2>4, <2>5 DEF Named
  <2>7. \A file \in slotFiles' : Named(file)'
    BY <1>1 DEF BoardInv, Named
  <2>. QED BY <1>1, <2>1, <2>2, <2>4, <2>6, <2>7 DEF BoardInv
<1>. QED BY <1>2, <1>3

LEMMA BoardIsKept == BoardInv /\ [SlotsNext]_slotVars => BoardInv'
<1>. SUFFICES ASSUME BoardInv, [SlotsNext]_slotVars PROVE BoardInv'
  OBVIOUS
<1>1. CASE SendKey \/ SendMouse
  BY <1>1, BoardInvUnchanged DEF SendKey, SendMouse, Send
<1>2. CASE TakeBatch
  BY <1>2, BoardInvUnchanged DEF TakeBatch
<1>3. CASE Deliver
  BY <1>3, BoardInvUnchanged DEF Deliver
<1>4. CASE SaveState
  BY <1>4, BoardInvSaved
<1>5. CASE LoadAny
  BY <1>5, BoardInvLoaded DEF LoadAny
<1>6. CASE Run
  BY <1>6, BoardInvUnchanged DEF Run
<1>7. CASE UNCHANGED slotVars
  BY <1>7, BoardInvUnchanged DEF slotVars
<1>. QED BY <1>1, <1>2, <1>3, <1>4, <1>5, <1>6, <1>7 DEF SlotsNext

----------------------------------------------------------------------------
(* The commands are kept *)

\* The cards of a slot are cards of the machine.
LEMMA CardsOnTheBoard ==
  ASSUME BoardInv, NEW s \in 0 .. 7, NEW i \in DOMAIN board[s]
  PROVE  board[s][i] \in Cards
<1>1. CASE s = 0
  <2>1. i \in 1 .. 3 /\ board[s] = <<"speaker", "keyboard", "joystick">>
    BY <1>1 DEF BoardInv, InternalDevices
  <2>. QED BY <2>1 DEF Cards
<1>2. CASE s # 0
  <2>1. s \in Expansion
    BY <1>2 DEF Expansion
  <2>2. board[s] = Held(FrontCard(board, s)) /\ FrontCard(board, s) \in Built \cup {None}
    BY <2>1 DEF BoardInv, Named, Names
  <2>3. FrontCard(board, s) # None
    <3>1. ASSUME FrontCard(board, s) = None PROVE FALSE
      <4>1. board[s] = <<>>
        BY <2>2, <3>1, HeldCards
      <4>. QED BY <4>1
    <3>. QED BY <3>1
  <2>4. board[s][i] = FrontCard(board, s)
    BY <2>2, HeldCards
  <2>. QED BY <2>2, <2>3, <2>4 DEF Cards
<1>. QED BY <1>1, <1>2

LEMMA CardsAreNamed == None \notin Cards
BY NoneIsNotACard DEF Cards, None

\* Where the mouse is looked up, it is.
LEMMA MouseIsFound ==
  ASSUME NEW b, NEW card
  PROVE  /\ SlotOf(b, card) \in {-1} \cup (0 .. 7)
         /\ SlotOf(b, card) # -1 => \E i \in DOMAIN b[SlotOf(b, card)] : b[SlotOf(b, card)][i] = card
<1>. DEFINE holders == {s \in 0 .. 7 : \E i \in DOMAIN b[s] : b[s][i] = card}
            r == SlotOf(b, card)
<1>1. r = IF holders = {} THEN -1 ELSE CHOOSE s \in holders : \A t \in holders : s <= t
  BY DEF SlotOf
<1>2. holders # {} => (CHOOSE s \in holders : \A t \in holders : s <= t) \in holders
  <2>1. holders \in SUBSET (0 .. 7)
    OBVIOUS
  <2>. HIDE DEF holders
  <2>. QED BY <2>1, LowestSlot
<1>3. holders # {} => r \in holders
  <2>. HIDE DEF holders
  <2>. QED BY <1>1, <1>2
<1>4. holders = {} => r = -1
  BY <1>1
<1>5. CASE holders = {}
  BY <1>4, <1>5
<1>6. CASE holders # {}
  BY <1>3, <1>6
<1>. QED BY <1>5, <1>6

Command == [slot : 0 .. 7, target : {None, "mouse"}, life : Nat]

Takers == SUBSET [card : Cards, life : Nat]

\* A queue with one more at its end
LEMMA Appended ==
  ASSUME NEW S, NEW q \in Seq(S), NEW e \in S, NEW r, r = Append(q, e)
  PROVE  /\ r \in Seq(S) /\ Len(r) = Len(q) + 1 /\ r[Len(q) + 1] = e
         /\ \A i \in 1 .. Len(q) : r[i] = q[i]
BY AppendProperties

LEMMA Replaced ==
  ASSUME NEW S, NEW q \in Seq(S), NEW k \in 1 .. Len(q), NEW e \in S, NEW r, r = [q EXCEPT ![k] = e]
  PROVE  r \in Seq(S) /\ Len(r) = Len(q) /\ r[k] = e /\ \A i \in 1 .. Len(q) : i # k => r[i] = q[i]
OBVIOUS

LEMMA CommandsInitially == SlotsInit => CommandsInv
<1>. SUFFICES ASSUME SlotsInit PROVE CommandsInv
  OBVIOUS
<1>1. life \in [0 .. 7 -> Nat]
  BY DEF SlotsInit
<1>2. sent = <<>> /\ taken = <<>> /\ waiting = <<>> /\ draining = <<>>
  BY DEF SlotsInit
<1>3. /\ sent \in Seq([slot : 0 .. 7, target : {None, "mouse"}, life : Nat])
      /\ taken \in Seq(SUBSET [card : Cards, life : Nat])
      /\ waiting \in Seq(Nat) /\ draining \in Seq(Nat)
  BY <1>2
<1>4. Len(sent) = 0 /\ Len(taken) = 0 /\ Len(waiting) = 0 /\ Len(draining) = 0 /\ Left = 0
  BY <1>2 DEF Left
<1>. QED BY <1>1, <1>3, <1>4 DEF CommandsInv

LEMMA CommandsUnchanged ==
  ASSUME CommandsInv, UNCHANGED <<board, life, sent, waiting, draining, taken>>
  PROVE  CommandsInv'
<1>1. \A n : (Reached(n) /\ Kept(n)) => (Reached(n) /\ Kept(n))' 
  BY DEF Reached, Kept, Left, Addressed
<1>2. Left' = Left
  BY DEF Left
<1>. QED BY <1>1, <1>2 DEF CommandsInv

LEMMA CommandsSent ==
  ASSUME CommandsInv, NEW slot \in 0 .. 7, NEW target \in {None, "mouse"},
         \E i \in DOMAIN board[slot] : target = None \/ board[slot][i] = target,
         Send(slot, target)
  PROVE  CommandsInv'
<1>. DEFINE command == [slot |-> slot, target |-> target, life |-> life[slot]]
            new == Len(sent) + 1
<1>1. /\ sent' = Append(sent, command) /\ waiting' = Append(waiting, new)
      /\ taken' = Append(taken, {}) /\ UNCHANGED <<board, life, draining>>
  BY DEF Send
<1>2. /\ life \in [0 .. 7 -> Nat] /\ sent \in Seq(Command) /\ taken \in Seq(Takers)
      /\ waiting \in Seq(Nat) /\ draining \in Seq(Nat) /\ Len(taken) = Len(sent) /\ Left <= Len(sent)
      /\ \A i \in 1 .. Len(draining) : draining[i] = Len(sent) - Left + i
      /\ \A i \in 1 .. Len(waiting) : waiting[i] = Len(sent) - Len(waiting) + i
  BY DEF CommandsInv, Command, Takers
<1>3. command \in Command /\ {} \in Takers /\ Len(sent) \in Nat /\ Len(waiting) \in Nat /\ Len(draining) \in Nat
  <2>1. Len(sent) \in Nat /\ Len(waiting) \in Nat /\ Len(draining) \in Nat
    BY <1>2, LenProperties
  <2>2. life[slot] \in Nat
    BY <1>2
  <2>. QED BY <2>1, <2>2 DEF Command, Takers
<1>4. sent' \in Seq(Command) /\ Len(sent') = new /\ sent'[new] = command
      /\ \A n \in 1 .. Len(sent) : sent'[n] = sent[n]
  <2>. HIDE DEF command
  <2>. QED BY <1>1, <1>2, <1>3, Appended
<1>5. taken' \in Seq(Takers) /\ Len(taken') = new /\ taken'[new] = {}
      /\ \A n \in 1 .. Len(sent) : taken'[n] = taken[n]
  <2>1. {} \in Takers /\ taken' = Append(taken, {}) /\ Len(taken) + 1 = new
    BY <1>1, <1>2, <1>3
  <2>2. taken' \in Seq(Takers) /\ Len(taken') = Len(taken) + 1 /\ taken'[Len(taken) + 1] = {}
        /\ \A n \in 1 .. Len(taken) : taken'[n] = taken[n]
    <3>1. taken \in Seq(Takers)
      BY <1>2
    <3>. QED BY <2>1, <3>1, Appended
  <2>. HIDE DEF new
  <2>. QED BY <1>2, <2>1, <2>2
<1>6. waiting' \in Seq(Nat) /\ Len(waiting') = Len(waiting) + 1 /\ waiting'[Len(waiting) + 1] = new
      /\ \A i \in 1 .. Len(waiting) : waiting'[i] = waiting[i]
  <2>1. new \in Nat
    BY <1>3
  <2>. HIDE DEF new
  <2>. QED BY <1>1, <1>2, <2>1, Appended
<1>7. Left' = Left + 1 /\ Left \in Nat
  BY <1>1, <1>3, <1>6 DEF Left
<1>8. ASSUME NEW i \in 1 .. Len(draining') PROVE draining'[i] = Len(sent') - Left' + i
  <2>1. draining'[i] = Len(sent) - Left + i
    BY <1>1, <1>2
  <2>. QED BY <1>3, <1>4, <1>7, <2>1
<1>9. ASSUME NEW i \in 1 .. Len(waiting') PROVE waiting'[i] = Len(sent') - Len(waiting') + i
  <2>1. i \in 1 .. Len(waiting) \/ i = Len(waiting) + 1
    BY <1>3, <1>6
  <2>2. CASE i \in 1 .. Len(waiting)
    <3>1. waiting'[i] = waiting[i] /\ waiting[i] = Len(sent) - Len(waiting) + i
      BY <1>2, <1>6, <2>2
    <3>. QED BY <1>3, <1>4, <1>6, <2>2, <3>1
  <2>3. CASE i = Len(waiting) + 1
    <3>1. waiting'[i] = new
      BY <1>6, <2>3
    <3>. QED BY <1>3, <1>4, <1>6, <2>3, <3>1
  <2>. QED BY <2>1, <2>2, <2>3
<1>10. ASSUME NEW n \in 1 .. Len(sent) PROVE Reached(n)' /\ Kept(n)'
  <2>1. Reached(n) /\ Kept(n)
    BY DEF CommandsInv
  <2>2. sent'[n] = sent[n] /\ taken'[n] = taken[n] /\ life' = life /\ board' = board
    BY <1>1, <1>4, <1>5
  <2>3. Len(sent') - Left' = Len(sent) - Left
    BY <1>3, <1>4, <1>7
  <2>4. Reached(n)'
    BY <2>1, <2>2 DEF Reached, Addressed
  <2>5. Kept(n)'
    BY <2>1, <2>2, <2>3 DEF Kept
  <2>. QED BY <2>4, <2>5
<1>11. ASSUME NEW n, n = new PROVE Reached(n)' /\ Kept(n)'
  <2>1. sent'[n] = command /\ taken'[n] = {} /\ life' = life /\ board' = board
    BY <1>1, <1>4, <1>5, <1>11
  <2>2. command.slot = slot /\ command.target = target /\ command.life = life[slot] /\ life[slot] \in Nat
    BY <1>2
  <2>3. ~ (n <= Len(sent') - Left')
    BY <1>3, <1>4, <1>7, <1>11
  <2>. HIDE DEF command, new
  <2>4. sent'[n].slot = slot /\ sent'[n].target = target /\ sent'[n].life = life'[slot]
    BY <2>1, <2>2
  <2>5. \E i \in DOMAIN board'[slot] : Addressed(sent'[n], board'[slot][i])
    BY <2>1, <2>4 DEF Addressed
  <2>6. Reached(n)'
    BY <2>1, <2>2, <2>4, <2>5 DEF Reached
  <2>7. Kept(n)'
    BY <2>1, <2>3 DEF Kept
  <2>. QED BY <2>6, <2>7
<1>12. \A n \in 1 .. Len(sent') : Reached(n)' /\ Kept(n)'
  <2>. SUFFICES ASSUME NEW n \in 1 .. Len(sent') PROVE Reached(n)' /\ Kept(n)'
    OBVIOUS
  <2>1. n \in 1 .. Len(sent) \/ n = new
    BY <1>3, <1>4
  <2>. HIDE DEF new
  <2>. QED BY <1>10, <1>11, <2>1
<1>13. life' \in [0 .. 7 -> Nat] /\ draining' \in Seq(Nat) /\ Len(taken') = Len(sent') /\ Left' <= Len(sent')
  BY <1>1, <1>2, <1>3, <1>4, <1>5, <1>7
<1>. HIDE DEF new, command
<1>. QED BY <1>4, <1>5, <1>6, <1>8, <1>9, <1>12, <1>13 DEF CommandsInv, Command, Takers

LEMMA CommandsTaken ==
  ASSUME CommandsInv, TakeBatch
  PROVE  CommandsInv'
<1>1. draining = <<>> /\ draining' = waiting /\ waiting' = <<>> /\ UNCHANGED <<board, life, sent, taken>>
  BY DEF TakeBatch
<1>2. /\ waiting \in Seq(Nat) /\ Len(waiting) \in Nat /\ Left <= Len(sent) /\ Len(sent) \in Nat
      /\ \A i \in 1 .. Len(waiting) : waiting[i] = Len(sent) - Len(waiting) + i
  BY DEF CommandsInv
<1>3. waiting' \in Seq(Nat) /\ draining' \in Seq(Nat) /\ Len(waiting') = 0
  BY <1>1, <1>2
<1>4. Len(draining') = Len(waiting) /\ Left = Len(waiting) /\ Left' = Len(waiting)
  BY <1>1, <1>2, <1>3 DEF Left
<1>5. \A i \in 1 .. Len(draining') : draining'[i] = Len(sent') - Left' + i
  BY <1>1, <1>2, <1>4
<1>6. \A n : (Reached(n) /\ Kept(n)) => (Reached(n) /\ Kept(n))'
  <2>1. Left' = Left
    BY <1>4
  <2>. QED BY <1>1, <2>1 DEF Reached, Kept, Addressed
<1>. QED BY <1>1, <1>2, <1>3, <1>4, <1>5, <1>6 DEF CommandsInv

LEMMA CommandDelivered ==
  ASSUME BoardInv, CommandsInv, Deliver
  PROVE  CommandsInv'
<1>. DEFINE n == Head(draining)
            s == sent[n].slot
            served == {[card |-> board[s][i], life |-> life[s]] :
                         i \in {j \in DOMAIN board[s] : Addressed(sent[n], board[s][j])}}
<1>1. /\ draining # <<>> /\ draining' = Tail(draining) /\ taken' = [taken EXCEPT ![n] = served]
      /\ UNCHANGED <<board, life, sent, waiting>>
  BY DEF Deliver
<1>2. /\ life \in [0 .. 7 -> Nat] /\ sent \in Seq(Command) /\ taken \in Seq(Takers)
      /\ waiting \in Seq(Nat) /\ draining \in Seq(Nat) /\ Len(taken) = Len(sent) /\ Left <= Len(sent)
      /\ \A i \in 1 .. Len(draining) : draining[i] = Len(sent) - Left + i
      /\ \A i \in 1 .. Len(waiting) : waiting[i] = Len(sent) - Len(waiting) + i
  BY DEF CommandsInv, Command, Takers
<1>3. Len(sent) \in Nat /\ Len(waiting) \in Nat /\ Len(draining) \in Nat /\ Len(draining) >= 1
      /\ Left = Len(draining) + Len(waiting)
  <2>1. Len(sent) \in Nat /\ Len(waiting) \in Nat /\ Len(draining) \in Nat
    BY <1>2
  <2>2. Len(draining) # 0
    BY <1>1, <1>2, EmptySeq
  <2>. QED BY <2>1, <2>2 DEF Left
<1>4. /\ draining' \in Seq(Nat) /\ Len(draining') = Len(draining) - 1
      /\ \A i \in 1 .. Len(draining') : draining'[i] = draining[i + 1]
      /\ n = draining[1]
  BY <1>1, <1>2, HeadTailProperties
<1>5. n = Len(sent) - Left + 1 /\ n \in 1 .. Len(sent) /\ Left' = Left - 1 /\ Left' <= Len(sent')
  <2>1. draining[1] = Len(sent) - Left + 1
    BY <1>2, <1>3
  <2>2. n = Len(sent) - Left + 1
    BY <1>4, <2>1
  <2>3. Left' = Len(draining') + Len(waiting)
    BY <1>1 DEF Left
  <2>4. Len(sent') = Len(sent)
    BY <1>1
  <2>. HIDE DEF n
  <2>5. n \in 1 .. Len(sent)
    <3>1. Left \in 1 .. Len(sent)
      BY <1>2, <1>3
    <3>. QED BY <1>3, <2>2, <3>1
  <2>6. Left' = Left - 1 /\ Left' <= Len(sent')
    BY <1>2, <1>3, <1>4, <2>3, <2>4
  <2>. QED BY <2>2, <2>5, <2>6
<1>6. sent[n] \in Command /\ s \in 0 .. 7
  <2>. HIDE DEF n
  <2>1. sent[n] \in Command
    BY <1>2, <1>5, ElementOfSeq
  <2>. QED BY <2>1 DEF Command
<1>7. served \in Takers
  <2>. SUFFICES ASSUME NEW i \in DOMAIN board[s] PROVE [card |-> board[s][i], life |-> life[s]] \in [card : Cards, life : Nat]
    BY DEF Takers
  <2>1. life[s] \in Nat
    BY <1>2, <1>6
  <2>. HIDE DEF s
  <2>2. board[s][i] \in Cards
    BY <1>6, CardsOnTheBoard
  <2>. QED BY <2>1, <2>2
<1>8. /\ taken' \in Seq(Takers) /\ Len(taken') = Len(taken) /\ taken'[n] = served
      /\ \A m \in 1 .. Len(sent) : m # n => taken'[m] = taken[m]
  <2>. HIDE DEF n, served, s
  <2>1. n \in 1 .. Len(taken) /\ served \in Takers /\ taken \in Seq(Takers)
    BY <1>2, <1>5, <1>7
  <2>2. taken' = [taken EXCEPT ![n] = served]
    BY <1>1
  <2>. QED BY <1>2, <2>1, <2>2, Replaced
<1>9. ASSUME NEW i \in 1 .. Len(draining') PROVE draining'[i] = Len(sent') - Left' + i
  <2>1. draining'[i] = draining[i + 1] /\ i + 1 \in 1 .. Len(draining)
    BY <1>3, <1>4
  <2>2. draining[i + 1] = Len(sent) - Left + (i + 1)
    BY <1>2, <2>1
  <2>. QED BY <1>1, <1>3, <1>5, <2>1, <2>2
<1>10. Reached(n) /\ Kept(n)
  <2>. HIDE DEF n
  <2>. QED BY <1>5 DEF CommandsInv
<1>11. ASSUME NEW m \in 1 .. Len(sent') PROVE Reached(m)' /\ Kept(m)'
  <2>1. Reached(m) /\ Kept(m) /\ m \in 1 .. Len(sent)
    BY <1>1 DEF CommandsInv
  <2>2. Reached(m)'
    BY <1>1, <2>1 DEF Reached, Addressed
  <2>3. CASE m # n
    <3>. HIDE DEF n, served
    <3>1. taken'[m] = taken[m]
      BY <1>8, <2>1, <2>3
    <3>2. m <= Len(sent') - Left' => m <= Len(sent) - Left
      BY <1>1, <1>3, <1>5, <2>1, <2>3
    <3>3. sent' = sent /\ life' = life
      BY <1>1
    <3>4. Kept(m)'
      BY <2>1, <3>1, <3>2, <3>3 DEF Kept
    <3>. QED BY <2>2, <3>4
  <2>4. CASE m = n
    <3>1. ASSUME sent[n].target # None, NEW t \in served PROVE t.card = sent[n].target
      BY <3>1 DEF Addressed
    <3>2. ASSUME sent[n].life = life[s] PROVE served # {}
      <4>1. \E i \in DOMAIN board[s] : Addressed(sent[n], board[s][i])
        BY <1>10, <3>2 DEF Reached
      <4>. QED BY <4>1
    <3>. HIDE DEF n, served
    <3>3. taken'[m] = served /\ sent' = sent /\ life' = life
      BY <1>1, <1>8, <2>4
    <3>4. sent'[m].target # None => \A t \in taken'[m] : t.card = sent'[m].target
      BY <2>4, <3>1, <3>3
    <3>5. sent'[m].life = life'[sent'[m].slot] => taken'[m] # {}
      BY <2>4, <3>2, <3>3 DEF s
    <3>. QED BY <2>2, <3>4, <3>5 DEF Kept
  <2>. QED BY <2>2, <2>3, <2>4
<1>. HIDE DEF n, s, served
<1>. QED BY <1>1, <1>2, <1>4, <1>5, <1>8, <1>9, <1>11 DEF CommandsInv, Command, Takers

\* A load that changes a slot makes its card another instance.
LEMMA CommandsLoaded ==
  ASSUME BoardInv, CommandsInv,
         NEW names \in slotFiles \cup {Earlier, Foreign(board)}, NEW trailer \in BOOLEAN,
         NEW sane \in BOOLEAN, NEW refused, LoadSlots(names, trailer, sane, refused)
  PROVE  CommandsInv'
<1>1. UNCHANGED <<sent, waiting, draining, taken>>
  BY DEF LoadSlots
<1>2. CASE ~ (Admits(names, board) /\ sane)
  <2>1. UNCHANGED <<board, life>>
    BY <1>2 DEF LoadSlots
  <2>. QED BY <1>1, <2>1, CommandsUnchanged
<1>3. CASE Admits(names, board) /\ sane
  <2>1. life' = [s \in 0 .. 7 |-> IF board'[s] = board[s] THEN life[s] ELSE life[s] + 1]
    BY <1>3 DEF LoadSlots
  <2>2. life \in [0 .. 7 -> Nat]
    BY DEF CommandsInv
  <2>3. ASSUME NEW s \in 0 .. 7
        PROVE  /\ life'[s] \in Nat /\ life[s] \in Nat /\ life[s] <= life'[s]
               /\ life'[s] = life[s] => board'[s] = board[s]
    BY <2>1, <2>2
  <2>4. life' \in [0 .. 7 -> Nat]
    BY <2>1, <2>2
  <2>5. Left' = Left
    BY <1>1 DEF Left
  <2>6. ASSUME NEW n \in 1 .. Len(sent) PROVE Reached(n)' /\ Kept(n)'
    <3>1. Reached(n) /\ Kept(n)
      BY DEF CommandsInv
    <3>2. sent \in Seq(Command)
      BY DEF CommandsInv, Command
    <3>3. sent[n] \in Command
      BY <3>2, ElementOfSeq
    <3>4. sent[n].slot \in 0 .. 7 /\ sent[n].life \in Nat
      BY <3>3 DEF Command
    <3>5. PICK s \in 0 .. 7 : s = sent[n].slot
      BY <3>4
    <3>6. PICK was \in Nat : was = sent[n].life
      BY <3>4
    <3>7. sent'[n].slot = s /\ sent'[n].life = was /\ sent' = sent
      BY <1>1, <3>5, <3>6
    <3>8. was <= life[s] /\ (was = life[s] => \E i \in DOMAIN board[s] : Addressed(sent[n], board[s][i]))
      BY <3>1, <3>5, <3>6 DEF Reached
    <3>9. was <= life'[s] /\ (was = life'[s] => was = life[s] /\ board'[s] = board[s])
      <4>1. /\ life'[s] \in Nat /\ life[s] \in Nat /\ life[s] <= life'[s]
            /\ life'[s] = life[s] => board'[s] = board[s]
        BY <2>3, <3>5
      <4>2. was \in Nat /\ was <= life[s]
        BY <3>6, <3>8
      <4>3. was <= life'[s] /\ (was = life'[s] => was = life[s])
        BY <4>1, <4>2
      <4>. QED BY <4>1, <4>3
    <3>10. Reached(n)'
      BY <3>7, <3>8, <3>9 DEF Reached, Addressed
    <3>11. Kept(n)'
      BY <1>1, <2>5, <3>1, <3>5, <3>6, <3>7, <3>9 DEF Kept
    <3>. QED BY <3>10, <3>11
  <2>. QED BY <1>1, <2>4, <2>5, <2>6 DEF CommandsInv
<1>. QED BY <1>2, <1>3

LEMMA CommandsAreKept == BoardInv /\ CommandsInv /\ [SlotsNext]_slotVars => CommandsInv'
<1>. SUFFICES ASSUME BoardInv, CommandsInv, [SlotsNext]_slotVars PROVE CommandsInv'
  OBVIOUS
<1>1. CASE SendKey
  <2>1. 1 \in DOMAIN board[0]
    BY DEF BoardInv, InternalDevices
  <2>2. \E i \in DOMAIN board[0] : None = None \/ board[0][i] = None
    BY <2>1
  <2>3. Send(0, None) /\ 0 \in 0 .. 7 /\ None \in {None, "mouse"}
    BY <1>1 DEF SendKey
  <2>. QED BY <2>2, <2>3, CommandsSent
<1>2. CASE SendMouse
  <2>1. mouseSlot # -1 /\ Send(mouseSlot, "mouse") /\ mouseSlot = SlotOf(board, "mouse")
    BY <1>2 DEF SendMouse, BoardInv
  <2>2. mouseSlot \in 0 .. 7 /\ \E i \in DOMAIN board[mouseSlot] : board[mouseSlot][i] = "mouse"
    BY <2>1, MouseIsFound
  <2>3. \E i \in DOMAIN board[mouseSlot] : "mouse" = None \/ board[mouseSlot][i] = "mouse"
    BY <2>2
  <2>. QED BY <2>1, <2>2, <2>3, CommandsSent
<1>3. CASE TakeBatch
  BY <1>3, CommandsTaken
<1>4. CASE Deliver
  BY <1>4, CommandDelivered
<1>5. CASE SaveState
  BY <1>5, CommandsUnchanged DEF SaveState
<1>6. CASE LoadAny
  BY <1>6, CommandsLoaded DEF LoadAny
<1>7. CASE Run
  BY <1>7, CommandsUnchanged DEF Run
<1>8. CASE UNCHANGED slotVars
  BY <1>8, CommandsUnchanged DEF slotVars
<1>. QED BY <1>1, <1>2, <1>3, <1>4, <1>5, <1>6, <1>7, <1>8 DEF SlotsNext

----------------------------------------------------------------------------
(* What the invariant says of the slots *)

LEMMA SlotsAreTyped ==
  ASSUME SlotsInv
  PROVE  SlotsTypeOK
<1>1. \A s \in 0 .. 7 : \A i \in DOMAIN board[s] : board[s][i] \in Cards
  BY CardsOnTheBoard DEF SlotsInv
<1>2. ASSUME NEW s \in Expansion PROVE Len(board[s]) <= 1
  <2>1. board[s] = Held(FrontCard(board, s))
    BY DEF SlotsInv, BoardInv
  <2>. QED BY <2>1, HeldCards
<1>3. requested \in {-1} \cup Expansion
  <2>1. requested = RequestSlot(setting, SlotsConfigured(setting))
    BY DEF SlotsInv, BoardInv
  <2>. QED BY <2>1, ConfiguredCards, RequestsAreMet
<1>4. mouseSlot \in {-1} \cup Expansion
  <2>1. mouseSlot = SlotOf(board, "mouse") /\ board[0] = <<"speaker", "keyboard", "joystick">>
    BY DEF SlotsInv, BoardInv, InternalDevices
  <2>2. mouseSlot \in {-1} \cup (0 .. 7)
    BY <2>1, MouseIsFound
  <2>3. mouseSlot # 0
    <3>1. \A i \in DOMAIN board[0] : board[0][i] # "mouse"
      BY <2>1
    <3>2. mouseSlot # -1 => \E i \in DOMAIN board[mouseSlot] : board[mouseSlot][i] = "mouse"
      BY <2>1, MouseIsFound
    <3>. QED BY <3>1, <3>2
  <2>. QED BY <2>2, <2>3 DEF Expansion
<1>. QED BY <1>1, <1>2, <1>3, <1>4 DEF SlotsTypeOK

LEMMA RulesAreFollowed ==
  ASSUME SlotsInv
  PROVE  ConfigurationRules
<1>. SUFFICES ASSUME loads = <<>>
              PROVE  ConfigurationRules
  BY DEF ConfigurationRules
<1>. DEFINE c == setting
            at == SlotsConfigured(c)
            r == RequestSlot(c, at)
<1>1. /\ \A s \in Expansion : FrontCard(board, s) = Placed(c)[s]
      /\ requested = r
  BY BoardOfCards DEF SlotsInv, BoardInv
<1>2. at = [s \in Expansion |-> at[s]]
  BY ConfiguredCards
<1>3. /\ r \in {-1} \cup Expansion
      /\ r # -1 => c.request \in Built /\ (at[r] = c.request \/ TakesRequest(c, at, r, Own(c)))
      /\ r = -1 /\ c.request \in Built =>
           \A s \in Expansion : at[s] # c.request /\ (s <= Own(c) => ~ TakesRequest(c, at, s, Own(c)))
  <2>. HIDE DEF at
  <2>. QED BY <1>2, RequestsAreMet DEF r
<1>4. \A s \in Expansion : at[s] # None => FrontCard(board, s) = at[s]
  BY <1>1, PlacedCards
<1>5. ASSUME r # -1
      PROVE  /\ FrontCard(board, r) = c.request
             /\ (r = 3 /\ c.apple2e) => at[3] = c.request
  <2>1. FrontCard(board, r) = c.request
    BY <1>1, <1>3, <1>5, RequestIsPlaced
  <2>2. ASSUME r = 3, c.apple2e, at[3] # c.request PROVE FALSE
    <3>1. c.request \in Built /\ TakesRequest(c, at, 3, Own(c))
      BY <1>3, <1>5, <2>2
    <3>2. DefaultSlot(c.request) \in {-1, 1, 2, 4, 6, 7}
      BY <3>1, DefaultSlots
    <3>3. Own(c) # 3
      BY <3>2 DEF Own
    <3>. QED BY <2>2, <3>1, <3>3 DEF TakesRequest
  <2>. QED BY <2>1, <2>2
<1>6. ASSUME c.request \in Built, \A s \in Expansion : FrontCard(board, s) # c.request,
             NEW s \in Expansion, FrontCard(board, s) = None
      PROVE  (s = 3 /\ c.apple2e) \/ s > DefaultSlot(c.request)
  <2>1. r = -1
    BY <1>3, <1>5, <1>6
  <2>2. at[s] = None
    BY <1>1, <1>6, <2>1, RequestIsRefused
  <2>3. DefaultSlot(c.request) \in {-1, 1, 2, 4, 6, 7}
    BY <1>6, DefaultSlots
  <2>4. CASE s <= Own(c)
    <3>1. ~ TakesRequest(c, at, s, Own(c))
      BY <1>3, <1>6, <2>1, <2>4
    <3>2. s = 3 /\ c.apple2e
      BY <2>2, <3>1 DEF TakesRequest
    <3>. QED BY <3>2
  <2>5. CASE ~ (s <= Own(c))
    <3>1. s > DefaultSlot(c.request)
      BY <2>3, <2>5 DEF Own, Expansion
    <3>. QED BY <3>1
  <2>. QED BY <2>4, <2>5
<1>. QED BY <1>1, <1>4, <1>5, <1>6 DEF ConfigurationRules

LEMMA CommandsArrive ==
  ASSUME SlotsInv
  PROVE  CommandsFindTheirCard
<1>1. /\ Len(sent) \in Nat /\ Len(waiting) \in Nat /\ Len(draining) \in Nat
      /\ DOMAIN sent = 1 .. Len(sent) /\ DOMAIN waiting = 1 .. Len(waiting)
      /\ DOMAIN draining = 1 .. Len(draining)
      /\ Left = Len(draining) + Len(waiting) /\ Left <= Len(sent)
      /\ waiting \in Seq(Nat) /\ draining \in Seq(Nat)
  <2>1. sent \in Seq(Command) /\ waiting \in Seq(Nat) /\ draining \in Seq(Nat) /\ Left <= Len(sent)
    BY DEF SlotsInv, CommandsInv, Command
  <2>. QED BY <2>1, LenProperties DEF Left
<1>2. /\ \A i \in 1 .. Len(draining) : draining[i] = Len(sent) - Left + i
      /\ \A i \in 1 .. Len(waiting) : waiting[i] = Len(sent) - Len(waiting) + i
      /\ \A n \in 1 .. Len(sent) : Kept(n)
  BY DEF SlotsInv, CommandsInv
<1>3. ASSUME NEW n \in DOMAIN sent, sent[n].target # None
      PROVE  \A t \in taken[n] : t.card = sent[n].target
  BY <1>1, <1>2, <1>3 DEF Kept
<1>4. ASSUME NEW n \in DOMAIN sent
      PROVE  \/ \E i \in DOMAIN waiting : waiting[i] = n
             \/ \E i \in DOMAIN draining : draining[i] = n
             \/ life[sent[n].slot] = sent[n].life => taken[n] # {}
  <2>0. n \in 1 .. Len(sent)
    BY <1>1
  <2>1. CASE n <= Len(sent) - Left
    <3>1. Kept(n)
      BY <1>2, <2>0
    <3>. QED BY <2>1, <3>1 DEF Kept
  <2>2. CASE n > Len(sent) - Len(waiting)
    <3>. DEFINE i == n - Len(sent) + Len(waiting)
    <3>1. i \in 1 .. Len(waiting) /\ n = Len(sent) - Len(waiting) + i
      BY <1>1, <2>0, <2>2
    <3>. HIDE DEF i
    <3>2. waiting[i] = n
      BY <1>2, <3>1
    <3>. QED BY <1>1, <3>1, <3>2
  <2>3. CASE n > Len(sent) - Left /\ n <= Len(sent) - Len(waiting)
    <3>. DEFINE i == n - Len(sent) + Left
    <3>1. i \in 1 .. Len(draining) /\ n = Len(sent) - Left + i
      BY <1>1, <2>0, <2>3
    <3>. HIDE DEF i
    <3>2. draining[i] = n
      BY <1>2, <3>1
    <3>. QED BY <1>1, <3>1, <3>2
  <2>. QED BY <1>1, <2>0, <2>1, <2>2, <2>3
<1>5. LET left == draining \o waiting
      IN \A i \in DOMAIN left : left[i] = Len(sent) - Len(left) + i
  <2>. DEFINE left == draining \o waiting
  <2>1. /\ left \in Seq(Nat) /\ Len(left) = Left
        /\ \A i \in 1 .. Len(left) : left[i] = IF i <= Len(draining) THEN draining[i]
                                               ELSE waiting[i - Len(draining)]
    BY <1>1, ConcatProperties
  <2>. SUFFICES ASSUME NEW i \in 1 .. Len(left) PROVE left[i] = Len(sent) - Len(left) + i
    BY <2>1
  <2>. HIDE DEF left
  <2>2. i \in 1 .. Left
    BY <2>1
  <2>3. CASE i <= Len(draining)
    <3>1. left[i] = draining[i] /\ i \in 1 .. Len(draining)
      BY <1>1, <2>1, <2>2, <2>3
    <3>. QED BY <1>2, <2>1, <3>1
  <2>4. CASE ~ (i <= Len(draining))
    <3>. DEFINE k == i - Len(draining)
    <3>1. k \in 1 .. Len(waiting) /\ i = Len(draining) + k
      BY <1>1, <2>2, <2>4
    <3>2. left[i] = waiting[k]
      BY <2>1, <2>4
    <3>. HIDE DEF k
    <3>3. waiting[k] = Len(sent) - Len(waiting) + k
      BY <1>2, <3>1
    <3>. QED BY <1>1, <2>1, <3>1, <3>2, <3>3
  <2>. QED BY <2>3, <2>4
<1>6. mouseSlot = SlotOf(board, "mouse")
  BY DEF SlotsInv, BoardInv
<1>. QED BY <1>3, <1>4, <1>5, <1>6 DEF CommandsFindTheirCard

LEMMA SlotsInvSuffices == SlotsInv => SlotsAreKept
<1>. SUFFICES ASSUME SlotsInv PROVE SlotsAreKept
  OBVIOUS
<1>1. OwnFilesStayLoadable
  BY NamedIsAdmitted DEF OwnFilesStayLoadable, SlotsInv, BoardInv
<1>. QED BY <1>1, SlotsAreTyped, RulesAreFollowed, CommandsArrive DEF SlotsAreKept

\* The inductive invariant: slots 1-7 hold one card or none, the one of the configuration
\* except in the slot of the legacy key; a command is delivered in the order of the
\* sending, to the instance it was sent to or to a later one, and to nobody it does not name.
THEOREM SlotsAreInductive == SlotsSpec => []SlotsInv
<1>1. SlotsInit => SlotsInv
  BY BoardInvInitially, CommandsInitially DEF SlotsInv
<1>2. SlotsInv /\ [SlotsNext]_slotVars => SlotsInv'
  BY BoardIsKept, CommandsAreKept DEF SlotsInv
<1>. QED BY <1>1, <1>2, PTL DEF SlotsSpec

\* The slots over a session: the cards are where the configuration put them, every
\* command reaches the card it names, in order, and every file the session saved loads.
THEOREM CardsStayKept == SlotsSpec => []SlotsAreKept
BY SlotsAreInductive, SlotsInvSuffices, PTL

\* A load happens wholly or not at all (snapshot_deserialize).
THEOREM LoadsAreWhole == SlotsSpec => LoadIsWhole
<1>. DEFINE Whole == loads' # loads =>
                       IF loads'[Len(loads')] = "refused" THEN UNCHANGED <<board, life, parts, mouseSlot>>
                       ELSE /\ \E names \in slotFiles \cup {Earlier} : Names(board') = names
                            /\ \A s \in 0 .. 7 : parts'.slot[s] # "live"
                            /\ {parts'.memory, parts'.cpu, parts'.video, parts'.keyboard} = {"file"}
<1>1. BoardInv /\ [SlotsNext]_slotVars => Whole
  <2>. SUFFICES ASSUME BoardInv, [SlotsNext]_slotVars, loads' # loads PROVE Whole
    OBVIOUS
  <2>1. LoadAny
    BY DEF SlotsNext, SendKey, SendMouse, Send, TakeBatch, Deliver, SaveState, Run, slotVars
  <2>2. PICK names \in slotFiles \cup {Earlier, Foreign(board)}, trailer \in BOOLEAN,
             sane \in BOOLEAN, refused \in {{}, {4}} :
          LoadSlots(names, trailer, sane, refused)
    BY <2>1 DEF LoadAny
  <2>3. loads \in Seq({"loaded", "refused"})
    BY DEF BoardInv
  <2>4. CASE ~ (Admits(names, board) /\ sane)
    <3>1. UNCHANGED <<board, life, parts, mouseSlot>> /\ loads' = Append(loads, "refused")
      BY <2>2, <2>4 DEF LoadSlots
    <3>2. loads'[Len(loads')] = "refused"
      BY <2>3, <3>1, AppendProperties
    <3>. QED BY <3>1, <3>2
  <2>5. CASE Admits(names, board) /\ sane
    <3>1. board' = CardsSwapped(names, board) /\ parts' = SlotsLoaded(trailer, refused, board')
          /\ loads' = Append(loads, "loaded")
      BY <2>2, <2>5 DEF LoadSlots
    <3>2. loads'[Len(loads')] # "refused"
      <4>1. loads'[Len(loads')] = "loaded"
        BY <2>3, <3>1, AppendProperties
      <4>. QED BY <4>1
    <3>3. names \in slotFiles \cup {Earlier}
      BY <2>2, <2>5, ForeignIsRefused DEF BoardInv
    <3>4. Names(board') = names
      BY <2>2, <3>1, FilesNameTheSlots, SwappedCards
    <3>5. \A s \in 0 .. 7 : parts'.slot[s] # "live"
      BY <3>1 DEF SlotsLoaded, SlotAfterLoad, AllParts
    <3>6. {parts'.memory, parts'.cpu, parts'.video, parts'.keyboard} = {"file"}
      BY <3>1 DEF SlotsLoaded, AllParts
    <3>. QED BY <3>2, <3>3, <3>4, <3>5, <3>6
  <2>. QED BY <2>4, <2>5
<1>2. SlotsInv => BoardInv
  BY DEF SlotsInv
<1>. QED BY <1>1, <1>2, SlotsAreInductive, PTL DEF SlotsSpec, LoadIsWhole

----------------------------------------------------------------------------
(* Bytes in line.  A path is a chain of places, each with a sequence of    *)
(* numbers; that all of them rise says that each place's do and that each  *)
(* place's lie below the next one's.                                       *)

Rising(s) == s \in Seq(Nat) /\ \A i, j \in 1 .. Len(s) : i < j => s[i] < s[j]

Below(A, B) == \A x \in A, y \in B : x < y

LEMMA JoinedContent ==
  ASSUME NEW a \in Seq(Nat), NEW b \in Seq(Nat)
  PROVE  a \o b \in Seq(Nat) /\ Content(a \o b) = Content(a) \cup Content(b)
<1>. DEFINE c == a \o b
<1>1. /\ c \in Seq(Nat) /\ Len(a) \in Nat /\ Len(b) \in Nat /\ Len(c) = Len(a) + Len(b)
      /\ \A i \in 1 .. Len(a) + Len(b) : c[i] = IF i <= Len(a) THEN a[i] ELSE b[i - Len(a)]
  BY ConcatProperties, LenProperties
<1>. HIDE DEF c
<1>2. ASSUME NEW i \in 1 .. Len(c) PROVE c[i] \in Content(a) \cup Content(b)
  <2>1. CASE i <= Len(a)
    BY <1>1, <2>1 DEF Content
  <2>2. CASE i > Len(a)
    <3>1. i - Len(a) \in 1 .. Len(b) /\ c[i] = b[i - Len(a)]
      BY <1>1, <2>2
    <3>. QED BY <3>1 DEF Content
  <2>. QED BY <1>1, <2>1, <2>2
<1>3. ASSUME NEW i \in 1 .. Len(a) PROVE a[i] \in Content(c)
  <2>1. i \in 1 .. Len(c) /\ c[i] = a[i]
    BY <1>1
  <2>. QED BY <2>1 DEF Content
<1>4. ASSUME NEW i \in 1 .. Len(b) PROVE b[i] \in Content(c)
  <2>1. i + Len(a) \in 1 .. Len(a) + Len(b) /\ ~ (i + Len(a) <= Len(a)) /\ (i + Len(a)) - Len(a) = i
    BY <1>1
  <2>2. i + Len(a) \in 1 .. Len(c) /\ c[i + Len(a)] = b[i]
    BY <1>1, <2>1
  <2>. QED BY <2>2 DEF Content
<1>5. Content(c) = Content(a) \cup Content(b)
  BY <1>2, <1>3, <1>4 DEF Content
<1>. QED BY <1>1, <1>5 DEF c

LEMMA JoinedRises ==
  ASSUME NEW a \in Seq(Nat), NEW b \in Seq(Nat)
  PROVE  Rising(a \o b) <=> Rising(a) /\ Rising(b) /\ Below(Content(a), Content(b))
<1>. DEFINE c == a \o b
<1>1. /\ c \in Seq(Nat) /\ Len(a) \in Nat /\ Len(b) \in Nat /\ Len(c) = Len(a) + Len(b)
      /\ \A i \in 1 .. Len(a) + Len(b) : c[i] = IF i <= Len(a) THEN a[i] ELSE b[i - Len(a)]
  BY ConcatProperties, LenProperties
<1>. HIDE DEF c
<1>2. \A i \in 1 .. Len(a) : i \in 1 .. Len(c) /\ c[i] = a[i]
  BY <1>1
<1>3. ASSUME NEW i \in 1 .. Len(b) PROVE i + Len(a) \in 1 .. Len(c) /\ c[i + Len(a)] = b[i]
  <2>1. i + Len(a) \in 1 .. Len(a) + Len(b) /\ ~ (i + Len(a) <= Len(a)) /\ (i + Len(a)) - Len(a) = i
    BY <1>1
  <2>. QED BY <1>1, <2>1
<1>4. ASSUME Rising(c) PROVE Rising(a) /\ Rising(b) /\ Below(Content(a), Content(b))
  <2>1. Rising(a)
    BY <1>1, <1>2, <1>4 DEF Rising
  <2>2. ASSUME NEW i \in 1 .. Len(b), NEW j \in 1 .. Len(b), i < j PROVE b[i] < b[j]
    <3>1. i + Len(a) < j + Len(a)
      BY <1>1, <2>2
    <3>. QED BY <1>3, <1>4, <3>1 DEF Rising
  <2>3. ASSUME NEW i \in 1 .. Len(a), NEW j \in 1 .. Len(b) PROVE a[i] < b[j]
    <3>1. i < j + Len(a)
      BY <1>1
    <3>. QED BY <1>2, <1>3, <1>4, <3>1 DEF Rising
  <2>. QED BY <2>1, <2>2, <2>3 DEF Rising, Below, Content
<1>5. ASSUME Rising(a), Rising(b), Below(Content(a), Content(b)) PROVE Rising(c)
  <2>. SUFFICES ASSUME NEW i \in 1 .. Len(c), NEW j \in 1 .. Len(c), i < j PROVE c[i] < c[j]
    BY <1>1 DEF Rising
  <2>1. CASE j <= Len(a)
    <3>1. i \in 1 .. Len(a) /\ j \in 1 .. Len(a) /\ c[i] = a[i] /\ c[j] = a[j]
      BY <1>1, <2>1
    <3>. QED BY <1>5, <3>1 DEF Rising
  <2>2. CASE i <= Len(a) /\ j > Len(a)
    <3>1. i \in 1 .. Len(a) /\ c[i] = a[i] /\ j - Len(a) \in 1 .. Len(b) /\ c[j] = b[j - Len(a)]
      BY <1>1, <2>2
    <3>2. a[i] \in Content(a) /\ b[j - Len(a)] \in Content(b)
      BY <3>1 DEF Content
    <3>. QED BY <1>5, <3>1, <3>2 DEF Below
  <2>3. CASE i > Len(a)
    <3>1. /\ i - Len(a) \in 1 .. Len(b) /\ c[i] = b[i - Len(a)]
          /\ j - Len(a) \in 1 .. Len(b) /\ c[j] = b[j - Len(a)] /\ i - Len(a) < j - Len(a)
      BY <1>1, <2>3
    <3>. QED BY <1>5, <3>1 DEF Rising
  <2>. QED BY <1>1, <2>1, <2>2, <2>3
<1>. QED BY <1>4, <1>5 DEF c

LEMMA NothingRises == <<>> \in Seq(Nat) /\ Content(<<>>) = {} /\ Rising(<<>>)
BY DEF Content, Rising

LEMMA OneRises ==
  ASSUME NEW x \in Nat
  PROVE  <<x>> \in Seq(Nat) /\ Content(<<x>>) = {x} /\ Rising(<<x>>)
<1>1. <<x>> \in Seq(Nat) /\ Len(<<x>>) = 1 /\ <<x>>[1] = x
  OBVIOUS
<1>2. \A i \in 1 .. 1 : i = 1
  OBVIOUS
<1>3. Content(<<x>>) = {x}
  BY <1>1, <1>2 DEF Content
<1>4. \A i, j \in 1 .. 1 : ~ (i < j)
  OBVIOUS
<1>. QED BY <1>1, <1>3, <1>4 DEF Rising

LEMMA AppendJoins ==
  ASSUME NEW s \in Seq(Nat), NEW x \in Nat
  PROVE  Append(s, x) \in Seq(Nat) /\ Append(s, x) = s \o <<x>>
<1>1. /\ Append(s, x) \in Seq(Nat) /\ Len(s) \in Nat /\ Len(Append(s, x)) = Len(s) + 1
      /\ \A i \in 1 .. Len(s) : Append(s, x)[i] = s[i]
      /\ Append(s, x)[Len(s) + 1] = x
  BY AppendProperties, LenProperties
<1>2. <<x>> \in Seq(Nat) /\ Len(<<x>>) = 1 /\ <<x>>[1] = x
  OBVIOUS
<1>3. /\ s \o <<x>> \in Seq(Nat) /\ Len(s \o <<x>>) = Len(s) + 1
      /\ \A i \in 1 .. Len(s) + 1 : (s \o <<x>>)[i] = IF i <= Len(s) THEN s[i] ELSE <<x>>[i - Len(s)]
  BY <1>2, ConcatProperties
<1>4. ASSUME NEW i \in 1 .. Len(s) + 1 PROVE Append(s, x)[i] = (s \o <<x>>)[i]
  <2>1. CASE i <= Len(s)
    BY <1>1, <1>3, <2>1
  <2>2. CASE i = Len(s) + 1
    <3>1. i - Len(s) = 1 /\ ~ (i <= Len(s))
      BY <1>1, <2>2
    <3>. QED BY <1>1, <1>2, <1>3, <2>2, <3>1
  <2>. QED BY <1>1, <2>1, <2>2
<1>. QED BY <1>1, <1>3, <1>4, SeqEqual

LEMMA CutJoins ==
  ASSUME NEW s \in Seq(Nat), NEW n \in 0 .. Len(s)
  PROVE  /\ SubSeq(s, 1, n) \in Seq(Nat) /\ SubSeq(s, n + 1, Len(s)) \in Seq(Nat)
         /\ SubSeq(s, 1, n) \o SubSeq(s, n + 1, Len(s)) = s
<1>1. Len(s) \in Nat /\ \A i \in 1 .. Len(s) : s[i] \in Nat
  BY LenProperties, ElementOfSeq
<1>2. SubSeq(s, 1, n) \in Seq(Nat) /\ SubSeq(s, n + 1, Len(s)) \in Seq(Nat)
  BY <1>1, SubSeqProperties
<1>3. 1 \in 1 .. Len(s) + 1 /\ n \in 1 - 1 .. Len(s) /\ Len(s) \in n .. Len(s)
  BY <1>1
<1>4. SubSeq(s, 1, n) \o SubSeq(s, n + 1, Len(s)) = SubSeq(s, 1, Len(s))
  BY <1>3, ConcatAdjacentSubSeq
<1>. QED BY <1>2, <1>4, SubSeqFull

LEMMA TailJoins ==
  ASSUME NEW s \in Seq(Nat), s # <<>>
  PROVE  Head(s) \in Nat /\ Tail(s) \in Seq(Nat) /\ s = <<Head(s)>> \o Tail(s)
<1>1. /\ Head(s) \in Nat /\ Tail(s) \in Seq(Nat) /\ Len(s) \in Nat \ {0} /\ Len(Tail(s)) = Len(s) - 1
      /\ \A i \in 1 .. Len(Tail(s)) : Tail(s)[i] = s[i + 1]
      /\ Head(s) = s[1]
  BY HeadTailProperties, EmptySeq
<1>. DEFINE h == <<Head(s)>>
<1>2. h \in Seq(Nat) /\ Len(h) = 1 /\ h[1] = s[1]
  BY <1>1
<1>. HIDE DEF h
<1>. DEFINE t == Tail(s)
            c == h \o t
<1>3. /\ c \in Seq(Nat) /\ Len(c) = Len(h) + Len(t)
      /\ \A i \in 1 .. Len(h) + Len(t) : c[i] = IF i <= Len(h) THEN h[i] ELSE t[i - Len(h)]
  BY <1>1, <1>2, ConcatProperties
<1>. HIDE DEF t, c
<1>4. Len(t) = Len(s) - 1 /\ Len(c) = Len(s) /\ Len(h) + Len(t) = Len(s)
  BY <1>1, <1>2, <1>3 DEF t
<1>5. ASSUME NEW i \in 1 .. Len(s) PROVE s[i] = c[i]
  <2>1. CASE i = 1
    BY <1>2, <1>3, <1>4, <2>1
  <2>2. CASE i > 1
    <3>1. i - 1 \in 1 .. Len(t) /\ ~ (i <= Len(h)) /\ (i - 1) + 1 = i
      BY <1>1, <1>2, <1>4, <2>2
    <3>2. t[i - 1] = s[i]
      BY <1>1, <3>1 DEF t
    <3>3. c[i] = t[i - 1]
      BY <1>2, <1>3, <1>4, <3>1
    <3>. QED BY <3>2, <3>3
  <2>. QED BY <2>1, <2>2
<1>6. s = c
  BY <1>3, <1>4, <1>5, SeqEqual
<1>. QED BY <1>1, <1>6 DEF h, t, c

\* What rises ascends.
LEMMA RisingAscends ==
  ASSUME NEW s, Rising(s)
  PROVE  Ascending(s)
<1>1. s \in Seq(Nat) /\ Len(s) \in Nat
  BY LenProperties DEF Rising
<1>2. ASSUME NEW i \in 1 .. Len(s) - 1 PROVE s[i] < s[i + 1]
  <2>1. i \in 1 .. Len(s) /\ i + 1 \in 1 .. Len(s) /\ i < i + 1
    BY <1>1
  <2>. QED BY <2>1 DEF Rising
<1>. QED BY <1>2 DEF Ascending

----------------------------------------------------------------------------
(* The printer *)

LEMMA BytesAreTheContent == \A s : BytesOf(s) = Content(s)
BY DEF BytesOf, Content

SinkOf(f, i, r, t, b) == [file |-> f, inUse |-> i, ready |-> r, truncated |-> t, buffer |-> b]
StateOf(s, f, l, o, n) == [sink |-> s, file |-> f, lost |-> l, off |-> o, fell |-> n]

LEMMA SinkFields ==
  ASSUME NEW f, NEW i, NEW r, NEW t, NEW b, NEW x
  PROVE  LET s == SinkOf(f, i, r, t, b)
         IN  /\ s.file = f /\ s.inUse = i /\ s.ready = r /\ s.truncated = t /\ s.buffer = b
             /\ [s EXCEPT !.file = x] = SinkOf(x, i, r, t, b)
             /\ [s EXCEPT !.inUse = x] = SinkOf(f, x, r, t, b)
             /\ [s EXCEPT !.ready = x] = SinkOf(f, i, x, t, b)
             /\ [s EXCEPT !.truncated = x] = SinkOf(f, i, r, x, b)
             /\ [s EXCEPT !.buffer = x] = SinkOf(f, i, r, t, x)
BY DEF SinkOf

LEMMA StateFields ==
  ASSUME NEW s, NEW f, NEW l, NEW o, NEW n, NEW x
  PROVE  LET c == StateOf(s, f, l, o, n)
         IN  /\ c.sink = s /\ c.file = f /\ c.lost = l /\ c.off = o /\ c.fell = n
             /\ [c EXCEPT !.sink = x] = StateOf(x, f, l, o, n)
             /\ [c EXCEPT !.file = x] = StateOf(s, x, l, o, n)
             /\ [c EXCEPT !.lost = x] = StateOf(s, f, x, o, n)
             /\ [c EXCEPT !.off = x] = StateOf(s, f, l, x, n)
             /\ [c EXCEPT !.fell = x] = StateOf(s, f, l, o, x)
BY DEF StateOf

\* A sink and its file after n bytes: what is in them rises, and what is not in them
\* is accounted for.
Accounted(file, buffer, gone, n) ==
  /\ n \in Nat
  /\ file \in Seq(Nat) /\ buffer \in Seq(Nat)
  /\ Rising(file) /\ Rising(buffer) /\ Below(Content(file), Content(buffer))
  /\ Content(file) \cup Content(buffer) \subseteq 1 .. n
  /\ 1 .. n \subseteq gone \cup Content(file) \cup Content(buffer)

Whole(s, n) ==
  /\ s = StateOf(s.sink, s.file, s.lost, s.off, s.fell)
  /\ s.sink = SinkOf(s.sink.file, s.sink.inUse, s.sink.ready, s.sink.truncated, s.sink.buffer)
  /\ Accounted(s.file, s.sink.buffer, s.lost \cup s.off, n)
  /\ IsFiniteSet(s.off) /\ s.fell \in Nat

PrinterInv ==
  /\ printer = [latch |-> printer.latch, waiting |-> printer.waiting] /\ printer.waiting \in BOOLEAN
  /\ disk = [content |-> disk.content, fault |-> disk.fault]
  /\ sinkOpened \in BOOLEAN
  /\ Whole(State, printed)
  /\ ~ sinkOpened => slotSink.buffer = <<>>
  /\ sinkOpened => slotSink.inUse
  /\ Cardinality(dropped) <= falls
  /\ sinkOpened /\ ~ slotSink.ready /\ ~ printer.waiting => Cardinality(dropped) < falls

LEMMA WholeFromParts ==
  ASSUME NEW f, NEW i, NEW r, NEW t, NEW b, NEW file, NEW l, NEW o, NEW k \in Nat, NEW n,
         Accounted(file, b, l \cup o, n), IsFiniteSet(o)
  PROVE  Whole(StateOf(SinkOf(f, i, r, t, b), file, l, o, k), n)
<1>. DEFINE s == StateOf(SinkOf(f, i, r, t, b), file, l, o, k)
<1>1. s.sink = SinkOf(f, i, r, t, b) /\ s.file = file /\ s.lost = l /\ s.off = o /\ s.fell = k
  BY StateFields
<1>2. s.sink.file = f /\ s.sink.inUse = i /\ s.sink.ready = r /\ s.sink.truncated = t /\ s.sink.buffer = b
  BY <1>1, SinkFields
<1>3. s = StateOf(s.sink, s.file, s.lost, s.off, s.fell)
  BY <1>1
<1>. HIDE DEF s
<1>4. s.sink = SinkOf(s.sink.file, s.sink.inUse, s.sink.ready, s.sink.truncated, s.sink.buffer)
  BY <1>1, <1>2
<1>5. Whole(s, n)
  BY <1>1, <1>2, <1>3, <1>4 DEF Whole
<1>. QED BY <1>5 DEF s

LEMMA OpenFileIsWhole ==
  ASSUME NEW s, NEW n, Whole(s, n)
  PROVE  LET o == OpenFile(s)
         IN  /\ Whole(o, n) /\ o.off = s.off /\ o.fell = s.fell
             /\ o.sink.inUse = s.sink.inUse /\ o.sink.ready = s.sink.ready
             /\ o.sink.buffer = s.sink.buffer
<1>0. PICK yes, no : yes = TRUE /\ no = FALSE
  OBVIOUS
<1>. DEFINE k == s.sink
            truncate == ~ append /\ ~ k.truncated
            file == IF truncate THEN <<>> ELSE s.file
            lost == IF truncate THEN s.lost \cup BytesOf(s.file) ELSE s.lost
            sink == SinkOf(yes, k.inUse, k.ready, yes, k.buffer)
            o == StateOf(sink, file, lost, s.off, s.fell)
<1>1. /\ s = StateOf(k, s.file, s.lost, s.off, s.fell)
      /\ k = SinkOf(k.file, k.inUse, k.ready, k.truncated, k.buffer)
      /\ Accounted(s.file, k.buffer, s.lost \cup s.off, n) /\ IsFiniteSet(s.off) /\ s.fell \in Nat
  BY DEF Whole
<1>2. OpenFile(s) = [s EXCEPT !.sink = [k EXCEPT !.file = yes, !.truncated = yes],
                              !.file = file, !.lost = lost]
  BY <1>0 DEF OpenFile
<1>. HIDE DEF k, file, lost, sink, truncate, o
<1>3. [k EXCEPT !.file = yes, !.truncated = yes] = sink
  <2>1. [k EXCEPT !.file = yes] = SinkOf(yes, k.inUse, k.ready, k.truncated, k.buffer)
    BY <1>1, SinkFields
  <2>2. [SinkOf(yes, k.inUse, k.ready, k.truncated, k.buffer) EXCEPT !.truncated = yes] = sink
    BY SinkFields DEF sink
  <2>. QED BY <2>1, <2>2
<1>4. OpenFile(s) = o
  <2>1. [s EXCEPT !.sink = sink] = StateOf(sink, s.file, s.lost, s.off, s.fell)
    BY <1>1, StateFields
  <2>2. [StateOf(sink, s.file, s.lost, s.off, s.fell) EXCEPT !.file = file]
          = StateOf(sink, file, s.lost, s.off, s.fell)
    BY StateFields
  <2>3. [StateOf(sink, file, s.lost, s.off, s.fell) EXCEPT !.lost = lost] = o
    BY StateFields DEF o
  <2>. QED BY <1>2, <1>3, <2>1, <2>2, <2>3
<1>5. /\ file \in Seq(Nat) /\ Rising(file) /\ Content(file) \subseteq Content(s.file)
      /\ Content(s.file) \subseteq lost \cup Content(file) /\ s.lost \subseteq lost
  BY <1>1, NothingRises, BytesAreTheContent DEF file, lost, Accounted
<1>6. Accounted(file, k.buffer, lost \cup s.off, n)
  BY <1>1, <1>5 DEF Accounted, Below
<1>7. Whole(o, n)
  BY <1>1, <1>6, WholeFromParts DEF o, sink
<1>8. o.sink = sink /\ o.off = s.off /\ o.fell = s.fell
  BY StateFields DEF o
<1>9. sink.inUse = k.inUse /\ sink.ready = k.ready /\ sink.buffer = k.buffer
  BY SinkFields DEF sink
<1>. QED BY <1>4, <1>7, <1>8, <1>9 DEF k

LEMMA FallOverIsWhole ==
  ASSUME NEW s, NEW n, Whole(s, n)
  PROVE  LET o == FallOver(s, {n + 1})
         IN  /\ Whole(o, n + 1) /\ o.off = s.off /\ o.fell = s.fell + 1
             /\ o.sink.inUse = s.sink.inUse /\ ~ o.sink.ready /\ o.sink.buffer = <<>>
<1>0. PICK yes, no : yes = TRUE /\ no = FALSE
  OBVIOUS
<1>. DEFINE k == s.sink
            lost == s.lost \cup BytesOf(k.buffer) \cup {n + 1}
            sink == SinkOf(no, k.inUse, no, k.truncated, <<>>)
            o == StateOf(sink, s.file, lost, s.off, s.fell + 1)
<1>1. /\ s = StateOf(k, s.file, s.lost, s.off, s.fell)
      /\ k = SinkOf(k.file, k.inUse, k.ready, k.truncated, k.buffer)
      /\ Accounted(s.file, k.buffer, s.lost \cup s.off, n) /\ IsFiniteSet(s.off) /\ s.fell \in Nat
  BY DEF Whole
<1>2. FallOver(s, {n + 1}) = [s EXCEPT !.sink = [k EXCEPT !.file = no, !.ready = no, !.buffer = <<>>],
                                       !.lost = lost, !.fell = s.fell + 1]
  BY <1>0 DEF FallOver
<1>. HIDE DEF k, lost, sink, o
<1>3. [k EXCEPT !.file = no, !.ready = no, !.buffer = <<>>] = sink
  <2>1. [k EXCEPT !.file = no] = SinkOf(no, k.inUse, k.ready, k.truncated, k.buffer)
    BY <1>1, SinkFields
  <2>2. [SinkOf(no, k.inUse, k.ready, k.truncated, k.buffer) EXCEPT !.ready = no]
          = SinkOf(no, k.inUse, no, k.truncated, k.buffer)
    BY SinkFields
  <2>3. [SinkOf(no, k.inUse, no, k.truncated, k.buffer) EXCEPT !.buffer = <<>>] = sink
    BY SinkFields DEF sink
  <2>. QED BY <2>1, <2>2, <2>3
<1>4. FallOver(s, {n + 1}) = o
  <2>1. [s EXCEPT !.sink = sink] = StateOf(sink, s.file, s.lost, s.off, s.fell)
    BY <1>1, StateFields
  <2>2. [StateOf(sink, s.file, s.lost, s.off, s.fell) EXCEPT !.lost = lost]
          = StateOf(sink, s.file, lost, s.off, s.fell)
    BY StateFields
  <2>3. [StateOf(sink, s.file, lost, s.off, s.fell) EXCEPT !.fell = s.fell + 1] = o
    BY StateFields DEF o
  <2>. QED BY <1>2, <1>3, <2>1, <2>2, <2>3
<1>5. /\ <<>> \in Seq(Nat) /\ Rising(<<>>) /\ Content(<<>>) = {}
      /\ Content(k.buffer) \subseteq lost /\ n + 1 \in lost /\ s.lost \subseteq lost
  BY NothingRises, BytesAreTheContent DEF lost
<1>6. n + 1 \in Nat /\ 1 .. n + 1 = 1 .. n \cup {n + 1}
  BY <1>1 DEF Accounted
<1>7. Accounted(s.file, <<>>, lost \cup s.off, n + 1)
  BY <1>1, <1>5, <1>6 DEF Accounted, Below
<1>8. s.fell + 1 \in Nat
  BY <1>1
<1>9. Whole(o, n + 1)
  BY <1>1, <1>7, <1>8, WholeFromParts DEF o, sink
<1>10. o.sink = sink /\ o.off = s.off /\ o.fell = s.fell + 1
  BY StateFields DEF o
<1>11. sink.inUse = k.inUse /\ sink.ready = no /\ sink.buffer = <<>>
  BY SinkFields DEF sink
<1>. QED BY <1>0, <1>4, <1>9, <1>10, <1>11 DEF k

\* A sink attached at its slot's first use starts with nothing buffered.
LEMMA AttachedIsWhole ==
  ASSUME NEW s, NEW n, Whole(s, n), ~ sinkOpened => s.sink.buffer = <<>>,
         sinkOpened => s.sink.inUse
  PROVE  LET o == AttachedSink(s)
         IN  /\ Whole(o, n) /\ o.off = s.off /\ o.fell = s.fell /\ o.sink.inUse
             /\ sinkOpened => o = s
             /\ ~ sinkOpened => o.sink.ready
<1>0. PICK yes, no : yes = TRUE /\ no = FALSE
  OBVIOUS
<1>1. CASE sinkOpened
  BY <1>1 DEF AttachedSink
<1>2. CASE ~ sinkOpened
  <2>. DEFINE k == s.sink
              sink == SinkOf(no, yes, yes, k.truncated, <<>>)
              o == StateOf(sink, s.file, s.lost, s.off, s.fell)
  <2>1. /\ s = StateOf(k, s.file, s.lost, s.off, s.fell)
        /\ k = SinkOf(k.file, k.inUse, k.ready, k.truncated, k.buffer) /\ k.buffer = <<>>
        /\ Accounted(s.file, k.buffer, s.lost \cup s.off, n) /\ IsFiniteSet(s.off) /\ s.fell \in Nat
    BY <1>2 DEF Whole
  <2>2. AttachedSink(s) = [s EXCEPT !.sink =
          [k EXCEPT !.file = no, !.inUse = yes, !.ready = yes, !.buffer = <<>>]]
    BY <1>0, <1>2 DEF AttachedSink
  <2>. HIDE DEF k, sink, o
  <2>3. [k EXCEPT !.file = no, !.inUse = yes, !.ready = yes, !.buffer = <<>>] = sink
    <3>1. [k EXCEPT !.file = no] = SinkOf(no, k.inUse, k.ready, k.truncated, k.buffer)
      BY <2>1, SinkFields
    <3>2. [SinkOf(no, k.inUse, k.ready, k.truncated, k.buffer) EXCEPT !.inUse = yes]
            = SinkOf(no, yes, k.ready, k.truncated, k.buffer)
      BY SinkFields
    <3>3. [SinkOf(no, yes, k.ready, k.truncated, k.buffer) EXCEPT !.ready = yes]
            = SinkOf(no, yes, yes, k.truncated, k.buffer)
      BY SinkFields
    <3>4. [SinkOf(no, yes, yes, k.truncated, k.buffer) EXCEPT !.buffer = <<>>] = sink
      BY SinkFields DEF sink
    <3>. QED BY <3>1, <3>2, <3>3, <3>4
  <2>4. AttachedSink(s) = o
    <3>1. [s EXCEPT !.sink = sink] = o
      BY <2>1, StateFields DEF o
    <3>. QED BY <2>2, <2>3, <3>1
  <2>5. Whole(o, n)
    BY <2>1, WholeFromParts DEF o, sink
  <2>6. o.sink = sink /\ o.off = s.off /\ o.fell = s.fell
    BY StateFields DEF o
  <2>7. sink.inUse = yes /\ sink.ready = yes
    BY SinkFields DEF sink
  <2>. QED BY <1>0, <1>2, <2>4, <2>5, <2>6, <2>7
<1>. QED BY <1>1, <1>2

LEMMA TickedIsWhole ==
  ASSUME NEW s, NEW n, Whole(s, n)
  PROVE  LET o == TickedSink(s)
         IN  /\ Whole(o, n) /\ o.off = s.off /\ o.fell = s.fell
             /\ o.sink.inUse = s.sink.inUse /\ o.sink.buffer = s.sink.buffer
             /\ s.sink.ready => o.sink.ready
             /\ ~ s.sink.ready => o = s \/ o.sink.ready
<1>0. PICK yes, no : yes = TRUE /\ no = FALSE
  OBVIOUS
<1>1. CASE ~ s.sink.inUse \/ s.sink.ready \/ disk.fault = "open"
  BY <1>1 DEF TickedSink
<1>2. CASE ~ (~ s.sink.inUse \/ s.sink.ready \/ disk.fault = "open")
  <2>. DEFINE t == OpenFile(s)
              k == t.sink
              sink == SinkOf(k.file, k.inUse, yes, k.truncated, k.buffer)
              o == StateOf(sink, t.file, t.lost, t.off, t.fell)
  <2>1. Whole(t, n) /\ t.off = s.off /\ t.fell = s.fell /\ k.inUse = s.sink.inUse /\ k.buffer = s.sink.buffer
    BY OpenFileIsWhole
  <2>2. TickedSink(s) = [t EXCEPT !.sink.ready = yes]
    BY <1>0, <1>2 DEF TickedSink
  <2>. HIDE DEF t
  <2>3. /\ t = StateOf(k, t.file, t.lost, t.off, t.fell)
        /\ k = SinkOf(k.file, k.inUse, k.ready, k.truncated, k.buffer)
        /\ Accounted(t.file, k.buffer, t.lost \cup t.off, n) /\ IsFiniteSet(t.off) /\ t.fell \in Nat
    BY <2>1 DEF Whole
  <2>4. [t EXCEPT !.sink.ready = yes] = [t EXCEPT !.sink = [k EXCEPT !.ready = yes]]
    OBVIOUS
  <2>. HIDE DEF k, sink, o
  <2>5. [k EXCEPT !.ready = yes] = sink
    BY <2>3, SinkFields DEF sink
  <2>6. [t EXCEPT !.sink = sink] = o
    BY <2>3, StateFields DEF o
  <2>7. Whole(o, n)
    BY <2>3, WholeFromParts DEF o, sink
  <2>8. o.sink = sink /\ o.off = t.off /\ o.fell = t.fell
    BY StateFields DEF o
  <2>9. sink.inUse = k.inUse /\ sink.ready = yes /\ sink.buffer = k.buffer
    BY SinkFields DEF sink
  <2>10. TickedSink(s) = o
    BY <2>2, <2>4, <2>5, <2>6
  <2>11. Whole(o, n) /\ o.off = s.off /\ o.fell = s.fell
    BY <2>1, <2>7, <2>8
  <2>12. o.sink.inUse = s.sink.inUse /\ o.sink.buffer = s.sink.buffer /\ o.sink.ready = TRUE
    BY <1>0, <2>1, <2>8, <2>9
  <2>. QED BY <2>10, <2>11, <2>12
<1>. QED BY <1>1, <1>2

\* A byte written is in the file, in the buffer, lost with a fall, or off.
LEMMA WrittenIsWhole ==
  ASSUME NEW s, NEW n, NEW flushes \in BOOLEAN, Whole(s, n), s.sink.inUse,
         NEW w, w = WrittenTo(s, n + 1, flushes)
  PROVE  /\ Whole(w, n + 1) /\ w.sink.inUse
         /\ \/ s.sink.ready /\ w.off = s.off /\ w.fell = s.fell /\ w.sink.ready
            \/ s.sink.ready /\ w.off = s.off /\ w.fell = s.fell + 1 /\ ~ w.sink.ready
            \/ /\ ~ s.sink.ready /\ w.off = s.off \cup {n + 1} /\ w.fell = s.fell
               /\ ~ w.sink.ready
<1>1. n \in Nat /\ n + 1 \in Nat /\ 1 .. n + 1 = 1 .. n \cup {n + 1} /\ n + 1 \notin 1 .. n
      /\ \A x \in 1 .. n : x < n + 1
  BY DEF Whole, Accounted
<1>2. CASE ~ s.sink.ready
  <2>. DEFINE off == s.off \cup {n + 1}
              k == s.sink
              o == StateOf(k, s.file, s.lost, off, s.fell)
  <2>1. /\ s = StateOf(k, s.file, s.lost, s.off, s.fell)
        /\ k = SinkOf(k.file, k.inUse, k.ready, k.truncated, k.buffer)
        /\ Accounted(s.file, k.buffer, s.lost \cup s.off, n) /\ IsFiniteSet(s.off) /\ s.fell \in Nat
    BY DEF Whole
  <2>2. w = [s EXCEPT !.off = off]
    BY <1>2 DEF WrittenTo
  <2>. HIDE DEF k, o
  <2>4. Accounted(s.file, k.buffer, s.lost \cup off, n + 1)
    BY <1>1, <2>1 DEF Accounted
  <2>5. IsFiniteSet(off)
    BY <2>1, FS_AddElement
  <2>. HIDE DEF off
  <2>3. [s EXCEPT !.off = off] = o
    BY <2>1, StateFields DEF o
  <2>6. Whole(StateOf(k, s.file, s.lost, off, s.fell), n + 1)
    <3>1. k = SinkOf(k.file, k.inUse, k.ready, k.truncated, k.buffer)
      BY <2>1
    <3>2. Whole(StateOf(SinkOf(k.file, k.inUse, k.ready, k.truncated, k.buffer),
                        s.file, s.lost, off, s.fell), n + 1)
      BY <2>1, <2>4, <2>5, WholeFromParts
    <3>. QED BY <3>1, <3>2
  <2>7. o.sink = k /\ o.off = off /\ o.fell = s.fell
    BY StateFields DEF o
  <2>8. Whole(o, n + 1)
    BY <2>6 DEF o
  <2>9. w = o
    BY <2>2, <2>3
  <2>10. o.sink.inUse = s.sink.inUse /\ o.sink.ready = s.sink.ready
    BY <2>7 DEF k
  <2>11. o.off = s.off \cup {n + 1}
    BY <2>7 DEF off
  <2>. QED BY <1>2, <2>7, <2>8, <2>9, <2>10, <2>11
<1>3. CASE s.sink.ready /\ ~ s.sink.file /\ disk.fault = "open"
  <2>1. w = FallOver(s, {n + 1})
    BY <1>3 DEF WrittenTo
  <2>2. ASSUME NEW o, o = FallOver(s, {n + 1})
        PROVE  /\ Whole(o, n + 1) /\ o.off = s.off /\ o.fell = s.fell + 1
               /\ o.sink.inUse = s.sink.inUse /\ ~ o.sink.ready
    BY <2>2, FallOverIsWhole
  <2>. QED BY <1>3, <2>1, <2>2
<1>4. CASE s.sink.ready /\ ~ (~ s.sink.file /\ disk.fault = "open")
  <2>. DEFINE able == IF s.sink.file THEN s ELSE OpenFile(s)
              k == able.sink
              b == Append(k.buffer, n + 1)
              sink == SinkOf(k.file, k.inUse, k.ready, k.truncated, b)
              kept == StateOf(sink, able.file, able.lost, able.off, able.fell)
  <2>1. /\ Whole(able, n) /\ able.off = s.off /\ able.fell = s.fell
        /\ k.inUse = s.sink.inUse /\ k.ready = s.sink.ready /\ k.buffer = s.sink.buffer
    BY OpenFileIsWhole
  <2>2. w =
          IF ~ flushes THEN [able EXCEPT !.sink.buffer = b]
          ELSE IF disk.fault = "full" THEN FallOver(able, {n + 1})
          ELSE [[able EXCEPT !.sink.buffer = b] EXCEPT
                  !.file = able.file \o [able EXCEPT !.sink.buffer = b].sink.buffer,
                  !.sink.buffer = <<>>]
    <3>. DEFINE kp == [able EXCEPT !.sink.buffer = Append(@, n + 1)]
    <3>1. w =
            IF ~ flushes THEN kp
            ELSE IF disk.fault = "full" THEN FallOver(able, {n + 1})
            ELSE [kp EXCEPT !.file = @ \o kp.sink.buffer, !.sink.buffer = <<>>]
      BY <1>4 DEF WrittenTo
    <3>2. kp = [able EXCEPT !.sink.buffer = b] /\ kp.file = able.file
      OBVIOUS
    <3>. QED BY <3>1, <3>2
  <2>. HIDE DEF able
  <2>3. /\ able = StateOf(k, able.file, able.lost, able.off, able.fell)
        /\ k = SinkOf(k.file, k.inUse, k.ready, k.truncated, k.buffer)
        /\ Accounted(able.file, k.buffer, able.lost \cup able.off, n)
        /\ IsFiniteSet(able.off) /\ able.fell \in Nat
    BY <2>1 DEF Whole
  <2>4. [able EXCEPT !.sink.buffer = b] = [able EXCEPT !.sink = [k EXCEPT !.buffer = b]]
    OBVIOUS
  <2>. HIDE DEF k, sink, kept, b
  <2>5. [able EXCEPT !.sink.buffer = b] = kept
    <3>1. [k EXCEPT !.buffer = b] = sink
      BY <2>3, SinkFields DEF sink
    <3>2. [able EXCEPT !.sink = sink] = kept
      BY <2>3, StateFields DEF kept
    <3>. QED BY <2>4, <3>1, <3>2
  <2>6. /\ b \in Seq(Nat) /\ Rising(b) /\ Content(b) = Content(k.buffer) \cup {n + 1}
    <3>1. b \in Seq(Nat) /\ b = k.buffer \o <<n + 1>>
      BY <1>1, <2>3, AppendJoins DEF b, Accounted
    <3>2. /\ <<n + 1>> \in Seq(Nat) /\ Content(<<n + 1>>) = {n + 1} /\ Rising(<<n + 1>>)
      BY <1>1, OneRises
    <3>3. Below(Content(k.buffer), {n + 1})
      BY <1>1, <2>3 DEF Accounted, Below
    <3>4. k.buffer \in Seq(Nat) /\ Rising(k.buffer)
      BY <2>3 DEF Accounted
    <3>5. Content(k.buffer \o <<n + 1>>) = Content(k.buffer) \cup Content(<<n + 1>>)
      BY <3>2, <3>4, JoinedContent
    <3>6. Rising(k.buffer \o <<n + 1>>)
      BY <3>2, <3>3, <3>4, JoinedRises
    <3>. QED BY <3>1, <3>2, <3>5, <3>6
  <2>7. Accounted(able.file, b, able.lost \cup able.off, n + 1)
    BY <1>1, <2>3, <2>6 DEF Accounted, Below
  <2>8. CASE ~ flushes
    <3>1. Whole(kept, n + 1)
      BY <2>3, <2>7, WholeFromParts DEF kept, sink
    <3>2. kept.sink = sink /\ kept.off = able.off /\ kept.fell = able.fell
      BY StateFields DEF kept
    <3>3. sink.inUse = k.inUse /\ sink.ready = k.ready
      BY SinkFields DEF sink
    <3>4. w = kept
      BY <2>2, <2>5, <2>8
    <3>5. kept.sink.inUse = s.sink.inUse /\ kept.sink.ready = s.sink.ready
      BY <2>1, <3>2, <3>3
    <3>6. kept.off = s.off /\ kept.fell = s.fell
      BY <2>1, <3>2
    <3>. QED BY <1>4, <3>1, <3>4, <3>5, <3>6
  <2>9. CASE flushes /\ disk.fault = "full"
    <3>1. w = FallOver(able, {n + 1})
      BY <2>2, <2>9
    <3>2. able.sink.inUse = s.sink.inUse /\ able.off = s.off /\ able.fell = s.fell
      BY <2>1 DEF k
    <3>3. /\ Whole(w, n + 1) /\ w.off = able.off /\ w.fell = able.fell + 1
          /\ w.sink.inUse = able.sink.inUse /\ ~ w.sink.ready
      BY <2>1, <3>1, FallOverIsWhole
    <3>. QED BY <1>4, <3>2, <3>3
  <2>10. CASE flushes /\ disk.fault # "full"
    <3>. DEFINE file == able.file \o b
                empty == SinkOf(k.file, k.inUse, k.ready, k.truncated, <<>>)
                o == StateOf(empty, file, able.lost, able.off, able.fell)
    <3>1. kept.sink = sink /\ sink.buffer = b
      BY StateFields, SinkFields DEF kept, sink
    <3>2. w = [kept EXCEPT !.file = file, !.sink.buffer = <<>>]
      BY <2>2, <2>5, <2>10, <3>1
    <3>. HIDE DEF file, empty, o
    <3>3. [kept EXCEPT !.file = file, !.sink.buffer = <<>>] = o
      <4>1. [kept EXCEPT !.file = file] = StateOf(sink, file, able.lost, able.off, able.fell)
        BY StateFields DEF kept
      <4>. DEFINE c == StateOf(sink, file, able.lost, able.off, able.fell)
      <4>2. c.sink = sink
        BY StateFields
      <4>3. [sink EXCEPT !.buffer = <<>>] = empty
        BY SinkFields DEF sink, empty
      <4>4. [c EXCEPT !.sink = empty] = o
        BY StateFields DEF o
      <4>. HIDE DEF c
      <4>5. [c EXCEPT !.sink.buffer = <<>>] = [c EXCEPT !.sink = [c.sink EXCEPT !.buffer = <<>>]]
        OBVIOUS
      <4>6. [c EXCEPT !.sink.buffer = <<>>] = o
        BY <4>2, <4>3, <4>4, <4>5
      <4>7. [kept EXCEPT !.file = file] = c
        BY <4>1 DEF c
      <4>. QED BY <4>6, <4>7
    <3>4. Accounted(file, <<>>, able.lost \cup able.off, n + 1)
      <4>1. file \in Seq(Nat) /\ Content(file) = Content(able.file) \cup Content(b)
        BY <2>7, JoinedContent DEF file, Accounted
      <4>2. Rising(file)
        BY <2>7, JoinedRises DEF file, Accounted
      <4>. QED BY <2>7, <4>1, <4>2, NothingRises DEF Accounted, Below
    <3>5. Whole(o, n + 1)
      BY <2>3, <3>4, WholeFromParts DEF o, empty
    <3>6. o.sink = empty /\ o.off = able.off /\ o.fell = able.fell
      BY StateFields DEF o
    <3>7. empty.inUse = k.inUse /\ empty.ready = k.ready
      BY SinkFields DEF empty
    <3>8. o.sink.inUse = s.sink.inUse /\ o.sink.ready = s.sink.ready /\ o.off = s.off /\ o.fell = s.fell
      BY <2>1, <3>6, <3>7
    <3>9. w = o
      BY <3>2, <3>3
    <3>. QED BY <1>4, <3>5, <3>8, <3>9
  <2>. QED BY <2>8, <2>9, <2>10
<1>. QED BY <1>2, <1>3, <1>4

LEMMA BecomesState ==
  ASSUME NEW s, NEW n, Whole(s, n), PrinterBecomes(s), disk = [content |-> disk.content, fault |-> disk.fault]
  PROVE  /\ State' = s /\ disk' = [content |-> disk'.content, fault |-> disk'.fault]
         /\ slotSink' = s.sink /\ dropped' = s.off /\ falls' = s.fell
<1>1. disk' = [content |-> s.file, fault |-> disk.fault]
  BY DEF PrinterBecomes
<1>2. State' = [sink |-> s.sink, file |-> s.file, lost |-> s.lost, off |-> s.off, fell |-> s.fell]
  BY <1>1 DEF PrinterBecomes, State
<1>3. s = [sink |-> s.sink, file |-> s.file, lost |-> s.lost, off |-> s.off, fell |-> s.fell]
  BY DEF Whole, StateOf
<1>. QED BY <1>1, <1>2, <1>3 DEF PrinterBecomes

LEMMA StateParts ==
  /\ State.sink = slotSink /\ State.file = disk.content /\ State.lost = mislaid
  /\ State.off = dropped /\ State.fell = falls
BY DEF State

\* What attaching and writing make of the state.
LEMMA PrintedIsWhole ==
  ASSUME PrinterInv, NEW flushes \in BOOLEAN,
         NEW s, s = WrittenTo(AttachedSink(State), printed + 1, flushes)
  PROVE  /\ Whole(s, printed + 1) /\ s.sink.inUse
         /\ \/ s.off = dropped /\ s.fell = falls /\ s.sink.ready
            \/ s.off = dropped /\ s.fell = falls + 1 /\ ~ s.sink.ready
            \/ /\ sinkOpened /\ ~ slotSink.ready /\ s.off = dropped \cup {printed + 1} /\ s.fell = falls
               /\ ~ s.sink.ready
<1>1. PICK a : a = AttachedSink(State)
  OBVIOUS
<1>2. Whole(State, printed) /\ (~ sinkOpened => State.sink.buffer = <<>>) /\ (sinkOpened => State.sink.inUse)
  BY StateParts DEF PrinterInv
<1>3. /\ Whole(a, printed) /\ a.off = dropped /\ a.fell = falls /\ a.sink.inUse
      /\ sinkOpened => a = State
      /\ ~ sinkOpened => a.sink.ready
  BY <1>1, <1>2, AttachedIsWhole, StateParts
<1>4. s = WrittenTo(a, printed + 1, flushes)
  BY <1>1
<1>5. /\ Whole(s, printed + 1) /\ s.sink.inUse
      /\ \/ a.sink.ready /\ s.off = a.off /\ s.fell = a.fell /\ s.sink.ready
         \/ a.sink.ready /\ s.off = a.off /\ s.fell = a.fell + 1 /\ ~ s.sink.ready
         \/ /\ ~ a.sink.ready /\ s.off = a.off \cup {printed + 1} /\ s.fell = a.fell
            /\ ~ s.sink.ready
  BY <1>3, <1>4, WrittenIsWhole
<1>6. ~ a.sink.ready => sinkOpened /\ ~ slotSink.ready
  BY <1>3, StateParts
<1>. QED BY <1>3, <1>5, <1>6

LEMMA PrintByteKeeps ==
  ASSUME PrinterInv, NEW flushes \in BOOLEAN, PrintByte(flushes)
  PROVE  PrinterInv'
<1>1. PICK s : /\ s = WrittenTo(AttachedSink(State), printed + 1, flushes)
               /\ PrinterBecomes(s)
               /\ printer' = [latch |-> printed + 1, waiting |-> ~ s.sink.ready]
  BY DEF PrintByte, Follows
<1>2. /\ Whole(s, printed + 1) /\ s.sink.inUse
      /\ \/ s.off = dropped /\ s.fell = falls /\ s.sink.ready
         \/ s.off = dropped /\ s.fell = falls + 1 /\ ~ s.sink.ready
         \/ /\ sinkOpened /\ ~ slotSink.ready /\ s.off = dropped \cup {printed + 1} /\ s.fell = falls
            /\ ~ s.sink.ready
  BY <1>1, PrintedIsWhole
<1>3. /\ State' = s /\ disk' = [content |-> disk'.content, fault |-> disk'.fault]
      /\ slotSink' = s.sink /\ dropped' = s.off /\ falls' = s.fell
  BY <1>1, <1>2, BecomesState DEF PrinterInv
<1>4. /\ printer' = [latch |-> printer'.latch, waiting |-> printer'.waiting]
      /\ printer'.waiting \in BOOLEAN /\ (printer'.waiting <=> ~ slotSink'.ready)
  BY <1>1, <1>3
<1>5. printed' = printed + 1 /\ sinkOpened' = TRUE /\ ~ printer.waiting
  BY DEF PrintByte
<1>6. Whole(State', printed')
  BY <1>2, <1>3, <1>5
<1>7. /\ Cardinality(dropped) <= falls /\ falls \in Nat /\ IsFiniteSet(dropped) /\ Cardinality(dropped) \in Nat
      /\ sinkOpened /\ ~ slotSink.ready => Cardinality(dropped) < falls
  BY <1>5, StateParts, FS_CardinalityType DEF PrinterInv, Whole
<1>8. Cardinality(dropped') <= falls'
  <2>1. CASE dropped' = dropped
    BY <1>2, <1>3, <1>7, <2>1
  <2>2. CASE sinkOpened /\ ~ slotSink.ready /\ dropped' = dropped \cup {printed + 1} /\ falls' = falls
    <3>1. Cardinality(dropped') <= Cardinality(dropped) + 1
      BY <1>7, <2>2, FS_AddElement
    <3>2. Cardinality(dropped') \in Nat
      BY <1>7, <2>2, FS_AddElement, FS_CardinalityType
    <3>. QED BY <1>7, <2>2, <3>1, <3>2
  <2>. QED BY <1>2, <1>3, <2>1, <2>2
<1>9. slotSink'.inUse
  BY <1>2, <1>3
<1>. QED BY <1>3, <1>4, <1>5, <1>6, <1>8, <1>9 DEF PrinterInv

LEMMA PrintBlindlyKeeps ==
  ASSUME PrinterInv, PrintBlindly
  PROVE  PrinterInv'
<1>1. PICK s : /\ s = WrittenTo(AttachedSink(State), printed + 1, TRUE)
               /\ slotSink' = s.sink /\ falls' = s.fell
               /\ mislaid' = s.lost \cup (s.off \ dropped) /\ dropped' = dropped
               /\ disk' = [disk EXCEPT !.content = s.file]
               /\ printer' = [latch |-> printed + 1, waiting |-> ~ s.sink.ready]
  BY DEF PrintBlindly, Follows
<1>0. TRUE \in BOOLEAN
  OBVIOUS
<1>2. /\ Whole(s, printed + 1) /\ s.sink.inUse
      /\ \/ s.off = dropped /\ s.fell = falls /\ s.sink.ready
         \/ s.off = dropped /\ s.fell = falls + 1 /\ ~ s.sink.ready
         \/ /\ sinkOpened /\ ~ slotSink.ready /\ s.off = dropped \cup {printed + 1} /\ s.fell = falls
            /\ ~ s.sink.ready
  BY <1>0, <1>1, PrintedIsWhole
<1>3. disk' = [content |-> s.file, fault |-> disk.fault]
  BY <1>1 DEF PrinterInv
<1>4. State' = StateOf(s.sink, s.file, s.lost \cup (s.off \ dropped), dropped, s.fell)
  BY <1>1, <1>3 DEF State, StateOf
<1>5. printed' = printed + 1 /\ sinkOpened' = TRUE
  BY DEF PrintBlindly
<1>6. Whole(State', printed')
  <2>1. dropped \subseteq s.off /\ IsFiniteSet(dropped)
    BY <1>2, StateParts DEF PrinterInv, Whole
  <2>2. s.lost \cup (s.off \ dropped) \cup dropped = s.lost \cup s.off
    BY <2>1
  <2>. DEFINE k == s.sink
              lost == s.lost \cup (s.off \ dropped)
  <2>3. /\ k = SinkOf(k.file, k.inUse, k.ready, k.truncated, k.buffer)
        /\ Accounted(s.file, k.buffer, lost \cup dropped, printed + 1) /\ s.fell \in Nat
    BY <1>2, <2>2 DEF Whole
  <2>. HIDE DEF k, lost
  <2>4. Whole(StateOf(SinkOf(k.file, k.inUse, k.ready, k.truncated, k.buffer), s.file, lost,
                      dropped, s.fell), printed + 1)
    BY <2>1, <2>3, WholeFromParts
  <2>5. Whole(StateOf(k, s.file, lost, dropped, s.fell), printed + 1)
    BY <2>3, <2>4
  <2>. QED BY <1>4, <1>5, <2>5 DEF k, lost
<1>7. /\ printer' = [latch |-> printer'.latch, waiting |-> printer'.waiting]
      /\ printer'.waiting \in BOOLEAN /\ (printer'.waiting <=> ~ slotSink'.ready)
  BY <1>1
<1>8. Cardinality(dropped') <= falls'
  <2>1. Cardinality(dropped) <= falls /\ falls \in Nat /\ Cardinality(dropped) \in Nat
    BY StateParts, FS_CardinalityType DEF PrinterInv, Whole
  <2>2. falls' = falls \/ falls' = falls + 1
    BY <1>1, <1>2
  <2>3. dropped' = dropped
    BY <1>1
  <2>. QED BY <2>1, <2>2, <2>3
<1>9. slotSink'.inUse
  BY <1>1, <1>2
<1>10. disk' = [content |-> disk'.content, fault |-> disk'.fault]
  BY <1>3
<1>. QED BY <1>5, <1>6, <1>7, <1>8, <1>9, <1>10 DEF PrinterInv

LEMMA PrinterThinkKeeps ==
  ASSUME PrinterInv, PrinterThink
  PROVE  PrinterInv'
<1>1. PICK s : /\ s = (IF printer.waiting THEN AttachedSink(TickedSink(State)) ELSE TickedSink(State))
               /\ PrinterBecomes(s)
               /\ printer' = [printer EXCEPT !.waiting = @ /\ ~ s.sink.ready]
  BY DEF PrinterThink, Follows
<1>2. PICK t : t = TickedSink(State)
  OBVIOUS
<1>3. Whole(State, printed) /\ (~ sinkOpened => State.sink.buffer = <<>>) /\ (sinkOpened => State.sink.inUse)
  BY StateParts DEF PrinterInv
<1>4. /\ Whole(t, printed) /\ t.off = dropped /\ t.fell = falls
      /\ t.sink.inUse = slotSink.inUse /\ t.sink.buffer = slotSink.buffer
      /\ slotSink.ready => t.sink.ready
  BY <1>2, <1>3, TickedIsWhole, StateParts
<1>5. CASE printer.waiting
  <2>1. s = AttachedSink(t)
    BY <1>1, <1>2, <1>5
  <2>2. (~ sinkOpened => t.sink.buffer = <<>>) /\ (sinkOpened => t.sink.inUse)
    BY <1>3, <1>4, StateParts
  <2>3. Whole(s, printed) /\ s.off = dropped /\ s.fell = falls /\ s.sink.inUse
    BY <1>4, <2>1, <2>2, AttachedIsWhole
  <2>4. /\ State' = s /\ disk' = [content |-> disk'.content, fault |-> disk'.fault]
        /\ slotSink' = s.sink /\ dropped' = s.off /\ falls' = s.fell
    BY <1>1, <2>3, BecomesState DEF PrinterInv
  <2>5. printed' = printed /\ sinkOpened' = TRUE
    BY <1>5 DEF PrinterThink
  <2>6. /\ printer' = [latch |-> printer'.latch, waiting |-> printer'.waiting]
        /\ printer'.waiting \in BOOLEAN /\ (printer'.waiting <=> ~ slotSink'.ready)
    BY <1>1, <1>5, <2>4 DEF PrinterInv
  <2>7. Cardinality(dropped') <= falls'
    <3>1. dropped' = dropped /\ falls' = falls
      BY <2>3, <2>4
    <3>2. Cardinality(dropped) <= falls
      BY DEF PrinterInv
    <3>. QED BY <3>1, <3>2
  <2>8. Whole(State', printed') /\ slotSink'.inUse
    BY <2>3, <2>4, <2>5
  <2>. QED BY <2>4, <2>5, <2>6, <2>7, <2>8 DEF PrinterInv
<1>6. CASE ~ printer.waiting
  <2>1. s = t
    BY <1>1, <1>2, <1>6
  <2>2. /\ State' = s /\ disk' = [content |-> disk'.content, fault |-> disk'.fault]
        /\ slotSink' = s.sink /\ dropped' = s.off /\ falls' = s.fell
    BY <1>1, <1>4, <2>1, BecomesState DEF PrinterInv
  <2>3. printed' = printed /\ sinkOpened' = sinkOpened
    BY <1>6 DEF PrinterThink, PrinterInv
  <2>4. /\ printer' = [latch |-> printer'.latch, waiting |-> printer'.waiting]
        /\ printer'.waiting \in BOOLEAN
    BY <1>1, <1>6 DEF PrinterInv
  <2>5. /\ Cardinality(dropped') <= falls'
        /\ sinkOpened' /\ ~ slotSink'.ready => Cardinality(dropped') < falls'
    BY <1>4, <1>6, <2>1, <2>2, <2>3 DEF PrinterInv
  <2>6. (~ sinkOpened' => slotSink'.buffer = <<>>) /\ (sinkOpened' => slotSink'.inUse)
    BY <1>4, <2>1, <2>2, <2>3 DEF PrinterInv
  <2>7. Whole(State', printed') /\ sinkOpened' \in BOOLEAN
    BY <1>4, <2>1, <2>2, <2>3 DEF PrinterInv
  <2>. QED BY <2>2, <2>4, <2>5, <2>6, <2>7 DEF PrinterInv
<1>. QED BY <1>5, <1>6

LEMMA PrinterLoadKeeps ==
  ASSUME PrinterInv, PrinterLoad
  PROVE  PrinterInv'
<1>1. /\ printer' = [printer EXCEPT !.waiting = FALSE]
      /\ UNCHANGED <<sinkOpened, slotSink, append, disk, printed, mislaid, dropped>>
      /\ falls' = IF printer.waiting THEN falls + 1 ELSE falls
  BY DEF PrinterLoad
<1>2. printer' = [latch |-> printer.latch, waiting |-> FALSE]
  BY <1>1 DEF PrinterInv
<1>3. falls \in Nat /\ IsFiniteSet(dropped) /\ Cardinality(dropped) \in Nat /\ Cardinality(dropped) <= falls
  BY StateParts, FS_CardinalityType DEF PrinterInv, Whole
<1>4. Whole(State', printed')
  <2>. DEFINE k == slotSink
  <2>1. /\ k = SinkOf(k.file, k.inUse, k.ready, k.truncated, k.buffer)
        /\ Accounted(disk.content, k.buffer, mislaid \cup dropped, printed)
    BY StateParts DEF PrinterInv, Whole
  <2>2. falls' \in Nat
    BY <1>1, <1>3
  <2>. HIDE DEF k
  <2>3. Whole(StateOf(SinkOf(k.file, k.inUse, k.ready, k.truncated, k.buffer), disk.content, mislaid,
                      dropped, falls'), printed)
    BY <1>3, <2>1, <2>2, WholeFromParts
  <2>4. Whole(StateOf(k, disk.content, mislaid, dropped, falls'), printed)
    BY <2>1, <2>3
  <2>5. State' = StateOf(slotSink, disk.content, mislaid, dropped, falls')
    BY <1>1 DEF State, StateOf
  <2>. QED BY <1>1, <2>4, <2>5 DEF k
<1>5. Cardinality(dropped') <= falls'
  BY <1>1, <1>3
<1>6. sinkOpened' /\ ~ slotSink'.ready /\ ~ printer'.waiting => Cardinality(dropped') < falls'
  <2>1. CASE printer.waiting
    BY <1>1, <1>3, <2>1
  <2>2. CASE ~ printer.waiting
    <3>1. sinkOpened /\ ~ slotSink.ready => Cardinality(dropped) < falls
      BY <2>2 DEF PrinterInv
    <3>. QED BY <1>1, <2>2, <3>1
  <2>. QED BY <2>1, <2>2
<1>7. /\ printer' = [latch |-> printer'.latch, waiting |-> printer'.waiting]
      /\ printer'.waiting \in BOOLEAN
  BY <1>2
<1>8. /\ disk' = [content |-> disk'.content, fault |-> disk'.fault] /\ sinkOpened' \in BOOLEAN
      /\ (~ sinkOpened' => slotSink'.buffer = <<>>) /\ (sinkOpened' => slotSink'.inUse)
  BY <1>1 DEF PrinterInv
<1>. QED BY <1>4, <1>5, <1>6, <1>7, <1>8 DEF PrinterInv

LEMMA InstallPrinterKeeps ==
  ASSUME PrinterInv, InstallPrinter
  PROVE  PrinterInv'
<1>. DEFINE k == slotSink
            full == disk.fault = "full"
            content == IF full THEN disk.content ELSE disk.content \o k.buffer
            lost == IF full THEN mislaid \cup BytesOf(k.buffer) ELSE mislaid
<1>1. /\ disk' = [disk EXCEPT !.content = content] /\ mislaid' = lost
      /\ slotSink' = NewSink /\ sinkOpened' = FALSE
      /\ UNCHANGED <<printer, append, printed, dropped, falls>>
  BY DEF InstallPrinter
<1>2. /\ Accounted(disk.content, k.buffer, mislaid \cup dropped, printed) /\ IsFiniteSet(dropped) /\ falls \in Nat
      /\ disk = [content |-> disk.content, fault |-> disk.fault]
  BY StateParts DEF PrinterInv, Whole
<1>. HIDE DEF k, full, content, lost
<1>3. disk' = [content |-> content, fault |-> disk.fault]
  BY <1>1, <1>2
<1>4. Accounted(content, <<>>, lost \cup dropped, printed)
  <2>1. CASE full
    <3>1. content = disk.content /\ lost = mislaid \cup Content(k.buffer)
      BY <2>1, BytesAreTheContent DEF content, lost
    <3>. QED BY <1>2, <3>1, NothingRises DEF Accounted, Below
  <2>2. CASE ~ full
    <3>1. content = disk.content \o k.buffer /\ lost = mislaid
      BY <2>2 DEF content, lost
    <3>2. content \in Seq(Nat) /\ Content(content) = Content(disk.content) \cup Content(k.buffer)
      BY <1>2, <3>1, JoinedContent DEF Accounted
    <3>3. Rising(content)
      BY <1>2, <3>1, JoinedRises DEF Accounted
    <3>. QED BY <1>2, <3>1, <3>2, <3>3, NothingRises DEF Accounted, Below
  <2>. QED BY <2>1, <2>2
<1>5. PICK yes, no : yes = TRUE /\ no = FALSE
  OBVIOUS
<1>6. NewSink = SinkOf(no, no, yes, no, <<>>)
  BY <1>5 DEF NewSink, SinkOf
<1>7. Whole(State', printed')
  <2>1. Whole(StateOf(SinkOf(no, no, yes, no, <<>>), content, lost, dropped, falls), printed)
    BY <1>2, <1>4, WholeFromParts
  <2>2. State' = StateOf(NewSink, content, lost, dropped, falls)
    BY <1>1, <1>3 DEF State, StateOf
  <2>. QED BY <1>1, <1>6, <2>1, <2>2
<1>8. slotSink'.buffer = <<>> /\ slotSink'.ready
  BY <1>1 DEF NewSink
<1>9. /\ printer' = [latch |-> printer'.latch, waiting |-> printer'.waiting]
      /\ printer'.waiting \in BOOLEAN /\ Cardinality(dropped') <= falls'
  BY <1>1 DEF PrinterInv
<1>10. disk' = [content |-> disk'.content, fault |-> disk'.fault]
  BY <1>3
<1>. QED BY <1>1, <1>7, <1>8, <1>9, <1>10 DEF PrinterInv

LEMMA DiskChangesKeeps ==
  ASSUME PrinterInv, NEW fault \in Faults, DiskChanges(fault)
  PROVE  PrinterInv'
<1>1. /\ disk' = [disk EXCEPT !.fault = fault]
      /\ UNCHANGED <<printer, sinkOpened, slotSink, append, printed, mislaid, dropped, falls>>
  BY DEF DiskChanges
<1>2. disk' = [content |-> disk.content, fault |-> fault]
  BY <1>1 DEF PrinterInv
<1>3. State' = State
  BY <1>1, <1>2 DEF State
<1>4. disk' = [content |-> disk'.content, fault |-> disk'.fault]
  BY <1>2
<1>. QED BY <1>1, <1>3, <1>4 DEF PrinterInv

\* For any faults, loads and installations: the inductive invariant the next theorem
\* rests on.
THEOREM PrinterIsInductive == PrinterSpec => []PrinterInv
<1>1. PrinterInit => PrinterInv
  <2>. SUFFICES ASSUME PrinterInit PROVE PrinterInv
    OBVIOUS
  <2>1. PICK yes, no : yes = TRUE /\ no = FALSE
    OBVIOUS
  <2>2. NewSink = SinkOf(no, no, yes, no, <<>>)
    BY <2>1 DEF NewSink, SinkOf
  <2>3. Accounted(<<>>, <<>>, {}, 0)
    <3>1. 1 .. 0 = {}
      OBVIOUS
    <3>. QED BY <3>1, NothingRises DEF Accounted, Below
  <2>4. Whole(StateOf(SinkOf(no, no, yes, no, <<>>), <<>>, {}, {}, 0), 0)
    <3>1. {} \cup {} = {} /\ IsFiniteSet({}) /\ 0 \in Nat
      BY FS_EmptySet
    <3>. QED BY <2>3, <3>1, WholeFromParts
  <2>5. /\ slotSink = NewSink /\ disk = [content |-> <<>>, fault |-> "none"] /\ mislaid = {}
        /\ dropped = {} /\ falls = 0 /\ printed = 0 /\ sinkOpened = FALSE
        /\ printer = [latch |-> 0, waiting |-> FALSE]
    BY DEF PrinterInit
  <2>6. State = StateOf(NewSink, <<>>, {}, {}, 0)
    BY <2>5 DEF State, StateOf
  <2>7. Whole(State, printed)
    BY <2>2, <2>4, <2>5, <2>6
  <2>8. Cardinality(dropped) = 0
    BY <2>5, FS_EmptySet
  <2>9. slotSink.buffer = <<>>
    BY <2>5 DEF NewSink
  <2>10. /\ printer = [latch |-> printer.latch, waiting |-> printer.waiting] /\ printer.waiting \in BOOLEAN
         /\ disk = [content |-> disk.content, fault |-> disk.fault] /\ sinkOpened = FALSE
    BY <2>5
  <2>11. Cardinality(dropped) <= falls
    <3>1. falls = 0
      BY <2>5
    <3>. QED BY <2>8, <3>1
  <2>. QED BY <2>7, <2>9, <2>10, <2>11 DEF PrinterInv
<1>2. PrinterInv /\ [PrinterNext]_printerVars => PrinterInv'
  <2>. SUFFICES ASSUME PrinterInv, [PrinterNext]_printerVars PROVE PrinterInv'
    OBVIOUS
  <2>1. ASSUME NEW flushes \in BOOLEAN, PrintByte(flushes) PROVE PrinterInv'
    BY <2>1, PrintByteKeeps
  <2>2. CASE PrintBlindly
    BY <2>2, PrintBlindlyKeeps
  <2>3. CASE PrinterThink
    BY <2>3, PrinterThinkKeeps
  <2>4. CASE PrinterLoad
    BY <2>4, PrinterLoadKeeps
  <2>5. CASE InstallPrinter
    BY <2>5, InstallPrinterKeeps
  <2>6. ASSUME NEW fault \in Faults, DiskChanges(fault) PROVE PrinterInv'
    BY <2>6, DiskChangesKeeps
  <2>7. CASE UNCHANGED printerVars
    BY <2>7 DEF printerVars, PrinterInv, State
  <2>. QED BY <2>1, <2>2, <2>3, <2>4, <2>5, <2>6, <2>7 DEF PrinterNext
<1>. QED BY <1>1, <1>2, PTL DEF PrinterSpec

\* Every byte printed is in the file or on its way there, once and in order, but those
\* a failure took; and a printer that is off costs one byte for each time it fell.
THEOREM PrinterKeepsBytes == PrinterSpec => []PrinterKeepsItsBytes
<1>1. PrinterInv => PrinterKeepsItsBytes
  <2>. SUFFICES ASSUME PrinterInv PROVE PrinterKeepsItsBytes
    OBVIOUS
  <2>. DEFINE kept == disk.content \o slotSink.buffer
  <2>1. Accounted(disk.content, slotSink.buffer, mislaid \cup dropped, printed)
    BY StateParts DEF PrinterInv, Whole
  <2>2. Rising(kept) /\ Content(kept) = Content(disk.content) \cup Content(slotSink.buffer)
    BY <2>1, JoinedContent, JoinedRises DEF Accounted
  <2>. HIDE DEF kept
  <2>3. Ascending(kept)
    BY <2>2, RisingAscends
  <2>4. \A i \in 1 .. Len(kept) - 1 : kept[i] < kept[i + 1]
    BY <2>3 DEF Ascending
  <2>5. (1 .. printed) \ (mislaid \cup dropped) \subseteq BytesOf(kept)
    BY <2>1, <2>2, BytesAreTheContent DEF Accounted
  <2>6. Cardinality(dropped) <= falls
    BY DEF PrinterInv
  <2>. QED BY <2>4, <2>5, <2>6 DEF PrinterKeepsItsBytes, kept
<1>. QED BY <1>1, PrinterIsInductive, PTL

----------------------------------------------------------------------------
(* The serial far end *)

\* Four places in line, the first n - 1 numbers in them or in gone.
Chain(A, B, C, D, gone, n) ==
  /\ Rising(A) /\ Rising(B) /\ Rising(C) /\ Rising(D)
  /\ Below(Content(A), Content(B)) /\ Below(Content(A), Content(C)) /\ Below(Content(A), Content(D))
  /\ Below(Content(B), Content(C)) /\ Below(Content(B), Content(D)) /\ Below(Content(C), Content(D))
  /\ n \in Nat \ {0}
  /\ Content(A) \cup Content(B) \cup Content(C) \cup Content(D) \subseteq 1 .. n - 1
  /\ 1 .. n - 1 \subseteq gone \cup Content(A) \cup Content(B) \cup Content(C) \cup Content(D)

Register(byte) == IF byte = 0 THEN <<>> ELSE <<byte>>

DeviceFields == {"kind", "open", "hasModem", "inputs", "applied", "out", "lineKnown", "line",
                 "retry", "receive", "transmit"}
KernelFields == {"there", "shown", "cts", "queue", "arriving"}

\* A device and the kernel behind it, in whatever step of a call.
Shaped(s) ==
  /\ s = Line(s.dev, s.kern)
  /\ DOMAIN s.dev = DeviceFields /\ DOMAIN s.kern = KernelFields
  /\ s.dev.receive \in Seq(Nat) /\ Len(s.dev.receive) <= ReceiveSize
  /\ s.dev.transmit \in Seq(Nat) /\ s.kern.queue \in Seq(Nat) /\ s.kern.arriving \in Seq(Nat)
  /\ s.dev.kind \in {"loopback", "file"} \/ Len(s.kern.queue) <= KernelRoom
  /\ ~ s.kern.there => s.dev.kind = "modem"
  /\ s.dev.hasModem => s.dev.kind = "modem"

\* What the pins show is what was last set, in an open port whose adapter is there.
Tells(s) ==
  s.dev.open /\ s.dev.hasModem /\ s.kern.there /\ s.dev.applied =>
    s.kern.shown["dtr"] = s.dev.out["dtr"] /\ s.kern.shown["rts"] = s.dev.out["rts"]

\* What was last set follows the line.
Obeys(s, line) ==
  s.dev.open /\ s.dev.hasModem /\ s.kern.there =>
    /\ s.kern.shown["dtr"] = line["dtr"]
    /\ s.kern.shown["rts"] => line["rts"] /\ Len(s.dev.receive) < HighWater

\* The bytes on their way, when the card's register holds byte and those in gone are lost.
Goes(s, byte, gone, n) ==
  IF s.dev.kind = "loopback" THEN Chain(given, s.dev.receive, s.dev.transmit, Register(byte), gone, n)
  ELSE Chain(peer.took, s.kern.queue, s.dev.transmit, Register(byte), gone, n)

Comes(s) ==
  s.dev.kind = "loopback"
    \/ Chain(given, s.dev.receive, s.kern.arriving, <<>>, excused.in, peer.sent + 1)

SameBytes(s, t) ==
  /\ t.dev.kind = s.dev.kind /\ t.dev.receive = s.dev.receive /\ t.dev.transmit = s.dev.transmit
  /\ t.kern.queue = s.kern.queue /\ t.kern.arriving = s.kern.arriving

Cable == Line(port, kernel)

SerialInv ==
  /\ Shaped(Cable) /\ Tells(Cable) /\ Goes(Cable, ssc.tdr, excused.out, ssc.next) /\ Comes(Cable)
  /\ DOMAIN ssc = {"line", "cts", "tdr", "busy", "next", "full"} /\ ssc.tdr \in Nat /\ ssc.line \in Shown
  /\ DOMAIN peer = {"took", "sent"} /\ peer.sent \in Nat
  /\ DOMAIN excused = {"out", "in"}
  /\ ssc.tdr # 0 /\ ssc.cts => Len(port.transmit) < TransmitSize
  /\ slotOpen \in BOOLEAN
  /\ slotOpen => port.lineKnown /\ port.line = ssc.line /\ Obeys(Cable, ssc.line)
  /\ ~ slotOpen => port = Closed(port.kind)

LEMMA ChainTypes ==
  ASSUME NEW A, NEW B, NEW C, NEW D, NEW gone, NEW n, Chain(A, B, C, D, gone, n)
  PROVE  A \in Seq(Nat) /\ B \in Seq(Nat) /\ C \in Seq(Nat) /\ D \in Seq(Nat) /\ n \in Nat \ {0}
BY DEF Chain, Rising

\* What moves to the place before keeps its turn.
LEMMA FirstMoves ==
  ASSUME NEW A, NEW H \in Seq(Nat), NEW T \in Seq(Nat), NEW C, NEW D, NEW gone, NEW n,
         Chain(A, H \o T, C, D, gone, n)
  PROVE  Chain(A \o H, T, C, D, gone, n)
<1>1. A \in Seq(Nat)
  BY ChainTypes
<1>2. /\ Content(H \o T) = Content(H) \cup Content(T) /\ Content(A \o H) = Content(A) \cup Content(H)
  BY <1>1, JoinedContent
<1>3. Rising(H) /\ Rising(T) /\ Below(Content(H), Content(T))
  BY JoinedRises DEF Chain
<1>4. Rising(A \o H)
  BY <1>1, <1>2, <1>3, JoinedRises DEF Chain, Below
<1>. QED BY <1>2, <1>3, <1>4 DEF Chain, Below

LEMMA SecondMoves ==
  ASSUME NEW A, NEW B, NEW H \in Seq(Nat), NEW T \in Seq(Nat), NEW D, NEW gone, NEW n,
         Chain(A, B, H \o T, D, gone, n)
  PROVE  Chain(A, B \o H, T, D, gone, n)
<1>1. B \in Seq(Nat)
  BY ChainTypes
<1>2. /\ Content(H \o T) = Content(H) \cup Content(T) /\ Content(B \o H) = Content(B) \cup Content(H)
  BY <1>1, JoinedContent
<1>3. Rising(H) /\ Rising(T) /\ Below(Content(H), Content(T))
  BY JoinedRises DEF Chain
<1>4. Rising(B \o H)
  BY <1>1, <1>2, <1>3, JoinedRises DEF Chain, Below
<1>. QED BY <1>2, <1>3, <1>4 DEF Chain, Below

LEMMA LastMoves ==
  ASSUME NEW A, NEW B, NEW C, NEW D, NEW gone, NEW n, Chain(A, B, C, D, gone, n)
  PROVE  Chain(A, B, C \o D, <<>>, gone, n)
<1>1. C \in Seq(Nat) /\ D \in Seq(Nat)
  BY ChainTypes
<1>2. Content(C \o D) = Content(C) \cup Content(D)
  BY <1>1, JoinedContent
<1>3. Rising(C \o D)
  BY <1>1, JoinedRises DEF Chain
<1>. QED BY <1>2, <1>3, NothingRises DEF Chain, Below

\* With nothing between them, the last moves to the second place.
LEMMA LastOvertakesNone ==
  ASSUME NEW A, NEW B, NEW D, NEW gone, NEW n, Chain(A, B, <<>>, D, gone, n)
  PROVE  Chain(A, B \o D, <<>>, <<>>, gone, n)
<1>1. B \in Seq(Nat) /\ D \in Seq(Nat)
  BY ChainTypes
<1>2. Content(B \o D) = Content(B) \cup Content(D)
  BY <1>1, JoinedContent
<1>3. Rising(B \o D)
  BY <1>1, JoinedRises DEF Chain
<1>. QED BY <1>2, <1>3, NothingRises DEF Chain, Below

LEMMA LastIsLost ==
  ASSUME NEW A, NEW B, NEW C, NEW D, NEW gone, NEW n, Chain(A, B, C, D, gone, n)
  PROVE  Chain(A, B, C, <<>>, gone \cup Content(D), n)
BY NothingRises DEF Chain, Below

LEMMA ThirdIsLost ==
  ASSUME NEW A, NEW B, NEW C, NEW D, NEW gone, NEW n, Chain(A, B, C, D, gone, n)
  PROVE  Chain(A, B, <<>>, D, gone \cup Content(C), n)
BY NothingRises DEF Chain, Below

LEMMA SecondIsLost ==
  ASSUME NEW A, NEW B, NEW C, NEW D, NEW gone, NEW n, Chain(A, B, C, D, gone, n)
  PROVE  Chain(A, <<>>, C, D, gone \cup Content(B), n)
BY NothingRises DEF Chain, Below

LEMMA MoreAreLost ==
  ASSUME NEW A, NEW B, NEW C, NEW D, NEW gone, NEW n, NEW more,
         Chain(A, B, C, D, gone, n), gone \subseteq more
  PROVE  Chain(A, B, C, D, more, n)
BY DEF Chain

\* The next number takes the last place.
LEMMA NextStarts ==
  ASSUME NEW A, NEW B, NEW C, NEW gone, NEW n, Chain(A, B, C, <<>>, gone, n)
  PROVE  Chain(A, B, C, <<n>>, gone, n + 1)
<1>1. n \in Nat \ {0} /\ Content(<<n>>) = {n} /\ Rising(<<n>>)
  BY ChainTypes, OneRises
<1>2. 1 .. (n + 1) - 1 = (1 .. n - 1) \cup {n} /\ n + 1 \in Nat \ {0} /\ \A x \in 1 .. n - 1 : x < n
  BY <1>1
<1>3. Content(A) \subseteq 1 .. n - 1 /\ Content(B) \subseteq 1 .. n - 1 /\ Content(C) \subseteq 1 .. n - 1
  BY DEF Chain
<1>4. Below(Content(A), {n}) /\ Below(Content(B), {n}) /\ Below(Content(C), {n})
  BY <1>2, <1>3 DEF Below
<1>. QED BY <1>1, <1>2, <1>4, NothingRises DEF Chain

\* A chain, read as one, ascends and holds what is not lost.
LEMMA ChainReads ==
  ASSUME NEW A, NEW B, NEW C, NEW D, NEW gone, NEW n, Chain(A, B, C, D, gone, n)
  PROVE  /\ Ascending(((A \o B) \o C) \o D)
         /\ (1 .. n - 1) \ gone \subseteq Content(((A \o B) \o C) \o D)
<1>1. A \in Seq(Nat) /\ B \in Seq(Nat) /\ C \in Seq(Nat) /\ D \in Seq(Nat)
  BY ChainTypes
<1>2. /\ A \o B \in Seq(Nat) /\ Content(A \o B) = Content(A) \cup Content(B) /\ Rising(A \o B)
  BY <1>1, JoinedContent, JoinedRises DEF Chain
<1>3. /\ (A \o B) \o C \in Seq(Nat) /\ Content((A \o B) \o C) = Content(A \o B) \cup Content(C)
      /\ Rising((A \o B) \o C)
  <2>1. Below(Content(A \o B), Content(C))
    BY <1>2 DEF Chain, Below
  <2>. QED BY <1>1, <1>2, <2>1, JoinedContent, JoinedRises DEF Chain
<1>4. /\ Content(((A \o B) \o C) \o D) = Content((A \o B) \o C) \cup Content(D)
      /\ Rising(((A \o B) \o C) \o D)
  <2>1. Below(Content((A \o B) \o C), Content(D))
    BY <1>2, <1>3 DEF Chain, Below
  <2>. QED BY <1>1, <1>3, <2>1, JoinedContent, JoinedRises DEF Chain
<1>5. Ascending(((A \o B) \o C) \o D)
  BY <1>4, RisingAscends
<1>. QED BY <1>2, <1>3, <1>4, <1>5 DEF Chain

LEMMA RegisterIs ==
  /\ Register(0) = <<>>
  /\ \A byte \in Nat \ {0} : Register(byte) = <<byte>>
BY DEF Register

LEMMA LineParts ==
  ASSUME NEW d, NEW k
  PROVE  Line(d, k).dev = d /\ Line(d, k).kern = k
BY DEF Line

LEMMA SameBytesPass ==
  ASSUME NEW s, NEW t, NEW byte, NEW gone, NEW n, SameBytes(s, t)
  PROVE  (Goes(s, byte, gone, n) => Goes(t, byte, gone, n)) /\ (Comes(s) => Comes(t))
BY DEF SameBytes, Goes, Comes

\* Setting the lines: no byte moves, and the pins follow the line.
LEMMA OutputsTell ==
  ASSUME NEW s, Shaped(s), Tells(s), NEW o, o = Outputs(s)
  PROVE  /\ Shaped(o) /\ Tells(o) /\ SameBytes(s, o)
         /\ o.dev.open = s.dev.open /\ o.kern.there = s.kern.there
         /\ o.dev.lineKnown = s.dev.lineKnown /\ o.dev.line = s.dev.line
         /\ s.dev.lineKnown /\ s.dev.line \in Shown => Obeys(o, s.dev.line)
<1>. DEFINE d == s.dev
            k == s.kern
            want == [dtr |-> d.lineKnown /\ d.line.dtr,
                     rts |-> d.lineKnown /\ d.line.rts /\ Len(d.receive) < HighWater]
            Told(pin) == IF ~ d.applied \/ want[pin] # d.out[pin] THEN want[pin] ELSE k.shown[pin]
            shown == [pin \in {"dtr", "rts"} |-> Told(pin)]
            e == [d EXCEPT !.applied = TRUE, !.out = want]
            l == [k EXCEPT !.shown = shown]
<1>1. CASE ~ (d.kind = "modem" /\ d.open /\ d.hasModem)
  <2>1. o = s
    BY <1>1 DEF Outputs
  <2>2. ~ (d.open /\ d.hasModem)
    BY <1>1 DEF Shaped
  <2>. QED BY <2>1, <2>2 DEF SameBytes, Obeys
<1>2. CASE d.kind = "modem" /\ d.open /\ d.hasModem
  <2>1. o = Line(e, l)
    BY <1>2 DEF Outputs
  <2>. HIDE DEF want, shown
  <2>2. o.dev = e /\ o.kern = l
    <3>. HIDE DEF e, l
    <3>. QED BY <2>1, LineParts
  <2>3. /\ DOMAIN d = DeviceFields /\ DOMAIN k = KernelFields
    BY DEF Shaped
  <2>4. /\ DOMAIN e = DeviceFields /\ e.kind = d.kind /\ e.open = d.open /\ e.hasModem = d.hasModem
        /\ e.out = want /\ e.lineKnown = d.lineKnown /\ e.line = d.line
        /\ e.receive = d.receive /\ e.transmit = d.transmit
    BY <2>3 DEF DeviceFields
  <2>5. /\ DOMAIN l = KernelFields /\ l.there = k.there /\ l.shown = shown
        /\ l.queue = k.queue /\ l.arriving = k.arriving
    BY <2>3 DEF KernelFields
  <2>. HIDE DEF e, l
  <2>6. Shaped(o)
    BY <2>1, <2>2, <2>4, <2>5 DEF Shaped
  <2>7. shown["dtr"] = Told("dtr") /\ shown["rts"] = Told("rts")
    BY DEF shown
  <2>8. k.there => shown["dtr"] = want["dtr"] /\ shown["rts"] = want["rts"]
    BY <1>2, <2>7 DEF Tells
  <2>9. /\ want["dtr"] = (d.lineKnown /\ d.line.dtr)
        /\ want["rts"] = (d.lineKnown /\ d.line.rts /\ Len(d.receive) < HighWater)
    BY DEF want
  <2>10. d.lineKnown /\ d.line \in Shown => Obeys(o, d.line)
    <3>. SUFFICES ASSUME d.lineKnown, d.line \in Shown, k.there
                  PROVE  /\ shown["dtr"] = d.line["dtr"]
                         /\ shown["rts"] => d.line["rts"] /\ Len(d.receive) < HighWater
      BY <2>2, <2>4, <2>5 DEF Obeys
    <3>1. d.line.dtr \in BOOLEAN
      BY DEF Shown
    <3>2. shown["dtr"] = d.line.dtr
      BY <2>8, <2>9, <3>1
    <3>3. shown["rts"] => d.line.rts /\ Len(d.receive) < HighWater
      BY <2>8, <2>9
    <3>. QED BY <3>2, <3>3
  <2>11. Tells(o)
    BY <2>2, <2>4, <2>5, <2>8 DEF Tells
  <2>. QED BY <2>2, <2>4, <2>5, <2>6, <2>10, <2>11 DEF SameBytes
<1>. QED BY <1>1, <1>2

LEMMA OpenedTells ==
  ASSUME NEW s, Shaped(s), ~ s.dev.open, NEW o, o = Opened(s)
  PROVE  /\ Shaped(o) /\ Tells(o) /\ SameBytes(s, o)
         /\ o.dev.lineKnown = s.dev.lineKnown /\ o.dev.line = s.dev.line /\ o.kern.there = s.kern.there
         /\ s.dev.lineKnown /\ s.dev.line \in Shown => Obeys(o, s.dev.line)
<1>. DEFINE e == [s.dev EXCEPT !.open = TRUE, !.applied = FALSE, !.hasModem = (s.dev.kind = "modem"),
                               !.inputs = s.kern.cts]
            l == [s.kern EXCEPT !.shown = [dtr |-> TRUE, rts |-> TRUE]]
<1>1. CASE ~ s.kern.there
  BY <1>1 DEF Opened, Tells, Obeys, SameBytes
<1>2. CASE s.kern.there
  <2>1. o = Outputs(Line(e, l))
    BY <1>2 DEF Opened
  <2>2. DOMAIN s.dev = DeviceFields /\ DOMAIN s.kern = KernelFields
    BY DEF Shaped
  <2>3. /\ DOMAIN e = DeviceFields /\ e.kind = s.dev.kind /\ ~ e.applied
        /\ (e.hasModem => s.dev.kind = "modem") /\ e.lineKnown = s.dev.lineKnown /\ e.line = s.dev.line
        /\ e.receive = s.dev.receive /\ e.transmit = s.dev.transmit
    BY <2>2 DEF DeviceFields
  <2>4. /\ DOMAIN l = KernelFields /\ l.there = s.kern.there
        /\ l.queue = s.kern.queue /\ l.arriving = s.kern.arriving
    BY <2>2 DEF KernelFields
  <2>. HIDE DEF e, l
  <2>5. PICK m : m = Line(e, l)
    OBVIOUS
  <2>6. m.dev = e /\ m.kern = l
    BY <2>5, LineParts
  <2>7. Shaped(m) /\ Tells(m) /\ SameBytes(s, m)
    BY <2>3, <2>4, <2>5, <2>6 DEF Shaped, Tells, SameBytes
  <2>8. o = Outputs(m)
    BY <2>1, <2>5
  <2>9. /\ Shaped(o) /\ Tells(o) /\ SameBytes(m, o) /\ o.kern.there = m.kern.there
        /\ o.dev.lineKnown = m.dev.lineKnown /\ o.dev.line = m.dev.line
        /\ m.dev.lineKnown /\ m.dev.line \in Shown => Obeys(o, m.dev.line)
    BY <2>7, <2>8, OutputsTell
  <2>. QED BY <2>3, <2>4, <2>6, <2>7, <2>9 DEF SameBytes
<1>. QED BY <1>1, <1>2

LEMMA ConfiguredTells ==
  ASSUME NEW s, Shaped(s), Tells(s), NEW line \in Shown, NEW o, o = Configured(s, line)
  PROVE  /\ Shaped(o) /\ Tells(o) /\ SameBytes(s, o) /\ o.kern.there = s.kern.there
         /\ o.dev.open = s.dev.open /\ o.dev.lineKnown /\ o.dev.line = line /\ Obeys(o, line)
<1>. DEFINE e == [s.dev EXCEPT !.lineKnown = TRUE, !.line = line]
<1>1. DOMAIN s.dev = DeviceFields
  BY DEF Shaped
<1>2. /\ DOMAIN e = DeviceFields /\ e.kind = s.dev.kind /\ e.open = s.dev.open /\ e.applied = s.dev.applied
      /\ e.out = s.dev.out /\ e.hasModem = s.dev.hasModem /\ e.lineKnown /\ e.line = line
      /\ e.receive = s.dev.receive /\ e.transmit = s.dev.transmit
  BY <1>1 DEF DeviceFields
<1>3. o = Outputs(Line(e, s.kern))
  BY DEF Configured
<1>. HIDE DEF e
<1>4. PICK m : m = Line(e, s.kern)
  OBVIOUS
<1>5. m.dev = e /\ m.kern = s.kern
  BY <1>4, LineParts
<1>6. Shaped(m) /\ Tells(m) /\ SameBytes(s, m)
  BY <1>2, <1>4, <1>5 DEF Shaped, Tells, SameBytes
<1>7. o = Outputs(m)
  BY <1>3, <1>4
<1>8. /\ Shaped(o) /\ Tells(o) /\ SameBytes(m, o) /\ o.kern.there = m.kern.there
      /\ o.dev.open = m.dev.open
      /\ o.dev.lineKnown = m.dev.lineKnown /\ o.dev.line = m.dev.line
      /\ m.dev.lineKnown /\ m.dev.line \in Shown => Obeys(o, m.dev.line)
  BY <1>6, <1>7, OutputsTell
<1>. QED BY <1>2, <1>5, <1>6, <1>8 DEF SameBytes

LEMMA AttachedTells ==
  ASSUME NEW s, Shaped(s), Tells(s), ssc.line \in Shown,
         slotOpen => s.dev.lineKnown /\ s.dev.line = ssc.line /\ Obeys(s, ssc.line),
         NEW o, o = Attached(s)
  PROVE  /\ Shaped(o) /\ Tells(o) /\ SameBytes(s, o) /\ o.kern.there = s.kern.there
         /\ o.dev.lineKnown /\ o.dev.line = ssc.line /\ Obeys(o, ssc.line)
<1>1. CASE slotOpen
  BY <1>1 DEF Attached, SameBytes
<1>2. CASE ~ slotOpen
  <2>. DEFINE e == [s.dev EXCEPT !.retry = 0]
              m == IF s.dev.kind \in Paths /\ ~ s.dev.open THEN Opened(Line(e, s.kern)) ELSE s
  <2>1. o = Configured(m, ssc.line)
    BY <1>2 DEF Attached
  <2>2. Shaped(m) /\ Tells(m) /\ SameBytes(s, m) /\ m.kern.there = s.kern.there
    <3>1. CASE s.dev.kind \in Paths /\ ~ s.dev.open
      <4>1. DOMAIN s.dev = DeviceFields
        BY DEF Shaped
      <4>2. /\ DOMAIN e = DeviceFields /\ e.kind = s.dev.kind /\ e.open = s.dev.open
            /\ e.hasModem = s.dev.hasModem /\ e.applied = s.dev.applied /\ e.out = s.dev.out
            /\ e.receive = s.dev.receive /\ e.transmit = s.dev.transmit
        BY <4>1 DEF DeviceFields
      <4>3. m = Opened(Line(e, s.kern))
        BY <3>1
      <4>. HIDE DEF e, m
      <4>4. PICK c : c = Line(e, s.kern)
        OBVIOUS
      <4>5. c.dev = e /\ c.kern = s.kern
        BY <4>4, LineParts
      <4>6. Shaped(c) /\ SameBytes(s, c) /\ ~ c.dev.open
        BY <3>1, <4>2, <4>4, <4>5 DEF Shaped, SameBytes
      <4>7. m = Opened(c)
        BY <4>3, <4>4
      <4>8. Shaped(m) /\ Tells(m) /\ SameBytes(c, m) /\ m.kern.there = c.kern.there
        BY <4>6, <4>7, OpenedTells
      <4>. QED BY <4>5, <4>6, <4>8 DEF SameBytes
    <3>2. CASE ~ (s.dev.kind \in Paths /\ ~ s.dev.open)
      BY <3>2 DEF SameBytes
    <3>. QED BY <3>1, <3>2
  <2>. HIDE DEF m
  <2>3. /\ Shaped(o) /\ Tells(o) /\ SameBytes(m, o) /\ o.kern.there = m.kern.there
        /\ o.dev.lineKnown /\ o.dev.line = ssc.line /\ Obeys(o, ssc.line)
    BY <2>1, <2>2, ConfiguredTells
  <2>. QED BY <2>2, <2>3 DEF SameBytes
<1>. QED BY <1>1, <1>2

\* What the card hands over is handed on, parked behind what waits, or lost to an outage.
Lost(s, byte) == IF ~ (s.dev.open /\ (s.dev.kind \in Paths => s.kern.there)) THEN {byte} ELSE {}

LEMMA WriteGoes ==
  ASSUME NEW s, Shaped(s), Tells(s), NEW byte \in Nat \ {0}, NEW gone, NEW n, NEW line,
         Goes(s, byte, gone, n), Comes(s), Obeys(s, line),
         s.dev.open => Len(s.dev.transmit) < TransmitSize,
         NEW o, o = SinkWrite(s, byte)
  PROVE  /\ Shaped(o) /\ Tells(o) /\ Obeys(o, line) /\ Comes(o)
         /\ Goes(o, 0, gone \cup Lost(s, byte), n)
         /\ o.dev.lineKnown = s.dev.lineKnown /\ o.dev.line = s.dev.line
<1>. DEFINE d == s.dev
            k == s.kern
            more == gone \cup Lost(s, byte)
            parked == [d EXCEPT !.transmit = Append(d.transmit, byte)]
            looped == [d EXCEPT !.receive = Append(d.receive, byte)]
            handed == [k EXCEPT !.queue = Append(k.queue, byte)]
<1>1. /\ DOMAIN d = DeviceFields /\ DOMAIN k = KernelFields /\ d.receive \in Seq(Nat)
      /\ d.transmit \in Seq(Nat) /\ k.queue \in Seq(Nat)
      /\ s = Line(d, k)
  BY DEF Shaped
<1>2. /\ Register(0) = <<>> /\ Register(byte) = <<byte>> /\ Content(<<byte>>) = {byte}
  BY RegisterIs, OneRises
<1>3. gone \subseteq more
  OBVIOUS
<1>4. ASSUME o = s, Lost(s, byte) = {byte} PROVE Goes(o, 0, more, n)
  <2>1. CASE d.kind = "loopback"
    <3>1. Chain(given, d.receive, d.transmit, <<>>, gone \cup {byte}, n)
      BY <1>2, <2>1, LastIsLost DEF Goes
    <3>. QED BY <1>2, <1>4, <2>1, <3>1 DEF Goes
  <2>2. CASE d.kind # "loopback"
    <3>1. Chain(peer.took, k.queue, d.transmit, <<>>, gone \cup {byte}, n)
      BY <1>2, <2>2, LastIsLost DEF Goes
    <3>. QED BY <1>2, <1>4, <2>2, <3>1 DEF Goes
  <2>. QED BY <2>1, <2>2
<1>5. CASE ~ d.open
  <2>1. o = s /\ Lost(s, byte) = {byte}
    BY <1>5 DEF SinkWrite, Lost
  <2>. QED BY <1>4, <2>1
<1>6. CASE d.open /\ o = Line(Parked(d, byte), k)
  <2>1. o = Line(parked, k)
    BY <1>6 DEF Parked
  <2>2. /\ DOMAIN parked = DeviceFields /\ parked.kind = d.kind /\ parked.open = d.open
        /\ parked.hasModem = d.hasModem /\ parked.applied = d.applied /\ parked.out = d.out
        /\ parked.lineKnown = d.lineKnown /\ parked.line = d.line
        /\ parked.receive = d.receive /\ parked.transmit = Append(d.transmit, byte)
    BY <1>1 DEF DeviceFields
  <2>3. Append(d.transmit, byte) \in Seq(Nat) /\ Append(d.transmit, byte) = d.transmit \o <<byte>>
    BY <1>1, AppendJoins
  <2>. HIDE DEF parked
  <2>4. o.dev = parked /\ o.kern = k
    BY <2>1, LineParts
  <2>5. Shaped(o) /\ Tells(o) /\ Obeys(o, line) /\ Comes(o)
    BY <2>1, <2>2, <2>3, <2>4 DEF Shaped, Tells, Obeys, Comes
  <2>6. Goes(o, 0, more, n)
    <3>1. CASE d.kind = "loopback"
      <4>1. Chain(given, d.receive, d.transmit \o <<byte>>, <<>>, gone, n)
        BY <1>2, <3>1, LastMoves DEF Goes
      <4>2. Chain(given, d.receive, d.transmit \o <<byte>>, <<>>, more, n)
        BY <1>3, <4>1, MoreAreLost
      <4>. QED BY <1>2, <2>2, <2>3, <2>4, <3>1, <4>2 DEF Goes
    <3>2. CASE d.kind # "loopback"
      <4>1. Chain(peer.took, k.queue, d.transmit \o <<byte>>, <<>>, gone, n)
        BY <1>2, <3>2, LastMoves DEF Goes
      <4>2. Chain(peer.took, k.queue, d.transmit \o <<byte>>, <<>>, more, n)
        BY <1>3, <4>1, MoreAreLost
      <4>. QED BY <1>2, <2>2, <2>3, <2>4, <3>2, <4>2 DEF Goes
    <3>. QED BY <3>1, <3>2
  <2>. QED BY <2>2, <2>4, <2>5, <2>6
<1>7. CASE /\ d.open /\ d.transmit = <<>> /\ d.kind = "loopback" /\ Len(d.receive) < ReceiveSize
           /\ o = Line(looped, k)
  <2>1. /\ DOMAIN looped = DeviceFields /\ looped.kind = d.kind /\ looped.open = d.open
        /\ looped.hasModem = d.hasModem /\ looped.applied = d.applied /\ looped.out = d.out
        /\ looped.lineKnown = d.lineKnown /\ looped.line = d.line
        /\ looped.receive = Append(d.receive, byte) /\ looped.transmit = d.transmit
    BY <1>1 DEF DeviceFields
  <2>2. /\ Append(d.receive, byte) \in Seq(Nat) /\ Append(d.receive, byte) = d.receive \o <<byte>>
        /\ Len(Append(d.receive, byte)) <= ReceiveSize
    <3>1. Append(d.receive, byte) \in Seq(Nat) /\ Append(d.receive, byte) = d.receive \o <<byte>>
      BY <1>1, AppendJoins
    <3>2. Len(Append(d.receive, byte)) = Len(d.receive) + 1 /\ Len(d.receive) \in Nat
      BY <1>1, AppendProperties, LenProperties
    <3>. QED BY <1>7, <3>1, <3>2, SerialFarEndAssumption
  <2>. HIDE DEF looped
  <2>3. o.dev = looped /\ o.kern = k
    BY <1>7, LineParts
  <2>4. ~ d.hasModem
    BY <1>7 DEF Shaped
  <2>5. Shaped(o) /\ Tells(o) /\ Obeys(o, line) /\ Comes(o)
    BY <1>7, <2>1, <2>2, <2>3, <2>4 DEF Shaped, Tells, Obeys, Comes
  <2>6. Goes(o, 0, more, n)
    <3>1. Chain(given, d.receive, <<>>, <<byte>>, gone, n)
      BY <1>2, <1>7 DEF Goes
    <3>2. Chain(given, d.receive \o <<byte>>, <<>>, <<>>, gone, n)
      BY <3>1, LastOvertakesNone
    <3>3. Chain(given, d.receive \o <<byte>>, <<>>, <<>>, more, n)
      BY <1>3, <3>2, MoreAreLost
    <3>. QED BY <1>2, <1>7, <2>1, <2>2, <2>3, <3>3 DEF Goes
  <2>. QED BY <2>1, <2>3, <2>5, <2>6
<1>8. CASE /\ d.open /\ d.transmit = <<>> /\ d.kind # "loopback" /\ Takes(k, d)
           /\ o = Line(d, Handed(k, byte))
  <2>1. CASE ~ k.there
    <3>1. o = s
      BY <1>1, <1>8, <2>1 DEF Handed
    <3>2. d.kind \in Paths
      BY <2>1 DEF Shaped, Paths
    <3>3. Lost(s, byte) = {byte}
      BY <2>1, <3>2 DEF Lost
    <3>. QED BY <1>4, <3>1, <3>3
  <2>2. CASE k.there
    <3>1. o = Line(d, handed)
      BY <1>8, <2>2 DEF Handed
    <3>2. /\ DOMAIN handed = KernelFields /\ handed.there = k.there /\ handed.shown = k.shown
          /\ handed.queue = Append(k.queue, byte) /\ handed.arriving = k.arriving
      BY <1>1 DEF KernelFields
    <3>3. /\ Append(k.queue, byte) \in Seq(Nat) /\ Append(k.queue, byte) = k.queue \o <<byte>>
          /\ d.kind = "file" \/ Len(Append(k.queue, byte)) <= KernelRoom
      <4>1. Append(k.queue, byte) \in Seq(Nat) /\ Append(k.queue, byte) = k.queue \o <<byte>>
        BY <1>1, AppendJoins
      <4>2. Len(Append(k.queue, byte)) = Len(k.queue) + 1 /\ Len(k.queue) \in Nat
        BY <1>1, AppendProperties, LenProperties
      <4>3. d.kind = "file" \/ Len(k.queue) < KernelRoom
        BY <1>8, <2>2 DEF Takes
      <4>. QED BY <4>1, <4>2, <4>3, SerialFarEndAssumption
    <3>. HIDE DEF handed
    <3>4. o.dev = d /\ o.kern = handed
      BY <3>1, LineParts
    <3>5. Shaped(o) /\ Tells(o) /\ Obeys(o, line) /\ Comes(o)
      BY <1>8, <3>1, <3>2, <3>3, <3>4 DEF Shaped, Tells, Obeys, Comes
    <3>6. Goes(o, 0, more, n)
      <4>1. Chain(peer.took, k.queue, <<>>, <<byte>>, gone, n)
        BY <1>2, <1>8 DEF Goes
      <4>2. Chain(peer.took, k.queue \o <<byte>>, <<>>, <<>>, gone, n)
        BY <4>1, LastOvertakesNone
      <4>3. Chain(peer.took, k.queue \o <<byte>>, <<>>, <<>>, more, n)
        BY <1>3, <4>2, MoreAreLost
      <4>. QED BY <1>2, <1>8, <3>2, <3>3, <3>4, <4>3 DEF Goes
    <3>. QED BY <3>4, <3>5, <3>6
  <2>. QED BY <2>1, <2>2
<1>. QED BY <1>5, <1>6, <1>7, <1>8 DEF SinkWrite

LEMMA DrainGoes ==
  ASSUME NEW s, Shaped(s), Tells(s), NEW byte, NEW gone, NEW n, NEW line,
         Goes(s, byte, gone, n), Comes(s), Obeys(s, line),
         s.dev.open /\ s.dev.kind \in Paths /\ ~ s.kern.there => Content(s.dev.transmit) \subseteq gone,
         NEW o, o = RingDrained(s)
  PROVE  /\ Shaped(o) /\ Tells(o) /\ Obeys(o, line) /\ Comes(o) /\ Goes(o, byte, gone, n)
         /\ o.dev.kind = s.dev.kind /\ o.dev.open = s.dev.open /\ o.kern.there = s.kern.there
         /\ o.dev.lineKnown = s.dev.lineKnown /\ o.dev.line = s.dev.line
         /\ Len(o.dev.transmit) <= Len(s.dev.transmit)
<1>. DEFINE d == s.dev
            k == s.kern
            room == IF d.kind = "loopback" THEN ReceiveSize - Len(d.receive)
                    ELSE IF ~ k.there \/ d.kind = "file" THEN Len(d.transmit) ELSE KernelRoom - Len(k.queue)
            m == IF room < Len(d.transmit) THEN room ELSE Len(d.transmit)
            head == SubSeq(d.transmit, 1, m)
            tail == SubSeq(d.transmit, m + 1, Len(d.transmit))
            rest == [d EXCEPT !.transmit = tail]
            looped == [rest EXCEPT !.receive = @ \o head]
            handed == [k EXCEPT !.queue = @ \o head]
<1>1. /\ DOMAIN d = DeviceFields /\ DOMAIN k = KernelFields /\ d.receive \in Seq(Nat)
      /\ d.transmit \in Seq(Nat) /\ k.queue \in Seq(Nat)
      /\ s = Line(d, k)
  BY DEF Shaped
<1>2. Len(d.receive) \in Nat /\ Len(d.transmit) \in Nat /\ Len(k.queue) \in Nat
  BY <1>1, LenProperties
<1>3. /\ m \in 0 .. Len(d.transmit) /\ m <= room /\ room \in Nat
      /\ ~ k.there => m = Len(d.transmit) \/ d.kind = "loopback"
  <2>1. /\ Len(d.receive) <= ReceiveSize /\ (d.kind \in {"loopback", "file"} \/ Len(k.queue) <= KernelRoom)
        /\ ReceiveSize \in Nat /\ KernelRoom \in Nat
    BY SerialFarEndAssumption DEF Shaped
  <2>2. room \in Nat
    BY <1>2, <2>1
  <2>3. ~ k.there => room = Len(d.transmit) \/ d.kind = "loopback"
    OBVIOUS
  <2>. HIDE DEF room
  <2>4. m \in 0 .. Len(d.transmit) /\ m <= room /\ (room = Len(d.transmit) => m = Len(d.transmit))
    BY <1>2, <2>2
  <2>. QED BY <2>2, <2>3, <2>4
<1>. HIDE DEF room, m
<1>4. /\ head \in Seq(Nat) /\ tail \in Seq(Nat) /\ head \o tail = d.transmit
      /\ Len(head) = m /\ Len(tail) = Len(d.transmit) - m
  <2>1. head \in Seq(Nat) /\ tail \in Seq(Nat) /\ head \o tail = d.transmit
    BY <1>1, <1>3, CutJoins
  <2>2. Len(head \o tail) = Len(head) + Len(tail) /\ Len(head) \in Nat /\ Len(tail) \in Nat
    BY <2>1, ConcatProperties, LenProperties
  <2>3. Len(head) = m
    <3>1. \A i \in 1 .. m : d.transmit[i] \in Nat
      BY <1>1, <1>2, <1>3, ElementOfSeq
    <3>. QED BY <1>3, <3>1, SubSeqProperties
  <2>. HIDE DEF head, tail
  <2>4. Len(head) + Len(tail) = Len(d.transmit)
    BY <2>1, <2>2
  <2>. QED BY <1>2, <1>3, <2>1, <2>2, <2>3, <2>4
<1>5. CASE ~ d.open
  BY <1>1, <1>2, <1>5 DEF RingDrained
<1>6. /\ DOMAIN rest = DeviceFields /\ rest.kind = d.kind /\ rest.open = d.open
      /\ rest.hasModem = d.hasModem /\ rest.applied = d.applied /\ rest.out = d.out
      /\ rest.lineKnown = d.lineKnown /\ rest.line = d.line
      /\ rest.receive = d.receive /\ rest.transmit = tail
  BY <1>1 DEF DeviceFields
<1>. HIDE DEF head, tail
<1>7. ASSUME d.open, d.kind = "loopback", o = Line(looped, k) PROVE
        /\ Shaped(o) /\ Tells(o) /\ Obeys(o, line) /\ Comes(o) /\ Goes(o, byte, gone, n)
        /\ o.dev.kind = s.dev.kind /\ o.dev.open = s.dev.open /\ o.kern.there = s.kern.there
        /\ o.dev.lineKnown = s.dev.lineKnown /\ o.dev.line = s.dev.line
        /\ Len(o.dev.transmit) <= Len(s.dev.transmit)
  <2>1. /\ DOMAIN looped = DeviceFields /\ looped.kind = d.kind /\ looped.open = d.open
        /\ looped.hasModem = d.hasModem /\ looped.applied = d.applied /\ looped.out = d.out
        /\ looped.lineKnown = d.lineKnown /\ looped.line = d.line
        /\ looped.receive = d.receive \o head /\ looped.transmit = tail
    <3>. HIDE DEF rest
    <3>. QED BY <1>6 DEF DeviceFields
  <2>2. d.receive \o head \in Seq(Nat) /\ Len(d.receive \o head) <= ReceiveSize
    <3>1. d.receive \o head \in Seq(Nat) /\ Len(d.receive \o head) = Len(d.receive) + Len(head)
      BY <1>1, <1>4, ConcatProperties
    <3>2. Len(d.receive) + m <= ReceiveSize
      BY <1>2, <1>3, <1>7, SerialFarEndAssumption DEF room
    <3>. QED BY <1>4, <3>1, <3>2
  <2>. HIDE DEF looped
  <2>3. o.dev = looped /\ o.kern = k
    BY <1>7, LineParts
  <2>4. ~ d.hasModem
    BY <1>7 DEF Shaped
  <2>5. Shaped(o) /\ Tells(o) /\ Obeys(o, line) /\ Comes(o)
    BY <1>4, <1>7, <2>1, <2>2, <2>3, <2>4 DEF Shaped, Tells, Obeys, Comes
  <2>6. Goes(o, byte, gone, n)
    <3>1. Chain(given, d.receive, head \o tail, Register(byte), gone, n)
      BY <1>4, <1>7 DEF Goes
    <3>2. Chain(given, d.receive \o head, tail, Register(byte), gone, n)
      BY <1>4, <3>1, SecondMoves
    <3>. QED BY <1>7, <2>1, <2>3, <3>2 DEF Goes
  <2>. QED BY <1>2, <1>3, <1>4, <2>1, <2>3, <2>5, <2>6
<1>8. ASSUME d.open, d.kind # "loopback", k.there, o = Line(rest, handed) PROVE
        /\ Shaped(o) /\ Tells(o) /\ Obeys(o, line) /\ Comes(o) /\ Goes(o, byte, gone, n)
        /\ o.dev.kind = s.dev.kind /\ o.dev.open = s.dev.open /\ o.kern.there = s.kern.there
        /\ o.dev.lineKnown = s.dev.lineKnown /\ o.dev.line = s.dev.line
        /\ Len(o.dev.transmit) <= Len(s.dev.transmit)
  <2>1. /\ DOMAIN handed = KernelFields /\ handed.there = k.there /\ handed.shown = k.shown
        /\ handed.queue = k.queue \o head /\ handed.arriving = k.arriving
    BY <1>1 DEF KernelFields
  <2>2. k.queue \o head \in Seq(Nat) /\ (d.kind = "file" \/ Len(k.queue \o head) <= KernelRoom)
    <3>1. k.queue \o head \in Seq(Nat) /\ Len(k.queue \o head) = Len(k.queue) + Len(head)
      BY <1>1, <1>4, ConcatProperties
    <3>2. d.kind = "file" \/ Len(k.queue) + m <= KernelRoom
      BY <1>2, <1>3, <1>8, SerialFarEndAssumption DEF room
    <3>. QED BY <1>4, <3>1, <3>2
  <2>. HIDE DEF handed, rest
  <2>3. o.dev = rest /\ o.kern = handed
    BY <1>8, LineParts
  <2>4. Shaped(o) /\ Tells(o) /\ Obeys(o, line) /\ Comes(o)
    BY <1>4, <1>6, <1>8, <2>1, <2>2, <2>3 DEF Shaped, Tells, Obeys, Comes
  <2>5. Goes(o, byte, gone, n)
    <3>1. Chain(peer.took, k.queue, head \o tail, Register(byte), gone, n)
      BY <1>4, <1>8 DEF Goes
    <3>2. Chain(peer.took, k.queue \o head, tail, Register(byte), gone, n)
      BY <1>4, <3>1, SecondMoves
    <3>. QED BY <1>6, <1>8, <2>1, <2>3, <3>2 DEF Goes
  <2>. QED BY <1>2, <1>3, <1>4, <1>6, <2>1, <2>3, <2>4, <2>5
<1>9. ASSUME d.open, d.kind # "loopback", ~ k.there, o = Line(rest, k) PROVE
        /\ Shaped(o) /\ Tells(o) /\ Obeys(o, line) /\ Comes(o) /\ Goes(o, byte, gone, n)
        /\ o.dev.kind = s.dev.kind /\ o.dev.open = s.dev.open /\ o.kern.there = s.kern.there
        /\ o.dev.lineKnown = s.dev.lineKnown /\ o.dev.line = s.dev.line
        /\ Len(o.dev.transmit) <= Len(s.dev.transmit)
  <2>. HIDE DEF rest
  <2>1. o.dev = rest /\ o.kern = k
    BY <1>9, LineParts
  <2>2. Shaped(o) /\ Tells(o) /\ Obeys(o, line) /\ Comes(o)
    BY <1>4, <1>6, <1>9, <2>1 DEF Shaped, Tells, Obeys, Comes
  <2>3. tail = <<>>
    BY <1>2, <1>3, <1>4, <1>9, EmptySeq
  <2>4. Content(d.transmit) \subseteq gone
    BY <1>9 DEF Shaped, Paths
  <2>5. Goes(o, byte, gone, n)
    <3>1. Chain(peer.took, k.queue, d.transmit, Register(byte), gone, n)
      BY <1>9 DEF Goes
    <3>2. Chain(peer.took, k.queue, <<>>, Register(byte), gone \cup Content(d.transmit), n)
      BY <3>1, ThirdIsLost
    <3>3. Chain(peer.took, k.queue, <<>>, Register(byte), gone, n)
      BY <2>4, <3>2, MoreAreLost
    <3>. QED BY <1>6, <1>9, <2>1, <2>3, <3>3 DEF Goes
  <2>. QED BY <1>2, <1>3, <1>4, <1>6, <2>1, <2>2, <2>5
<1>10. CASE d.open
  <2>1. o = IF d.kind = "loopback" THEN Line(looped, k) ELSE Line(rest, IF k.there THEN handed ELSE k)
    BY <1>10 DEF RingDrained, room, m, head, tail
  <2>. QED BY <1>7, <1>8, <1>9, <1>10, <2>1
<1>. QED BY <1>5, <1>10

LEMMA PollComes ==
  ASSUME NEW s, Shaped(s), Tells(s), NEW byte, NEW gone, NEW n,
         Goes(s, byte, gone, n), Comes(s), NEW o, o = Polled(s)
  PROVE  /\ Shaped(o) /\ Tells(o) /\ Comes(o) /\ Goes(o, byte, gone, n)
         /\ o.dev.lineKnown = s.dev.lineKnown /\ o.dev.line = s.dev.line
         /\ o.dev.transmit = s.dev.transmit
<1>. DEFINE d == s.dev
            k == s.kern
            room == ReceiveSize - Len(d.receive)
            want == IF room < ReadChunk THEN room ELSE ReadChunk
            m == IF want < Len(k.arriving) THEN want ELSE Len(k.arriving)
            head == SubSeq(k.arriving, 1, m)
            tail == SubSeq(k.arriving, m + 1, Len(k.arriving))
            shut == [d EXCEPT !.open = FALSE, !.retry = 0]
            fed == [d EXCEPT !.receive = @ \o head]
            read == [k EXCEPT !.arriving = tail]
<1>1. /\ DOMAIN d = DeviceFields /\ DOMAIN k = KernelFields /\ d.receive \in Seq(Nat)
      /\ k.arriving \in Seq(Nat)
      /\ s = Line(d, k)
  BY DEF Shaped
<1>2. Len(d.receive) \in Nat /\ Len(k.arriving) \in Nat
  BY <1>1, LenProperties
<1>3. m \in 0 .. Len(k.arriving) /\ m <= room /\ Len(d.receive) + m <= ReceiveSize
  <2>1. Len(d.receive) <= ReceiveSize /\ ReceiveSize \in Nat /\ ReadChunk \in Nat
    BY SerialFarEndAssumption DEF Shaped
  <2>2. room \in Nat /\ Len(d.receive) + room = ReceiveSize
    BY <1>2, <2>1
  <2>. HIDE DEF room
  <2>3. want \in Nat /\ want <= room
    BY <2>1, <2>2
  <2>. HIDE DEF want
  <2>4. m \in 0 .. Len(k.arriving) /\ m <= want
    BY <1>2, <2>3
  <2>. HIDE DEF m
  <2>. QED BY <1>2, <2>1, <2>2, <2>3, <2>4
<1>. HIDE DEF room, want, m
<1>4. /\ head \in Seq(Nat) /\ tail \in Seq(Nat) /\ head \o tail = k.arriving /\ Len(head) = m
  <2>1. head \in Seq(Nat) /\ tail \in Seq(Nat) /\ head \o tail = k.arriving
    BY <1>1, <1>3, CutJoins
  <2>2. Len(head) = m
    <3>1. \A i \in 1 .. m : k.arriving[i] \in Nat
      BY <1>1, <1>2, <1>3, ElementOfSeq
    <3>. QED BY <1>3, <3>1, SubSeqProperties
  <2>. QED BY <2>1, <2>2
<1>5. CASE o = s
  BY <1>5
<1>6. CASE o = Line(shut, k)
  <2>1. /\ DOMAIN shut = DeviceFields /\ shut.kind = d.kind /\ ~ shut.open
        /\ shut.hasModem = d.hasModem /\ shut.lineKnown = d.lineKnown /\ shut.line = d.line
        /\ shut.receive = d.receive /\ shut.transmit = d.transmit
    BY <1>1 DEF DeviceFields
  <2>. HIDE DEF shut
  <2>2. o.dev = shut /\ o.kern = k
    BY <1>6, LineParts
  <2>3. Shaped(o) /\ Tells(o)
    BY <1>6, <2>1, <2>2 DEF Shaped, Tells
  <2>4. Comes(o) /\ Goes(o, byte, gone, n)
    BY <2>1, <2>2 DEF Comes, Goes
  <2>. QED BY <2>1, <2>2, <2>3, <2>4
<1>7. CASE d.kind # "loopback" /\ o = Line(fed, read)
  <2>1. /\ DOMAIN fed = DeviceFields /\ fed.kind = d.kind /\ fed.open = d.open
        /\ fed.hasModem = d.hasModem /\ fed.applied = d.applied /\ fed.out = d.out
        /\ fed.lineKnown = d.lineKnown /\ fed.line = d.line
        /\ fed.receive = d.receive \o head /\ fed.transmit = d.transmit
    BY <1>1 DEF DeviceFields
  <2>2. /\ DOMAIN read = KernelFields /\ read.there = k.there /\ read.shown = k.shown
        /\ read.queue = k.queue /\ read.arriving = tail
    BY <1>1 DEF KernelFields
  <2>. HIDE DEF fed, read, head, tail
  <2>3. d.receive \o head \in Seq(Nat) /\ Len(d.receive \o head) <= ReceiveSize
    <3>1. d.receive \o head \in Seq(Nat) /\ Len(d.receive \o head) = Len(d.receive) + Len(head)
      BY <1>1, <1>4, ConcatProperties
    <3>. QED BY <1>3, <1>4, <3>1
  <2>4. o.dev = fed /\ o.kern = read
    BY <1>7, LineParts
  <2>5. Shaped(o) /\ Tells(o)
    BY <1>4, <1>7, <2>1, <2>2, <2>3, <2>4 DEF Shaped, Tells
  <2>6. Goes(o, byte, gone, n)
    BY <1>7, <2>1, <2>2, <2>4 DEF Goes
  <2>7. Comes(o)
    <3>1. Chain(given, d.receive, head \o tail, <<>>, excused.in, peer.sent + 1)
      BY <1>4, <1>7 DEF Comes
    <3>2. Chain(given, d.receive \o head, tail, <<>>, excused.in, peer.sent + 1)
      BY <1>4, <3>1, SecondMoves
    <3>. QED BY <2>1, <2>2, <2>4, <3>2 DEF Comes
  <2>. QED BY <2>1, <2>4, <2>5, <2>6, <2>7
<1>. QED BY <1>5, <1>6, <1>7 DEF Polled, room, want, m

LEMMA RefreshedPasses ==
  ASSUME NEW s, Shaped(s), Tells(s), NEW o, o = Refreshed(s)
  PROVE  /\ Shaped(o) /\ Tells(o) /\ SameBytes(s, o)
         /\ o.dev.lineKnown = s.dev.lineKnown /\ o.dev.line = s.dev.line
<1>. DEFINE e == [s.dev EXCEPT !.hasModem = s.kern.there, !.inputs = s.kern.there => s.kern.cts]
<1>1. CASE ~ (s.dev.open /\ s.dev.hasModem)
  BY <1>1 DEF Refreshed, SameBytes
<1>2. CASE s.dev.open /\ s.dev.hasModem
  <2>1. o = Line(e, s.kern)
    BY <1>2 DEF Refreshed
  <2>2. DOMAIN s.dev = DeviceFields
    BY DEF Shaped
  <2>3. /\ DOMAIN e = DeviceFields /\ e.kind = s.dev.kind /\ e.open = s.dev.open
        /\ e.applied = s.dev.applied /\ e.out = s.dev.out
        /\ e.lineKnown = s.dev.lineKnown /\ e.line = s.dev.line
        /\ e.receive = s.dev.receive /\ e.transmit = s.dev.transmit
    BY <2>2 DEF DeviceFields
  <2>. HIDE DEF e
  <2>4. o.dev = e /\ o.kern = s.kern
    BY <2>1, LineParts
  <2>5. s.dev.kind = "modem"
    BY <1>2 DEF Shaped
  <2>6. Shaped(o) /\ Tells(o) /\ SameBytes(s, o)
    BY <1>2, <2>1, <2>3, <2>4, <2>5 DEF Shaped, Tells, SameBytes
  <2>. QED BY <2>3, <2>4, <2>6
<1>. QED BY <1>1, <1>2

LEMMA TickedGoes ==
  ASSUME NEW s, Shaped(s), Tells(s), NEW byte, NEW gone, NEW n,
         Goes(s, byte, gone, n), Comes(s), s.dev.lineKnown, s.dev.line \in Shown, Obeys(s, s.dev.line),
         s.dev.open /\ s.dev.kind \in Paths /\ ~ s.kern.there => Content(s.dev.transmit) \subseteq gone,
         NEW o, o = Ticked(s)
  PROVE  /\ Shaped(o) /\ Tells(o) /\ Obeys(o, s.dev.line) /\ Comes(o) /\ Goes(o, byte, gone, n)
         /\ o.dev.lineKnown /\ o.dev.line = s.dev.line
         /\ Len(o.dev.transmit) <= Len(s.dev.transmit)
<1>. DEFINE d == s.dev
<1>1. DOMAIN d = DeviceFields /\ d.transmit \in Seq(Nat) /\ Len(d.transmit) <= Len(d.transmit)
  BY LenProperties DEF Shaped
<1>2. ASSUME NEW retry, ~ d.open
      PROVE  LET e == [d EXCEPT !.retry = retry]
             IN  \A c : c = Line(e, s.kern) =>
                   /\ Shaped(c) /\ SameBytes(s, c) /\ ~ c.dev.open /\ Tells(c) /\ Obeys(c, d.line)
                   /\ c.dev.lineKnown /\ c.dev.line = d.line
  <2>. DEFINE e == [d EXCEPT !.retry = retry]
  <2>1. /\ DOMAIN e = DeviceFields /\ e.kind = d.kind /\ ~ e.open /\ e.hasModem = d.hasModem
        /\ e.lineKnown /\ e.line = d.line
        /\ e.receive = d.receive /\ e.transmit = d.transmit
    BY <1>1, <1>2 DEF DeviceFields
  <2>. HIDE DEF e
  <2>2. ASSUME NEW c, c = Line(e, s.kern)
        PROVE  /\ Shaped(c) /\ SameBytes(s, c) /\ ~ c.dev.open /\ Tells(c) /\ Obeys(c, d.line)
               /\ c.dev.lineKnown /\ c.dev.line = d.line
    <3>1. c.dev = e /\ c.kern = s.kern
      BY <2>2, LineParts
    <3>. QED BY <2>1, <2>2, <3>1 DEF Shaped, SameBytes, Tells, Obeys
  <2>. QED BY <2>2 DEF e
<1>3. CASE d.kind \in Paths /\ ~ d.open /\ d.retry + 1 >= RetryTicks
  <2>1. PICK c : c = Line([d EXCEPT !.retry = 0], s.kern)
    OBVIOUS
  <2>2. o = Opened(c)
    BY <1>3, <2>1 DEF Ticked
  <2>3. /\ Shaped(c) /\ SameBytes(s, c) /\ ~ c.dev.open
        /\ c.dev.lineKnown /\ c.dev.line = d.line
    BY <1>2, <1>3, <2>1
  <2>4. /\ Shaped(o) /\ Tells(o) /\ SameBytes(c, o)
        /\ o.dev.lineKnown = c.dev.lineKnown /\ o.dev.line = c.dev.line
        /\ c.dev.lineKnown /\ c.dev.line \in Shown => Obeys(o, c.dev.line)
    BY <2>2, <2>3, OpenedTells
  <2>5. SameBytes(s, o)
    BY <2>3, <2>4 DEF SameBytes
  <2>6. Comes(o) /\ Goes(o, byte, gone, n)
    BY <2>5, SameBytesPass
  <2>. QED BY <1>1, <2>3, <2>4, <2>5, <2>6 DEF SameBytes
<1>4. CASE d.kind \in Paths /\ ~ d.open /\ ~ (d.retry + 1 >= RetryTicks)
  <2>1. o = Line([d EXCEPT !.retry = d.retry + 1], s.kern)
    BY <1>4 DEF Ticked
  <2>2. /\ Shaped(o) /\ SameBytes(s, o) /\ Tells(o) /\ Obeys(o, d.line)
        /\ o.dev.lineKnown /\ o.dev.line = d.line
    BY <1>2, <1>4, <2>1
  <2>3. Comes(o) /\ Goes(o, byte, gone, n)
    BY <2>2, SameBytesPass
  <2>. QED BY <1>1, <2>2, <2>3 DEF SameBytes
<1>5. CASE ~ (d.kind \in Paths /\ ~ d.open)
  <2>1. PICK a : a = RingDrained(s)
    OBVIOUS
  <2>2. PICK b : b = Polled(a)
    OBVIOUS
  <2>3. PICK c : c = Refreshed(b)
    OBVIOUS
  <2>4. o = Outputs(c)
    BY <1>5, <2>1, <2>2, <2>3 DEF Ticked
  <2>5. /\ Shaped(a) /\ Tells(a) /\ Comes(a) /\ Goes(a, byte, gone, n)
        /\ a.dev.lineKnown = s.dev.lineKnown /\ a.dev.line = s.dev.line
        /\ Len(a.dev.transmit) <= Len(s.dev.transmit)
    <3>1. PICK line : line = s.dev.line
      OBVIOUS
    <3>2. Obeys(s, line)
      BY <3>1
    <3>. QED BY <2>1, <3>2, DrainGoes
  <2>6. /\ Shaped(b) /\ Tells(b) /\ Comes(b) /\ Goes(b, byte, gone, n)
        /\ b.dev.lineKnown = a.dev.lineKnown /\ b.dev.line = a.dev.line
        /\ b.dev.transmit = a.dev.transmit
    BY <2>2, <2>5, PollComes
  <2>7. /\ Shaped(c) /\ Tells(c) /\ SameBytes(b, c)
        /\ c.dev.lineKnown = b.dev.lineKnown /\ c.dev.line = b.dev.line
    BY <2>3, <2>6, RefreshedPasses
  <2>8. /\ Shaped(o) /\ Tells(o) /\ SameBytes(c, o)
        /\ o.dev.lineKnown = c.dev.lineKnown /\ o.dev.line = c.dev.line
        /\ c.dev.lineKnown /\ c.dev.line \in Shown => Obeys(o, c.dev.line)
    BY <2>4, <2>7, OutputsTell
  <2>9. SameBytes(b, o)
    BY <2>7, <2>8 DEF SameBytes
  <2>10. Comes(o) /\ Goes(o, byte, gone, n)
    BY <2>6, <2>9, SameBytesPass
  <2>. QED BY <2>5, <2>6, <2>7, <2>8, <2>9, <2>10 DEF SameBytes
<1>. QED BY <1>3, <1>4, <1>5

\* Taking the first of a place.
LEMMA PulledGoes ==
  ASSUME NEW A, NEW B, NEW C, NEW D, NEW gone, NEW n, Chain(A, B, C, D, gone, n), B # <<>>
  PROVE  /\ Chain(Append(A, Head(B)), Tail(B), C, D, gone, n)
         /\ Tail(B) \in Seq(Nat) /\ Len(Tail(B)) = Len(B) - 1
<1>1. A \in Seq(Nat) /\ B \in Seq(Nat)
  BY ChainTypes
<1>2. Head(B) \in Nat /\ Tail(B) \in Seq(Nat) /\ B = <<Head(B)>> \o Tail(B)
  BY <1>1, TailJoins
<1>3. <<Head(B)>> \in Seq(Nat) /\ Append(A, Head(B)) = A \o <<Head(B)>>
  BY <1>1, <1>2, OneRises, AppendJoins
<1>4. Chain(A, <<Head(B)>> \o Tail(B), C, D, gone, n)
  BY <1>2
<1>5. Chain(A \o <<Head(B)>>, Tail(B), C, D, gone, n)
  BY <1>2, <1>3, <1>4, FirstMoves
<1>6. Len(Tail(B)) = Len(B) - 1
  BY <1>1, HeadTailProperties
<1>. QED BY <1>2, <1>3, <1>5, <1>6

LEMMA CardEntryKeeps ==
  ASSUME SerialInv, NEW op, NEW ended \in BOOLEAN, CardEntry(op, ended)
  PROVE  SerialInv'
<1>. DEFINE here == Attached(Cable)
            sends == ssc.tdr # 0 /\ ssc.line.rts
            early == ended /\ sends /\ ssc.cts
            busy == ssc.busy /\ (~ ended \/ early)
            cts == Clear(here)
            late == ~ early /\ sends /\ ~ busy /\ cts
            leaves == early \/ late
            inTdr == IF leaves THEN 0 ELSE ssc.tdr
            onWire == busy \/ late
            written == op = "write"
            at_once == written /\ ~ onWire /\ cts /\ ssc.line.rts
            byte == IF leaves THEN ssc.tdr ELSE IF at_once THEN ssc.next ELSE 0
            after == IF byte # 0 THEN SinkWrite(here, byte) ELSE here
            full == ssc.full /\ op # "read"
            pulls == ~ full /\ ssc.line.dtr /\ after.dev.receive # <<>>
            tdr == IF written /\ ~ at_once THEN ssc.next ELSE inTdr
            next == IF written THEN ssc.next + 1 ELSE ssc.next
            lost == IF byte # 0 THEN Lost(here, byte) ELSE {}
<1>1. /\ written => ssc.tdr = 0
      /\ slotOpen' = TRUE
      /\ port' = IF pulls THEN [after.dev EXCEPT !.receive = Tail(@)] ELSE after.dev
      /\ kernel' = after.kern
      /\ given' = IF pulls THEN Append(given, Head(after.dev.receive)) ELSE given
      /\ excused' = IF byte # 0 /\ ~ (here.dev.open /\ (here.dev.kind \in Paths => here.kern.there))
                    THEN [excused EXCEPT !.out = @ \cup {byte}] ELSE excused
      /\ ssc' = [ssc EXCEPT !.cts = cts, !.busy = onWire \/ at_once, !.full = full \/ pulls,
                            !.tdr = tdr, !.next = IF written THEN @ + 1 ELSE @]
      /\ UNCHANGED <<peer, serialSteps>>
  BY DEF CardEntry, Cable
<1>. HIDE DEF here, cts, full, after, pulls
<1>2. /\ DOMAIN ssc = {"line", "cts", "tdr", "busy", "next", "full"} /\ ssc.tdr \in Nat /\ ssc.line \in Shown
      /\ DOMAIN peer = {"took", "sent"} /\ peer.sent \in Nat /\ DOMAIN excused = {"out", "in"}
      /\ ssc.tdr # 0 /\ ssc.cts => Len(port.transmit) < TransmitSize
  BY DEF SerialInv
<1>3. Cable.dev = port /\ Cable.kern = kernel
  BY LineParts DEF Cable
<1>4. /\ Shaped(here) /\ Tells(here) /\ SameBytes(Cable, here)
      /\ here.dev.lineKnown /\ here.dev.line = ssc.line /\ Obeys(here, ssc.line)
  <2>1. /\ Shaped(Cable) /\ Tells(Cable)
        /\ slotOpen => Cable.dev.lineKnown /\ Cable.dev.line = ssc.line /\ Obeys(Cable, ssc.line)
    BY <1>3 DEF SerialInv
  <2>2. PICK c : c = Cable
    OBVIOUS
  <2>3. here = Attached(c)
    BY <2>2 DEF here
  <2>. QED BY <1>2, <2>1, <2>2, <2>3, AttachedTells
<1>5. Goes(here, ssc.tdr, excused.out, ssc.next) /\ Comes(here)
  BY <1>4, SameBytesPass DEF SerialInv
<1>6. here.dev.transmit = port.transmit
  BY <1>3, <1>4 DEF SameBytes
<1>7. cts => Len(here.dev.transmit) < TransmitSize
  BY DEF cts, Clear
<1>8. ssc.next \in Nat \ {0}
  BY <1>5, ChainTypes DEF Goes
<1>9. /\ Shaped(after) /\ Tells(after) /\ Obeys(after, ssc.line) /\ Comes(after)
      /\ after.dev.lineKnown /\ after.dev.line = ssc.line
      /\ Goes(after, tdr, excused.out \cup lost, next)
      /\ tdr \in Nat /\ (tdr # 0 /\ cts => Len(after.dev.transmit) < TransmitSize)
  <2>1. Goes(here, ssc.next, excused.out, ssc.next + 1) \/ ssc.tdr # 0
    <3>. SUFFICES ASSUME ssc.tdr = 0 PROVE Goes(here, ssc.next, excused.out, ssc.next + 1)
      OBVIOUS
    <3>1. Register(ssc.tdr) = <<>> /\ Register(ssc.next) = <<ssc.next>>
      BY <1>8, RegisterIs
    <3>. QED BY <1>5, <3>1, NextStarts DEF Goes
  <2>2. CASE byte = 0
    <3>1. after = here
      BY <2>2 DEF after
    <3>2. ~ leaves /\ ~ at_once
      BY <1>8, <2>2
    <3>3. tdr = (IF written THEN ssc.next ELSE ssc.tdr) /\ lost = {}
      BY <2>2, <3>2
    <3>. HIDE DEF tdr, lost
    <3>4. Goes(here, tdr, excused.out, next)
      BY <1>1, <1>5, <2>1, <3>3
    <3>. QED BY <1>2, <1>4, <1>5, <1>7, <1>8, <3>1, <3>3, <3>4
  <2>3. CASE byte # 0
    <3>1. after = SinkWrite(here, byte) /\ lost = Lost(here, byte)
      BY <2>3 DEF after
    <3>2. leaves => ~ written
      BY <1>1
    <3>3. tdr = 0
      BY <2>3, <3>2
    <3>4. byte \in Nat \ {0}
      BY <1>2, <1>8, <2>3
    <3>5. Goes(here, byte, excused.out, next)
      BY <1>1, <1>5, <2>1, <2>3
    <3>6. here.dev.open => Len(here.dev.transmit) < TransmitSize
      BY <1>2, <1>6, <1>7, <2>3
    <3>. HIDE DEF byte, tdr, next, lost
    <3>7. PICK line : line = ssc.line
      OBVIOUS
    <3>8. PICK gone : gone = excused.out
      OBVIOUS
    <3>9. /\ Shaped(after) /\ Tells(after) /\ Obeys(after, line) /\ Comes(after)
          /\ Goes(after, 0, gone \cup Lost(here, byte), next)
          /\ after.dev.lineKnown = here.dev.lineKnown /\ after.dev.line = here.dev.line
      BY <1>4, <1>5, <3>1, <3>4, <3>5, <3>6, <3>7, <3>8, WriteGoes
    <3>. QED BY <1>4, <3>1, <3>3, <3>7, <3>8, <3>9
  <2>. QED BY <2>2, <2>3
<1>10. /\ DOMAIN excused' = {"out", "in"} /\ excused'.out = excused.out \cup lost
       /\ excused'.in = excused.in
  <2>. HIDE DEF byte
  <2>. QED BY <1>1, <1>2 DEF Lost
<1>. HIDE DEF sends, early, busy, late, leaves, inTdr, onWire, written, at_once, byte, tdr, lost
<1>11. /\ DOMAIN ssc' = {"line", "cts", "tdr", "busy", "next", "full"}
       /\ ssc'.line = ssc.line /\ ssc'.cts = cts /\ ssc'.tdr = tdr /\ ssc'.next = next
  BY <1>1, <1>2
<1>. HIDE DEF next
<1>12. /\ Shaped(Cable)' /\ Tells(Cable)' /\ Obeys(Cable, ssc.line)' /\ Comes(Cable)'
       /\ Goes(Cable, ssc.tdr, excused.out, ssc.next)'
       /\ port'.lineKnown /\ port'.line = ssc.line /\ port'.transmit = after.dev.transmit
  <2>1. PICK d : d = after.dev
    OBVIOUS
  <2>2. DOMAIN d = DeviceFields /\ d.receive \in Seq(Nat) /\ Len(d.receive) \in Nat
    BY <1>9, <2>1, LenProperties DEF Shaped
  <2>3. Cable' = Line(port', after.kern)
    BY <1>1 DEF Cable
  <2>4. Cable'.dev = port' /\ Cable'.kern = after.kern
    BY <2>3, LineParts
  <2>5. CASE ~ pulls
    <3>1. port' = d /\ given' = given /\ peer' = peer
      BY <1>1, <2>1, <2>5
    <3>2. Shaped(Cable)' /\ Tells(Cable)' /\ Obeys(Cable, ssc.line)'
      BY <1>9, <1>11, <2>1, <2>3, <2>4, <3>1 DEF Shaped, Tells, Obeys
    <3>3. Comes(Cable)' /\ Goes(Cable, ssc.tdr, excused.out, ssc.next)'
      BY <1>9, <1>10, <1>11, <2>1, <2>4, <3>1 DEF Comes, Goes
    <3>. QED BY <1>9, <2>1, <3>1, <3>2, <3>3
  <2>6. CASE pulls
    <3>1. /\ port' = [d EXCEPT !.receive = Tail(d.receive)] /\ peer' = peer
          /\ given' = Append(given, Head(d.receive)) /\ d.receive # <<>>
      BY <1>1, <2>1, <2>2, <2>6 DEF pulls
    <3>2. /\ DOMAIN port' = DeviceFields /\ port'.kind = d.kind /\ port'.open = d.open
          /\ port'.hasModem = d.hasModem /\ port'.applied = d.applied /\ port'.out = d.out
          /\ port'.lineKnown = d.lineKnown /\ port'.line = d.line
          /\ port'.receive = Tail(d.receive) /\ port'.transmit = d.transmit
      BY <2>2, <3>1 DEF DeviceFields
    <3>3. Tail(d.receive) \in Seq(Nat) /\ Len(Tail(d.receive)) = Len(d.receive) - 1
      BY <2>2, <3>1, HeadTailProperties
    <3>4. Shaped(Cable)' /\ Tells(Cable)' /\ Obeys(Cable, ssc.line)'
      <4>1. Shaped(Cable)'
        BY <1>9, <2>1, <2>2, <2>3, <2>4, <3>2, <3>3, SerialFarEndAssumption DEF Shaped
      <4>2. Tells(Cable)'
        BY <1>9, <2>1, <2>4, <3>2 DEF Tells
      <4>3. Len(d.receive) < HighWater => Len(Tail(d.receive)) < HighWater
        BY <2>2, <3>3, SerialFarEndAssumption
      <4>4. Obeys(Cable, ssc.line)'
        BY <1>9, <1>11, <2>1, <2>4, <3>2, <4>3 DEF Obeys
      <4>. QED BY <4>1, <4>2, <4>4
    <3>5. CASE d.kind = "loopback"
      <4>1. Chain(given, d.receive, d.transmit, Register(tdr), excused.out \cup lost, next)
        BY <1>9, <2>1, <3>5 DEF Goes
      <4>2. Chain(given', port'.receive, d.transmit, Register(tdr), excused.out \cup lost, next)
        BY <3>1, <3>2, <4>1, PulledGoes
      <4>. QED BY <1>9, <1>10, <1>11, <2>1, <2>4, <3>2, <3>4, <3>5, <4>2 DEF Goes, Comes
    <3>6. CASE d.kind # "loopback"
      <4>1. Chain(given, d.receive, after.kern.arriving, <<>>, excused.in, peer.sent + 1)
        BY <1>9, <2>1, <3>6 DEF Comes
      <4>2. Chain(given', port'.receive, after.kern.arriving, <<>>, excused.in, peer.sent + 1)
        BY <3>1, <3>2, <4>1, PulledGoes
      <4>3. Comes(Cable)'
        BY <1>10, <2>4, <3>1, <4>2 DEF Comes
      <4>4. Goes(Cable, ssc.tdr, excused.out, ssc.next)'
        BY <1>9, <1>10, <1>11, <2>1, <2>4, <3>1, <3>2, <3>6 DEF Goes
      <4>. QED BY <1>9, <2>1, <3>2, <3>4, <4>3, <4>4
    <3>. QED BY <3>5, <3>6
  <2>. QED BY <2>5, <2>6
<1>13. ssc'.tdr # 0 /\ ssc'.cts => Len(port'.transmit) < TransmitSize
  BY <1>9, <1>11, <1>12
<1>. QED BY <1>1, <1>2, <1>9, <1>10, <1>11, <1>12, <1>13 DEF SerialInv

LEMMA SerialParts ==
  ASSUME SerialInv
  PROVE  /\ Cable.dev = port /\ Cable.kern = kernel
         /\ DOMAIN port = DeviceFields /\ DOMAIN kernel = KernelFields
         /\ port.receive \in Seq(Nat) /\ port.transmit \in Seq(Nat)
         /\ kernel.queue \in Seq(Nat) /\ kernel.arriving \in Seq(Nat)
         /\ ssc.next \in Nat \ {0}
<1>1. Cable.dev = port /\ Cable.kern = kernel
  BY LineParts DEF Cable
<1>2. ssc.next \in Nat \ {0}
  BY ChainTypes DEF SerialInv, Goes
<1>. QED BY <1>1, <1>2 DEF SerialInv, Shaped

LEMMA SetLineKeeps ==
  ASSUME SerialInv, NEW line \in Shown, SetLine(line)
  PROVE  SerialInv'
<1>1. /\ slotOpen /\ ssc' = [ssc EXCEPT !.line = line]
      /\ UNCHANGED <<slotOpen, peer, given, excused>>
  BY DEF SetLine
<1>2. PICK s : s = Configured(Cable, line) /\ port' = s.dev /\ kernel' = s.kern
  BY DEF SetLine, Cable
<1>3. Shaped(Cable) /\ Tells(Cable)
  BY DEF SerialInv
<1>4. /\ Shaped(s) /\ Tells(s) /\ SameBytes(Cable, s)
      /\ s.dev.lineKnown /\ s.dev.line = line /\ Obeys(s, line)
  <2>1. PICK c : c = Cable
    OBVIOUS
  <2>. QED BY <1>2, <1>3, <2>1, ConfiguredTells
<1>5. Cable' = s
  BY <1>2, <1>4 DEF Cable, Shaped
<1>6. /\ DOMAIN ssc' = {"line", "cts", "tdr", "busy", "next", "full"} /\ ssc'.line = line
      /\ ssc'.cts = ssc.cts /\ ssc'.tdr = ssc.tdr /\ ssc'.next = ssc.next
  BY <1>1 DEF SerialInv
<1>7. Goes(s, ssc.tdr, excused.out, ssc.next) /\ Comes(s)
  BY <1>4, SameBytesPass DEF SerialInv
<1>8. Goes(Cable, ssc.tdr, excused.out, ssc.next)' /\ Comes(Cable)'
  BY <1>1, <1>5, <1>6, <1>7 DEF Goes, Comes
<1>9. Shaped(Cable)' /\ Tells(Cable)' /\ Obeys(Cable, ssc.line)'
  BY <1>4, <1>5, <1>6 DEF Shaped, Tells, Obeys
<1>10. port'.transmit = port.transmit
  BY <1>2, <1>4, SerialParts DEF SameBytes
<1>. QED BY <1>1, <1>2, <1>4, <1>6, <1>8, <1>9, <1>10 DEF SerialInv

LEMMA SinkTickKeeps ==
  ASSUME SerialInv, SinkTick
  PROVE  SerialInv'
<1>. DEFINE dead == port.open /\ port.kind \in Paths /\ ~ kernel.there
<1>1. /\ slotOpen /\ UNCHANGED <<slotOpen, ssc, peer, given, serialSteps>>
      /\ excused' = IF dead THEN [excused EXCEPT !.out = @ \cup Content(port.transmit)] ELSE excused
  BY DEF SinkTick, Content
<1>2. PICK s : s = Ticked(Cable) /\ port' = s.dev /\ kernel' = s.kern
  BY DEF SinkTick, Cable
<1>. HIDE DEF dead
<1>3. PICK c : c = Cable
  OBVIOUS
<1>4. c.dev = port /\ c.kern = kernel
  BY <1>3, SerialParts
<1>5. /\ Shaped(c) /\ Tells(c) /\ Comes(c) /\ ssc.line \in Shown
      /\ port.lineKnown /\ port.line = ssc.line /\ Obeys(c, ssc.line)
  BY <1>1, <1>3 DEF SerialInv
<1>6. /\ DOMAIN excused' = {"out", "in"} /\ excused'.in = excused.in
      /\ excused.out \subseteq excused'.out
      /\ dead => Content(port.transmit) \subseteq excused'.out
  BY <1>1 DEF SerialInv
<1>7. PICK gone : gone = excused'.out
  OBVIOUS
<1>8. Goes(c, ssc.tdr, gone, ssc.next)
  BY <1>3, <1>6, <1>7, MoreAreLost DEF SerialInv, Goes
<1>9. c.dev.open /\ c.dev.kind \in Paths /\ ~ c.kern.there => Content(c.dev.transmit) \subseteq gone
  BY <1>4, <1>6, <1>7 DEF dead
<1>10. c.dev.lineKnown /\ c.dev.line \in Shown /\ Obeys(c, c.dev.line)
  BY <1>4, <1>5
<1>11. /\ Shaped(s) /\ Tells(s) /\ Obeys(s, c.dev.line) /\ Comes(s) /\ Goes(s, ssc.tdr, gone, ssc.next)
       /\ s.dev.lineKnown /\ s.dev.line = c.dev.line
       /\ Len(s.dev.transmit) <= Len(c.dev.transmit)
  BY <1>2, <1>3, <1>5, <1>8, <1>9, <1>10, TickedGoes
<1>12. Cable' = s
  BY <1>2, <1>11 DEF Cable, Shaped
<1>13. /\ Shaped(Cable)' /\ Tells(Cable)' /\ Obeys(Cable, ssc.line)'
  BY <1>1, <1>4, <1>5, <1>11, <1>12 DEF Shaped, Tells, Obeys
<1>14. Comes(Cable)' /\ Goes(Cable, ssc.tdr, excused.out, ssc.next)'
  BY <1>1, <1>6, <1>7, <1>11, <1>12 DEF Comes, Goes
<1>15. ssc.tdr # 0 /\ ssc.cts => Len(port'.transmit) < TransmitSize
  <2>1. Len(port.transmit) \in Nat /\ Len(port'.transmit) \in Nat
    BY <1>2, <1>11, LenProperties, SerialParts DEF Shaped
  <2>2. Len(port'.transmit) <= Len(port.transmit)
    BY <1>2, <1>4, <1>11
  <2>. QED BY <2>1, <2>2, SerialFarEndAssumption DEF SerialInv
<1>. QED BY <1>1, <1>2, <1>4, <1>5, <1>6, <1>11, <1>13, <1>14, <1>15 DEF SerialInv

LEMMA PeerReadsKeeps ==
  ASSUME SerialInv, PeerReads
  PROVE  SerialInv'
<1>1. /\ kernel.queue # <<>> /\ kernel' = [kernel EXCEPT !.queue = Tail(kernel.queue)]
      /\ peer' = [peer EXCEPT !.took = Append(peer.took, Head(kernel.queue))]
      /\ UNCHANGED <<port, slotOpen, ssc, given, excused>>
  BY DEF PeerReads
<1>2. /\ DOMAIN kernel' = KernelFields /\ kernel'.there = kernel.there /\ kernel'.shown = kernel.shown
      /\ kernel'.arriving = kernel.arriving /\ kernel'.queue = Tail(kernel.queue)
  BY <1>1, SerialParts DEF KernelFields
<1>3. /\ DOMAIN peer' = {"took", "sent"} /\ peer'.sent = peer.sent
      /\ peer'.took = Append(peer.took, Head(kernel.queue))
  BY <1>1 DEF SerialInv
<1>4. /\ Cable.dev = port /\ Cable.kern = kernel /\ Cable'.dev = port /\ Cable'.kern = kernel'
      /\ Cable' = Line(port, kernel')
  BY <1>1, LineParts DEF Cable
<1>5. Tail(kernel.queue) \in Seq(Nat) /\ Len(Tail(kernel.queue)) = Len(kernel.queue) - 1
      /\ Len(kernel.queue) \in Nat
  BY <1>1, HeadTailProperties, LenProperties, SerialParts
<1>6. Shaped(Cable)'
  <2>1. Len(kernel.queue) <= KernelRoom => Len(kernel'.queue) <= KernelRoom
    BY <1>2, <1>5, SerialFarEndAssumption
  <2>. QED BY <1>1, <1>2, <1>4, <1>5, <2>1 DEF SerialInv, Shaped
<1>7. Tells(Cable)' /\ Comes(Cable)' /\ (Obeys(Cable, ssc.line) => Obeys(Cable, ssc.line)')
  BY <1>1, <1>2, <1>3, <1>4 DEF SerialInv, Tells, Comes, Obeys
<1>8. Goes(Cable, ssc.tdr, excused.out, ssc.next)'
  <2>1. CASE port.kind = "loopback"
    BY <1>1, <1>4, <2>1 DEF SerialInv, Goes
  <2>2. CASE port.kind # "loopback"
    <3>1. Chain(peer.took, kernel.queue, port.transmit, Register(ssc.tdr), excused.out, ssc.next)
      BY <1>4, <2>2 DEF SerialInv, Goes
    <3>2. Chain(peer'.took, kernel'.queue, port.transmit, Register(ssc.tdr), excused.out, ssc.next)
      BY <1>1, <1>2, <1>3, <3>1, PulledGoes
    <3>. QED BY <1>1, <1>4, <2>2, <3>2 DEF Goes
  <2>. QED BY <2>1, <2>2
<1>. QED BY <1>1, <1>3, <1>6, <1>7, <1>8 DEF SerialInv, Closed

LEMMA PeerSendsKeeps ==
  ASSUME SerialInv, PeerSends
  PROVE  SerialInv'
<1>1. /\ port.kind # "loopback" /\ kernel' = [kernel EXCEPT !.arriving = Append(kernel.arriving, peer.sent + 1)]
      /\ peer' = [peer EXCEPT !.sent = peer.sent + 1]
      /\ UNCHANGED <<port, slotOpen, ssc, given, excused>>
  BY DEF PeerSends
<1>2. /\ DOMAIN kernel' = KernelFields /\ kernel'.there = kernel.there /\ kernel'.shown = kernel.shown
      /\ kernel'.arriving = Append(kernel.arriving, peer.sent + 1) /\ kernel'.queue = kernel.queue
  BY <1>1, SerialParts DEF KernelFields
<1>3. /\ DOMAIN peer' = {"took", "sent"} /\ peer'.sent = peer.sent + 1 /\ peer'.took = peer.took
      /\ peer.sent \in Nat /\ peer'.sent \in Nat
  BY <1>1 DEF SerialInv
<1>4. /\ Cable.dev = port /\ Cable.kern = kernel /\ Cable'.dev = port /\ Cable'.kern = kernel'
      /\ Cable' = Line(port, kernel')
  BY <1>1, LineParts DEF Cable
<1>5. /\ Append(kernel.arriving, peer.sent + 1) \in Seq(Nat)
      /\ Append(kernel.arriving, peer.sent + 1) = kernel.arriving \o <<peer.sent + 1>>
  BY <1>3, AppendJoins, SerialParts
<1>6. Shaped(Cable)'
  BY <1>2, <1>4, <1>5 DEF SerialInv, Shaped
<1>7. Tells(Cable)' /\ (Obeys(Cable, ssc.line) => Obeys(Cable, ssc.line)')
  BY <1>1, <1>2, <1>4 DEF SerialInv, Tells, Obeys
<1>8. Goes(Cable, ssc.tdr, excused.out, ssc.next)'
  BY <1>1, <1>2, <1>3, <1>4 DEF SerialInv, Goes
<1>9. Comes(Cable)'
  <2>1. Chain(given, port.receive, kernel.arriving, <<>>, excused.in, peer.sent + 1)
    BY <1>1, <1>4 DEF SerialInv, Comes
  <2>2. Chain(given, port.receive, kernel.arriving, <<peer.sent + 1>>, excused.in, (peer.sent + 1) + 1)
    BY <2>1, NextStarts
  <2>3. Chain(given, port.receive, kernel.arriving \o <<peer.sent + 1>>, <<>>, excused.in,
              (peer.sent + 1) + 1)
    BY <2>2, LastMoves
  <2>. QED BY <1>1, <1>2, <1>3, <1>4, <1>5, <2>3 DEF Comes
<1>. QED BY <1>1, <1>3, <1>6, <1>7, <1>8, <1>9 DEF SerialInv, Closed

LEMMA PeerClearsKeeps ==
  ASSUME SerialInv, NEW cts \in BOOLEAN, PeerClears(cts)
  PROVE  SerialInv'
<1>1. /\ kernel' = [kernel EXCEPT !.cts = cts]
      /\ UNCHANGED <<port, slotOpen, ssc, peer, given, excused>>
  BY DEF PeerClears
<1>2. /\ DOMAIN kernel' = KernelFields /\ kernel'.there = kernel.there /\ kernel'.shown = kernel.shown
      /\ kernel'.arriving = kernel.arriving /\ kernel'.queue = kernel.queue
  BY <1>1, SerialParts DEF KernelFields
<1>3. /\ Cable.dev = port /\ Cable.kern = kernel /\ Cable'.dev = port /\ Cable'.kern = kernel'
      /\ Cable' = Line(port, kernel')
  BY <1>1, LineParts DEF Cable
<1>4. Shaped(Cable)'
  BY <1>2, <1>3 DEF SerialInv, Shaped
<1>5. Tells(Cable)' /\ Comes(Cable)' /\ (Obeys(Cable, ssc.line) => Obeys(Cable, ssc.line)')
  BY <1>1, <1>2, <1>3 DEF SerialInv, Tells, Comes, Obeys
<1>6. Goes(Cable, ssc.tdr, excused.out, ssc.next)'
  BY <1>1, <1>2, <1>3 DEF SerialInv, Goes
<1>. QED BY <1>1, <1>4, <1>5, <1>6 DEF SerialInv, Closed

LEMMA PlugKeeps ==
  ASSUME SerialInv, Plug
  PROVE  SerialInv'
<1>1. /\ ~ port.open /\ kernel' = [kernel EXCEPT !.there = TRUE]
      /\ UNCHANGED <<port, slotOpen, ssc, peer, given, excused>>
  BY DEF Plug
<1>2. /\ DOMAIN kernel' = KernelFields /\ kernel'.there
      /\ kernel'.arriving = kernel.arriving /\ kernel'.queue = kernel.queue
  BY <1>1, SerialParts DEF KernelFields
<1>3. /\ Cable.dev = port /\ Cable.kern = kernel /\ Cable'.dev = port /\ Cable'.kern = kernel'
      /\ Cable' = Line(port, kernel')
  BY <1>1, LineParts DEF Cable
<1>4. Shaped(Cable)'
  BY <1>2, <1>3 DEF SerialInv, Shaped
<1>5. Tells(Cable)' /\ Comes(Cable)' /\ Obeys(Cable, ssc.line)'
  BY <1>1, <1>2, <1>3 DEF SerialInv, Tells, Comes, Obeys
<1>6. Goes(Cable, ssc.tdr, excused.out, ssc.next)'
  BY <1>1, <1>2, <1>3 DEF SerialInv, Goes
<1>. QED BY <1>1, <1>4, <1>5, <1>6 DEF SerialInv, Closed

LEMMA UnplugKeeps ==
  ASSUME SerialInv, Unplug
  PROVE  SerialInv'
<1>1. /\ port.kind = "modem"
      /\ kernel' = [kernel EXCEPT !.there = FALSE, !.shown = Quiet, !.queue = <<>>, !.arriving = <<>>]
      /\ excused' = [out |-> excused.out \cup Content(kernel.queue),
                     in |-> excused.in \cup Content(kernel.arriving)]
      /\ UNCHANGED <<port, slotOpen, ssc, peer, given>>
  BY DEF Unplug
<1>2. /\ DOMAIN kernel' = KernelFields /\ ~ kernel'.there
      /\ kernel'.arriving = <<>> /\ kernel'.queue = <<>>
  BY <1>1, SerialParts DEF KernelFields
<1>3. /\ Cable.dev = port /\ Cable.kern = kernel /\ Cable'.dev = port /\ Cable'.kern = kernel'
      /\ Cable' = Line(port, kernel')
  BY <1>1, LineParts DEF Cable
<1>4. /\ DOMAIN excused' = {"out", "in"} /\ excused'.out = excused.out \cup Content(kernel.queue)
      /\ excused'.in = excused.in \cup Content(kernel.arriving)
  BY <1>1
<1>5. Shaped(Cable)'
  <2>1. Len(<<>>) <= KernelRoom
    BY SerialFarEndAssumption
  <2>2. <<>> \in Seq(Nat)
    OBVIOUS
  <2>. QED BY <1>1, <1>2, <1>3, <2>1, <2>2 DEF SerialInv, Shaped
<1>6. Tells(Cable)' /\ Obeys(Cable, ssc.line)'
  BY <1>2, <1>3 DEF Tells, Obeys
<1>7. Comes(Cable)'
  <2>1. Chain(given, port.receive, kernel.arriving, <<>>, excused.in, peer.sent + 1)
    BY <1>1, <1>3 DEF SerialInv, Comes
  <2>2. Chain(given, port.receive, <<>>, <<>>, excused'.in, peer.sent + 1)
    BY <1>4, <2>1, ThirdIsLost
  <2>. QED BY <1>1, <1>2, <1>3, <2>2 DEF Comes
<1>8. Goes(Cable, ssc.tdr, excused.out, ssc.next)'
  <2>1. Chain(peer.took, kernel.queue, port.transmit, Register(ssc.tdr), excused.out, ssc.next)
    BY <1>1, <1>3 DEF SerialInv, Goes
  <2>2. Chain(peer.took, <<>>, port.transmit, Register(ssc.tdr), excused'.out, ssc.next)
    BY <1>4, <2>1, SecondIsLost
  <2>. QED BY <1>1, <1>2, <1>3, <2>2 DEF Goes
<1>. QED BY <1>1, <1>4, <1>5, <1>6, <1>7, <1>8 DEF SerialInv, Closed

LEMMA ClosedIs ==
  ASSUME NEW kind, NEW d, d = Closed(kind)
  PROVE  /\ DOMAIN d = DeviceFields /\ d.kind = kind /\ ~ d.hasModem /\ ~ d.lineKnown
         /\ d.receive = <<>> /\ d.transmit = <<>>
BY DEF Closed, DeviceFields

LEMMA InstallSinkKeeps ==
  ASSUME SerialInv, InstallSink
  PROVE  SerialInv'
<1>. DEFINE last == IF port.kind \in Paths THEN RingDrained(Cable) ELSE Cable
            left == last.dev.transmit \o (IF port.kind = "loopback" THEN last.dev.receive ELSE <<>>)
            unread == IF port.kind = "loopback" THEN <<>> ELSE last.dev.receive
            swallowed == IF port.kind \in Paths /\ ~ kernel.there THEN port.transmit ELSE <<>>
            outgoing == excused.out \cup Content(left \o swallowed)
            incoming == excused.in \cup Content(unread)
<1>1. /\ kernel' = [last.kern EXCEPT !.shown = Quiet]
      /\ excused' = [out |-> outgoing, in |-> incoming]
      /\ port' = Closed(port.kind) /\ slotOpen' = FALSE
      /\ UNCHANGED <<ssc, peer, given>>
  BY DEF InstallSink, Cable, Content
<1>2. PICK s : s = last
  OBVIOUS
<1>3. PICK c : c = Cable
  OBVIOUS
<1>4. c.dev = port /\ c.kern = kernel /\ Shaped(c) /\ Tells(c) /\ Comes(c)
  BY <1>3, SerialParts DEF SerialInv
<1>5. port.receive \in Seq(Nat) /\ port.transmit \in Seq(Nat)
  BY SerialParts
<1>6. swallowed \in Seq(Nat)
  BY <1>5
<1>7. ~ (port.open /\ port.kind \in Paths /\ ~ kernel.there) \/ swallowed = port.transmit
  OBVIOUS
<1>. HIDE DEF swallowed
<1>8. PICK gone : gone = excused.out \cup Content(swallowed)
  OBVIOUS
<1>9. Goes(c, ssc.tdr, gone, ssc.next)
  BY <1>3, <1>8, MoreAreLost DEF SerialInv, Goes
<1>10. /\ Shaped(s) /\ Comes(s) /\ Goes(s, ssc.tdr, gone, ssc.next)
       /\ s.dev.kind = port.kind /\ s.kern.there = kernel.there
  <2>1. CASE port.kind \in Paths
    <3>1. s = RingDrained(c)
      BY <1>2, <1>3, <2>1
    <3>2. PICK line : Obeys(c, line)
      <4>1. CASE slotOpen
        BY <1>3, <4>1 DEF SerialInv
      <4>2. CASE ~ slotOpen
        BY <1>4, <4>2 DEF InstallSink
      <4>. QED BY <4>1, <4>2
    <3>3. c.dev.open /\ c.dev.kind \in Paths /\ ~ c.kern.there => Content(c.dev.transmit) \subseteq gone
      BY <1>4, <1>7, <1>8
    <3>. QED BY <1>4, <1>9, <3>1, <3>2, <3>3, DrainGoes
  <2>2. CASE port.kind \notin Paths
    BY <1>2, <1>3, <1>4, <1>9, <2>2
  <2>. QED BY <2>1, <2>2
<1>. DEFINE rest == IF port.kind = "loopback" THEN s.dev.receive ELSE <<>>
<1>11. /\ s.dev.transmit \in Seq(Nat) /\ s.dev.receive \in Seq(Nat) /\ rest \in Seq(Nat)
  BY <1>10 DEF Shaped
<1>12. left = s.dev.transmit \o rest
  BY <1>2
<1>. HIDE DEF last, left, rest
<1>13. /\ outgoing = gone \cup (Content(s.dev.transmit) \cup Content(rest))
  <2>1. left \in Seq(Nat) /\ Content(left) = Content(s.dev.transmit) \cup Content(rest)
    BY <1>11, <1>12, JoinedContent
  <2>2. Content(left \o swallowed) = Content(left) \cup Content(swallowed)
    BY <1>6, <2>1, JoinedContent
  <2>. QED BY <1>8, <2>1, <2>2
<1>14. /\ DOMAIN excused' = {"out", "in"} /\ excused'.out = outgoing /\ excused'.in = incoming
  <2>. HIDE DEF outgoing, incoming
  <2>. QED BY <1>1
<1>. HIDE DEF outgoing
<1>15. /\ DOMAIN kernel' = KernelFields /\ kernel'.there = kernel.there
       /\ kernel'.arriving = s.kern.arriving /\ kernel'.queue = s.kern.queue
  BY <1>1, <1>2, <1>10 DEF Shaped, KernelFields
<1>16. /\ DOMAIN port' = DeviceFields /\ port'.kind = port.kind /\ ~ port'.hasModem /\ ~ port'.lineKnown
       /\ port'.receive = <<>> /\ port'.transmit = <<>>
  BY <1>1, ClosedIs
<1>17. /\ Cable'.dev = port' /\ Cable'.kern = kernel' /\ Cable' = Line(port', kernel')
  BY LineParts DEF Cable
<1>18. Len(<<>>) = 0 /\ <<>> \in Seq(Nat) /\ Len(<<>>) <= ReceiveSize
  BY SerialFarEndAssumption
<1>19. Shaped(Cable)'
  BY <1>10, <1>15, <1>16, <1>17, <1>18 DEF Shaped
<1>20. Tells(Cable)'
  BY <1>16, <1>17 DEF Tells
<1>21. Goes(Cable, ssc.tdr, excused.out, ssc.next)'
  <2>1. CASE port.kind = "loopback"
    <3>1. Chain(given, s.dev.receive, s.dev.transmit, Register(ssc.tdr), gone, ssc.next)
      BY <1>10, <2>1 DEF Goes
    <3>2. Chain(given, s.dev.receive, <<>>, Register(ssc.tdr), gone \cup Content(s.dev.transmit), ssc.next)
      BY <3>1, ThirdIsLost
    <3>3. Chain(given, <<>>, <<>>, Register(ssc.tdr),
                (gone \cup Content(s.dev.transmit)) \cup Content(s.dev.receive), ssc.next)
      BY <3>2, SecondIsLost
    <3>4. (gone \cup Content(s.dev.transmit)) \cup Content(s.dev.receive) = outgoing
      BY <1>13, <2>1 DEF rest
    <3>5. Chain(given, <<>>, <<>>, Register(ssc.tdr), outgoing, ssc.next)
      BY <3>3, <3>4
    <3>. QED BY <1>1, <1>14, <1>16, <1>17, <2>1, <3>5 DEF Goes
  <2>2. CASE port.kind # "loopback"
    <3>1. Chain(peer.took, s.kern.queue, s.dev.transmit, Register(ssc.tdr), gone, ssc.next)
      BY <1>10, <2>2 DEF Goes
    <3>2. Chain(peer.took, s.kern.queue, <<>>, Register(ssc.tdr), gone \cup Content(s.dev.transmit), ssc.next)
      BY <3>1, ThirdIsLost
    <3>3. Chain(peer.took, s.kern.queue, <<>>, Register(ssc.tdr), outgoing, ssc.next)
      BY <1>13, <3>2, MoreAreLost
    <3>. QED BY <1>1, <1>14, <1>15, <1>16, <1>17, <2>2, <3>3 DEF Goes
  <2>. QED BY <2>1, <2>2
<1>22. Comes(Cable)'
  <2>1. CASE port.kind = "loopback"
    BY <1>16, <1>17, <2>1 DEF Comes
  <2>2. CASE port.kind # "loopback"
    <3>1. Chain(given, s.dev.receive, s.kern.arriving, <<>>, excused.in, peer.sent + 1)
      BY <1>10, <2>2 DEF Comes
    <3>2. incoming = excused.in \cup Content(s.dev.receive)
      BY <1>2, <2>2 DEF last
    <3>3. Chain(given, <<>>, s.kern.arriving, <<>>, incoming, peer.sent + 1)
      BY <3>1, <3>2, SecondIsLost
    <3>. QED BY <1>1, <1>14, <1>15, <1>16, <1>17, <2>2, <3>3 DEF Comes
  <2>. QED BY <2>1, <2>2
<1>23. Len(port'.transmit) < TransmitSize
  BY <1>16, <1>18, SerialFarEndAssumption
<1>. QED BY <1>1, <1>14, <1>16, <1>19, <1>20, <1>21, <1>22, <1>23 DEF SerialInv

LEMMA SerialInitHolds ==
  ASSUME SerialInit
  PROVE  SerialInv
<1>1. PICK kind : port = Closed(kind)
  BY DEF SerialInit
<1>2. /\ slotOpen = FALSE
      /\ kernel = [there |-> TRUE, shown |-> Quiet, cts |-> TRUE, queue |-> <<>>, arriving |-> <<>>]
      /\ ssc = [line |-> Quiet, cts |-> TRUE, tdr |-> 0, busy |-> FALSE, next |-> 1, full |-> FALSE]
      /\ peer = [took |-> <<>>, sent |-> 0] /\ given = <<>> /\ excused = [out |-> {}, in |-> {}]
  BY DEF SerialInit
<1>3. /\ DOMAIN port = DeviceFields /\ port.kind = kind /\ ~ port.hasModem /\ ~ port.lineKnown
      /\ port.receive = <<>> /\ port.transmit = <<>>
  BY <1>1, ClosedIs
<1>4. /\ DOMAIN kernel = KernelFields /\ kernel.there /\ kernel.queue = <<>> /\ kernel.arriving = <<>>
  BY <1>2 DEF KernelFields
<1>5. Cable.dev = port /\ Cable.kern = kernel /\ Cable = Line(port, kernel)
  BY LineParts DEF Cable
<1>6. Len(<<>>) = 0 /\ <<>> \in Seq(Nat) /\ Len(<<>>) <= ReceiveSize /\ Len(<<>>) <= KernelRoom
  BY SerialFarEndAssumption
<1>7. Shaped(Cable) /\ Tells(Cable)
  BY <1>3, <1>4, <1>5, <1>6 DEF Shaped, Tells
<1>8. /\ DOMAIN ssc = {"line", "cts", "tdr", "busy", "next", "full"} /\ ssc.tdr = 0 /\ ssc.next = 1
      /\ ssc.line \in Shown
      /\ DOMAIN peer = {"took", "sent"} /\ peer.took = <<>> /\ peer.sent = 0
      /\ DOMAIN excused = {"out", "in"} /\ excused.out = {} /\ excused.in = {}
  BY <1>2 DEF Quiet, Shown
<1>9. Chain(<<>>, <<>>, <<>>, <<>>, {}, 1)
  <2>1. 1 .. 1 - 1 = {}
    OBVIOUS
  <2>. QED BY <2>1, NothingRises DEF Chain, Below
<1>10. Goes(Cable, ssc.tdr, excused.out, ssc.next) /\ Comes(Cable)
  BY <1>2, <1>3, <1>4, <1>5, <1>8, <1>9, RegisterIs DEF Goes, Comes
<1>11. Len(port.transmit) < TransmitSize
  BY <1>3, <1>6, SerialFarEndAssumption
<1>. QED BY <1>1, <1>2, <1>3, <1>7, <1>8, <1>10, <1>11 DEF SerialInv

\* The invariant the cable's properties rest on: wherever a byte is, it is behind those
\* sent before it; the card holds one back while the ring is full; and the pins are what
\* the device was last told.
THEOREM SerialIsInductive == SerialFarEndSpec => []SerialInv
<1>1. SerialInit => SerialInv
  BY SerialInitHolds
<1>2. SerialInv /\ [SerialNext]_serialVars => SerialInv'
  <2>. SUFFICES ASSUME SerialInv, [SerialNext]_serialVars PROVE SerialInv'
    OBVIOUS
  <2>1. ASSUME NEW op \in {"look", "read", "write"}, NEW ended \in BOOLEAN, CardEntry(op, ended)
        PROVE  SerialInv'
    BY <2>1, CardEntryKeeps
  <2>2. ASSUME NEW line \in Shown, SetLine(line) PROVE SerialInv'
    BY <2>2, SetLineKeeps
  <2>3. CASE SinkTick
    BY <2>3, SinkTickKeeps
  <2>4. CASE InstallSink
    BY <2>4, InstallSinkKeeps
  <2>5. CASE PeerReads
    BY <2>5, PeerReadsKeeps
  <2>6. CASE PeerSends
    BY <2>6, PeerSendsKeeps
  <2>7. ASSUME NEW cts \in BOOLEAN, PeerClears(cts) PROVE SerialInv'
    BY <2>7, PeerClearsKeeps
  <2>8. CASE Unplug
    BY <2>8, UnplugKeeps
  <2>9. CASE Plug
    BY <2>9, PlugKeeps
  <2>10. CASE UNCHANGED serialVars
    BY <2>10 DEF serialVars, SerialInv, Cable, Shaped, Tells, Goes, Comes, Obeys, Closed
  <2>. QED BY <2>1, <2>2, <2>3, <2>4, <2>5, <2>6, <2>7, <2>8, <2>9, <2>10 DEF SerialNext
<1>. QED BY <1>1, <1>2, PTL DEF SerialFarEndSpec

\* Whatever the kernel refuses, and whatever is pulled out and plugged in, the bytes of the
\* card reach the far end in order, those of the far end the program, and only an outage or
\* a new installation loses any; the pins of a serial port are the card's.
THEOREM CableCarriesAll == SerialFarEndSpec => []CableIsTransparent
<1>1. SerialInv => CableIsTransparent
  <2>. SUFFICES ASSUME SerialInv PROVE CableIsTransparent
    OBVIOUS
  <2>1. Cable.dev = port /\ Cable.kern = kernel
    BY SerialParts
  <2>2. PinsAreTheCards
    BY <2>1 DEF SerialInv, Obeys, PinsAreTheCards
  <2>3. Goes(Cable, ssc.tdr, excused.out, ssc.next) /\ Comes(Cable) /\ peer.sent \in Nat
    BY DEF SerialInv
  <2>. DEFINE tdr == Register(ssc.tdr)
              goes == (IF port.kind = "loopback" THEN given \o port.receive ELSE peer.took \o kernel.queue)
                        \o port.transmit \o tdr
              comes == given \o port.receive \o kernel.arriving
  <2>4. Ascending(goes) /\ (1 .. ssc.next - 1) \ excused.out \subseteq Content(goes)
    <3>. HIDE DEF tdr
    <3>1. CASE port.kind = "loopback"
      <4>1. Chain(given, port.receive, port.transmit, tdr, excused.out, ssc.next)
        BY <2>1, <2>3, <3>1 DEF Goes, tdr
      <4>. QED BY <3>1, <4>1, ChainReads
    <3>2. CASE port.kind # "loopback"
      <4>1. Chain(peer.took, kernel.queue, port.transmit, tdr, excused.out, ssc.next)
        BY <2>1, <2>3, <3>2 DEF Goes, tdr
      <4>. QED BY <3>2, <4>1, ChainReads
    <3>. QED BY <3>1, <3>2
  <2>5. \/ port.kind = "loopback"
        \/ Ascending(comes) /\ (1 .. peer.sent) \ excused.in \subseteq Content(comes)
    <3>. SUFFICES ASSUME port.kind # "loopback"
                  PROVE  Ascending(comes) /\ (1 .. peer.sent) \ excused.in \subseteq Content(comes)
      OBVIOUS
    <3>1. Chain(given, port.receive, kernel.arriving, <<>>, excused.in, peer.sent + 1)
      BY <2>1, <2>3 DEF Comes
    <3>2. comes \in Seq(Nat)
      BY <3>1, ChainTypes, ConcatProperties
    <3>3. comes \o <<>> = comes
      <4>. HIDE DEF comes
      <4>. QED BY <3>2, ConcatEmptySeq
    <3>4. (peer.sent + 1) - 1 = peer.sent
      BY <2>3
    <3>5. /\ Ascending(comes \o <<>>)
          /\ (1 .. (peer.sent + 1) - 1) \ excused.in \subseteq Content(comes \o <<>>)
      BY <3>1, ChainReads
    <3>. QED BY <3>3, <3>4, <3>5
  <2>6. LineKeepsItsBytes
    BY <2>4, <2>5 DEF LineKeepsItsBytes, Register
  <2>. QED BY <2>2, <2>6 DEF CableIsTransparent
<1>. QED BY <1>1, SerialIsInductive, PTL
=============================================================================
