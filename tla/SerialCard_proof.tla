-------------------------- MODULE SerialCard_proof --------------------------
(***************************************************************************)
(* SerialCard keeps its promises for any frame, any point of it where the  *)
(* byte is complete, any lateness of a wake below that, and any program.   *)
(***************************************************************************)
EXTENDS SerialCard, WellFoundedInduction, TLAPS

-----------------------------------------------------------------------------
(* Induction over an interval and a run of a recursive function along it.  *)
(* Advance is the value of such a function at the end of the interval.     *)
(* LeastNatural gives the induction: no operator need be instantiated.     *)

LEMMA LeastNatural ==
  ASSUME NEW T, T \subseteq Nat, T # {}
  PROVE  \E m \in T : \A n \in T : m <= n
<1> DEFINE R == OpToRel(<, Nat)
<1>1. \E m \in T : \A n \in T : ~ (<<n, m>> \in R)
  <2> HIDE DEF R
  <2> QED BY NatLessThanWellFounded, WFMin DEF R
<1>2. ASSUME NEW m \in T, NEW n \in T, ~ (<<n, m>> \in R)
      PROVE  m <= n
  BY <1>2 DEF OpToRel
<1> QED BY <1>1, <1>2

(* Induction up to n, for the members of a set. *)
LEMMA UpTo ==
  ASSUME NEW n \in Nat, NEW T, 0 \in T,
         \A k \in 0 .. n : k < n /\ k \in T => k + 1 \in T
  PROVE  \A k \in 0 .. n : k \in T
<1> DEFINE U == {k \in 0 .. n : k \notin T}
<1>1. SUFFICES ASSUME U # {} PROVE FALSE
  OBVIOUS
<1>2. U \subseteq Nat
  OBVIOUS
<1>3. PICK m \in U : \A k \in U : m <= k
  BY <1>1, <1>2, LeastNatural
<1>4. m # 0 /\ m \in Nat /\ m <= n
  BY <1>3
<1>5. m - 1 \in 0 .. n /\ m - 1 < n
  BY <1>4
<1>6. m - 1 \in T
  BY <1>3, <1>5
<1>7. m - 1 + 1 \in T
  BY <1>5, <1>6
<1> QED BY <1>3, <1>4, <1>7

IsRun(g, step, b, n) == g[0] = b /\ \A k \in 1 .. n : g[k] = step[g[k - 1]]

(* A run of n steps exists from any start. *)
LEMMA RunExists ==
  ASSUME NEW S, NEW step \in [S -> S], NEW b \in S, NEW n \in Nat
  PROVE  \E g \in [0 .. n -> S] : IsRun(g, step, b, n)
<1> DEFINE T == {m \in Nat : \E g \in [0 .. m -> S] : g[0] = b /\ \A k \in 1 .. m : g[k] = step[g[k - 1]]}
<1>1. 0 \in T
  <2>1. PICK g : g = [k \in 0 .. 0 |-> b]
    OBVIOUS
  <2>2. g \in [0 .. 0 -> S] /\ g[0] = b
    BY <2>1
  <2>3. \A k \in 1 .. 0 : g[k] = step[g[k - 1]]
    OBVIOUS
  <2> QED BY <2>2, <2>3
<1>2. ASSUME NEW m \in 0 .. n, m \in T PROVE m + 1 \in T
  <2>1. PICK g \in [0 .. m -> S] : g[0] = b /\ \A k \in 1 .. m : g[k] = step[g[k - 1]]
    BY <1>2
  <2> DEFINE h == [k \in 0 .. m + 1 |-> IF k = m + 1 THEN step[g[m]] ELSE g[k]]
  <2>2. h \in [0 .. m + 1 -> S]
    <3>1. g[m] \in S
      OBVIOUS
    <3>2. step[g[m]] \in S
      BY <3>1
    <3>3. ASSUME NEW k \in 0 .. m + 1, k # m + 1 PROVE g[k] \in S
      <4>1. k \in 0 .. m
        BY <3>3
      <4> QED BY <4>1
    <3> QED BY <3>2, <3>3
  <2>3. h[0] = b
    BY <2>1
  <2>4. ASSUME NEW k \in 1 .. m + 1 PROVE h[k] = step[h[k - 1]]
    <3>1. CASE k = m + 1
      BY <3>1
    <3>2. CASE k # m + 1
      <4>1. k \in 1 .. m /\ k - 1 \in 0 .. m + 1 /\ k - 1 # m + 1 /\ k \in 0 .. m + 1
        BY <3>2
      <4> QED BY <4>1, <2>1, <3>2
    <3> QED BY <3>1, <3>2
  <2> HIDE DEF h
  <2> QED BY <2>2, <2>3, <2>4
<1> HIDE DEF T
<1>3. \A k \in 0 .. n : k \in T
  BY <1>1, <1>2, UpTo
<1>4. n \in T
  BY <1>3
<1> QED BY <1>4 DEF T, IsRun

Aged(c) == [CatchUp(CatchUp(c)) EXCEPT !.ready = - 1]

LEMMA AdvanceRuns ==
  ASSUME NEW S, \A c \in S : Cycle(c) \in S, NEW c, NEW n \in Nat, n # 0, Aged(c) \in S
  PROVE  \E g \in [0 .. n -> S] : /\ Advance(c, n) = g[n] /\ g[0] = Aged(c)
                                  /\ \A k \in 1 .. n : g[k] = Cycle(g[k - 1])
<1> DEFINE step == [s \in S |-> Cycle(s)]
           Eq(g) == g = [k \in 0 .. n |-> IF k = 0 THEN Aged(c) ELSE Cycle(g[k - 1])]
           G == CHOOSE g : Eq(g)
<1>1. Advance(c, n) = G[n]
  BY DEF Advance, Aged
<1>2. PICK h \in [0 .. n -> S] : h[0] = Aged(c) /\ \A k \in 1 .. n : h[k] = step[h[k - 1]]
  <2>1. PICK t : t = step
    OBVIOUS
  <2>2. PICK b : b = Aged(c)
    OBVIOUS
  <2>3. t \in [S -> S] /\ b \in S
    BY <2>1, <2>2
  <2> HIDE DEF step
  <2>4. PICK g \in [0 .. n -> S] : IsRun(g, t, b, n)
    BY <2>3, RunExists
  <2> QED BY <2>1, <2>2, <2>4 DEF IsRun
<1>3. ASSUME NEW k \in 1 .. n PROVE h[k] = Cycle(h[k - 1])
  <2>1. k - 1 \in 0 .. n
    OBVIOUS
  <2>2. h[k - 1] \in S
    BY <2>1
  <2> QED BY <1>2, <2>2
<1>4. Eq(h)
  <2>1. h = [k \in 0 .. n |-> h[k]]
    OBVIOUS
  <2>2. ASSUME NEW k \in 0 .. n PROVE h[k] = IF k = 0 THEN Aged(c) ELSE Cycle(h[k - 1])
    BY <1>2, <1>3
  <2> QED BY <2>1, <2>2
<1>5. Eq(G)
  <2> HIDE DEF Eq
  <2> QED BY <1>4
<1>6. ASSUME NEW k \in 0 .. n PROVE G[k] = IF k = 0 THEN Aged(c) ELSE Cycle(G[k - 1])
  <2> HIDE DEF G
  <2> QED BY <1>5
<1>7. G[0] = Aged(c)
  BY <1>6
<1>8. ASSUME NEW k \in 1 .. n PROVE G[k] = Cycle(G[k - 1])
  <2>1. k \in 0 .. n /\ k # 0
    OBVIOUS
  <2> HIDE DEF G
  <2> QED BY <1>6, <2>1
<1>9. \A k \in 0 .. n : G[k] \in S
  <2> DEFINE T == {k \in 0 .. n : G[k] \in S}
  <2> HIDE DEF G
  <2>1. 0 \in T
    BY <1>7
  <2>2. ASSUME NEW k \in 0 .. n, k < n, k \in T PROVE k + 1 \in T
    <3>1. k + 1 \in 1 .. n /\ k + 1 - 1 = k
      BY <2>2
    <3>2. G[k + 1] = Cycle(G[k])
      BY <3>1, <1>8
    <3> QED BY <3>1, <3>2, <2>2
  <2> HIDE DEF T
  <2>3. \A k \in 0 .. n : k \in T
    BY <2>1, <2>2, UpTo
  <2> QED BY <2>3 DEF T
<1>10. G \in [0 .. n -> S]
  <2>1. G = [k \in 0 .. n |-> G[k]]
    <3> HIDE DEF G
    <3> QED BY <1>5
  <2> HIDE DEF G
  <2> QED BY <2>1, <1>9
<1> HIDE DEF G
<1> QED BY <1>1, <1>7, <1>8, <1>10
-----------------------------------------------------------------------------
(* The chip as a function from its fields.  A lemma about an operator says *)
(* which fields it may change (Only) and what they are then; the rest of   *)
(* the record need not be looked at.                                       *)

ChipFields == {"clocked", "tic", "dtr", "quiet", "echo", "tdrFull", "txBusy", "rdrf", "rxBusy", "overrun",
  "irq", "fromLines", "brk", "completed", "txLeft", "phase", "rxLeft", "ready", "rdr", "shift", "pending",
  "leaving", "lines"}

\* The type of Chip, with ready as it counts on in the course of an advance.
Values(f) ==
  CASE f = "tic" -> Transmit
    [] f = "txLeft" -> - Frame .. Frame
    [] f = "phase" -> 0 .. Frame - 1
    [] f = "rxLeft" -> 0 .. Frame
    [] f = "ready" -> Int
    [] f \in {"rdr", "shift"} -> Bytes
    [] f = "leaving" -> 0 .. 2
    [] f = "lines" -> SUBSET Inputs
    [] f \notin {"tic", "txLeft", "phase", "rxLeft", "ready", "rdr", "shift", "leaving", "lines"} -> BOOLEAN

Record(a) == DOMAIN a = ChipFields /\ a = [f \in ChipFields |-> a[f]]
Fits(a) == Record(a) /\ \A f \in ChipFields : a[f] \in Values(f)
Only(r, a, fields) == Record(r) /\ \A f \in ChipFields \ fields : r[f] = a[f]

LEMMA FieldsFit ==
  ASSUME NEW a, Fits(a)
  PROVE  /\ Record(a) /\ DOMAIN a = ChipFields
         /\ a.clocked \in BOOLEAN /\ a.tic \in Transmit /\ a.dtr \in BOOLEAN /\ a.quiet \in BOOLEAN
         /\ a.echo \in BOOLEAN /\ a.tdrFull \in BOOLEAN /\ a.txBusy \in BOOLEAN /\ a.rdrf \in BOOLEAN
         /\ a.rxBusy \in BOOLEAN /\ a.overrun \in BOOLEAN /\ a.irq \in BOOLEAN /\ a.fromLines \in BOOLEAN
         /\ a.brk \in BOOLEAN /\ a.completed \in BOOLEAN /\ a.txLeft \in - Frame .. Frame
         /\ a.phase \in 0 .. Frame - 1 /\ a.rxLeft \in 0 .. Frame /\ a.ready \in Int
         /\ a.rdr \in Bytes /\ a.shift \in Bytes /\ a.pending \in BOOLEAN /\ a.leaving \in 0 .. 2
         /\ a.lines \in SUBSET Inputs
BY DEF Fits, Record, ChipFields, Values

LEMMA ChipFits ==
  ASSUME NEW a \in Chip
  PROVE  Fits(a) /\ a.ready \in - 1 .. Frame - 1
<1>1. Record(a) /\ a.ready \in - 1 .. Frame - 1
  BY DEF Chip, Record, ChipFields
<1>2. ASSUME NEW f \in ChipFields PROVE a[f] \in Values(f)
  BY <1>2, AciaAssumption DEF Chip, ChipFields, Values
<1> QED BY <1>1, <1>2 DEF Fits

LEMMA FitsChip ==
  ASSUME NEW a, Fits(a), a.ready \in - 1 .. Frame - 1
  PROVE  a \in Chip
BY FieldsFit, AciaAssumption DEF Chip, Record, ChipFields

LEMMA OnlyFits ==
  ASSUME NEW a, Fits(a), NEW fields, NEW r, Only(r, a, fields),
         \A f \in fields \cap ChipFields : r[f] \in Values(f)
  PROVE  Fits(r)
BY DEF Fits, Only

LEMMA OnlyMore ==
  ASSUME NEW a, NEW r, NEW fields, NEW more, Only(r, a, fields), fields \subseteq more
  PROVE  Only(r, a, more)
BY DEF Only

LEMMA OnlyThen ==
  ASSUME NEW a, NEW b, NEW r, NEW fields, Only(b, a, fields), Only(r, b, fields)
  PROVE  Only(r, a, fields)
BY DEF Only

LEMMA OnlySame ==
  ASSUME NEW a, Record(a), NEW fields
  PROVE  Only(a, a, fields)
BY DEF Only
-----------------------------------------------------------------------------
(* The invariant of a chip.                                                *)

Arriving(a) == a.rxBusy /\ ~ a.completed

\* The bytes between the far end and the program.
InFlight(a) == (IF a.rdrf THEN 1 ELSE 0) + (IF Arriving(a) THEN 1 ELSE 0)

\* A byte arrives into an empty register, is the next, and has its time before it.
ByteOk(a) ==
  /\ ~ a.overrun
  /\ a.rdrf => a.rdr = 1 /\ ~ Arriving(a)
  /\ Arriving(a) => a.shift = 1 /\ a.rxLeft > Frame - Rdrf
  /\ a.rxBusy => a.rxLeft >= 1

\* At most one byte has left, and until it is handed over no other can: neither
\* the transmit register nor the echo has one.
OnceOk(a) ==
  /\ a.leaving = (IF a.pending THEN 1 ELSE 0)
  /\ a.pending => IF a.tic = "off" THEN ~ Arriving(a) ELSE ~ a.tdrFull

Good(a) == Fits(a) /\ ByteOk(a) /\ OnceOk(a)

RxFields == {"rdrf", "rdr", "rxBusy", "completed", "rxLeft", "shift", "ready", "overrun"}
TxFields == {"txBusy", "txLeft", "phase", "brk", "irq", "fromLines", "pending", "leaving", "tdrFull"}

RxSame(r, a) ==
  /\ r.rdrf = a.rdrf /\ r.rdr = a.rdr /\ r.rxBusy = a.rxBusy /\ r.completed = a.completed
  /\ r.rxLeft = a.rxLeft /\ r.shift = a.shift /\ r.ready = a.ready /\ r.overrun = a.overrun

LEMMA RxUntouched ==
  ASSUME NEW a, NEW r, NEW fields, Only(r, a, fields), fields \cap RxFields = {}
  PROVE  RxSame(r, a)
BY DEF Only, RxSame, RxFields, ChipFields

LEMMA RxSameKeeps ==
  ASSUME NEW a, NEW r, RxSame(r, a)
  PROVE  /\ InFlight(r) = InFlight(a) /\ Arriving(r) = Arriving(a)
         /\ ByteOk(a) => ByteOk(r)
BY DEF RxSame, InFlight, Arriving, ByteOk

LEMMA RxSameThen ==
  ASSUME NEW a, NEW b, NEW r, RxSame(b, a), RxSame(r, b)
  PROVE  RxSame(r, a)
BY DEF RxSame

\* What the transmitter does in one go: it starts the byte it held, or not.
TxStep(r, a) ==
  /\ Fits(r) /\ Only(r, a, TxFields)
  /\ \/ r.pending = a.pending /\ r.leaving = a.leaving /\ r.tdrFull = a.tdrFull
     \/ /\ a.tdrFull /\ a.tic \in {"irq", "on"}
        /\ r.pending = TRUE /\ r.leaving = a.leaving + 1 /\ r.tdrFull = FALSE

LEMMA TxStepKeeps ==
  ASSUME NEW a, Good(a), NEW r, TxStep(r, a)
  PROVE  Good(r) /\ RxSame(r, a) /\ r.tic = a.tic
<1>1. RxSame(r, a)
  BY RxUntouched DEF TxStep, RxFields, TxFields
<1>2. r.tic = a.tic
  BY DEF TxStep, Only, TxFields, ChipFields
<1>3. ByteOk(r) /\ Arriving(r) = Arriving(a)
  BY <1>1, RxSameKeeps DEF Good
<1>4. OnceOk(r)
  BY <1>2, <1>3 DEF OnceOk, TxStep, Good
<1> QED BY <1>1, <1>2, <1>3, <1>4 DEF Good, TxStep
-----------------------------------------------------------------------------
(* The operators of the transmitter.                                       *)

LEMMA FrameIsLong == Frame \in Nat /\ Rdrf \in Nat /\ Frame >= 2 /\ Rdrf >= 1 /\ Rdrf < Frame
BY AciaAssumption

LEMMA PhaseOf ==
  ASSUME NEW n \in Int
  PROVE  n % Frame \in 0 .. Frame - 1
BY FrameIsLong

LEMMA RaiseIrqOnly ==
  ASSUME NEW a, Fits(a), NEW x \in BOOLEAN, NEW r, r = RaiseIrq(a, x)
  PROVE  Only(r, a, {"irq", "fromLines"}) /\ Fits(r)
<1>1. Only(r, a, {"irq", "fromLines"})
  BY DEF RaiseIrq, Fits, Only, Record
<1>2. r.irq \in BOOLEAN /\ r.fromLines \in BOOLEAN
  BY FieldsFit DEF RaiseIrq, ChipFields
<1>3. \A f \in {"irq", "fromLines"} \cap ChipFields : r[f] \in Values(f)
  BY <1>2 DEF Values
<1> QED BY <1>1, <1>3, OnlyFits

LEMMA EmitOnly ==
  ASSUME NEW a, Fits(a), a.leaving \in 0 .. 1, NEW r, r = Emit(a)
  PROVE  /\ Only(r, a, {"pending", "leaving"}) /\ Fits(r)
         /\ r.pending = TRUE /\ r.leaving = a.leaving + 1
<1>1. Only(r, a, {"pending", "leaving"})
  BY DEF Emit, Fits, Only, Record
<1>2. r.pending = TRUE /\ r.leaving = a.leaving + 1
  BY FieldsFit DEF Emit, ChipFields
<1>3. r.leaving \in 0 .. 2
  BY <1>2
<1>4. \A f \in {"pending", "leaving"} \cap ChipFields : r[f] \in Values(f)
  BY <1>2, <1>3 DEF Values
<1> QED BY <1>1, <1>2, <1>4, OnlyFits

\* The byte starts a frame; where it may do so the step is one of the transmitter's.
LEMMA StartTransmitSteps ==
  ASSUME NEW a, Fits(a), a.leaving \in 0 .. 1, a.tdrFull, a.tic \in {"irq", "on"},
         NEW at \in - Frame .. 0, NEW r, r = StartTransmit(a, at)
  PROVE  TxStep(r, a) /\ r.tdrFull = FALSE
<1> DEFINE e == Emit(a)
<1>1. Only(e, a, {"pending", "leaving"}) /\ Fits(e) /\ e.pending = TRUE /\ e.leaving = a.leaving + 1
  BY EmitOnly
<1>2. PICK b : b = [e EXCEPT !.tdrFull = FALSE, !.txBusy = TRUE, !.txLeft = at + Frame,
                             !.phase = (- at) % Frame]
  OBVIOUS
<1> DEFINE F == {"tdrFull", "txBusy", "txLeft", "phase"}
<1> HIDE DEF e
<1>3. Only(b, e, F)
  BY <1>1, <1>2 DEF Fits, Only, Record
<1>4. b.tdrFull = FALSE /\ b.txBusy = TRUE /\ b.txLeft = at + Frame /\ b.phase = (- at) % Frame
  BY <1>1, <1>2, FieldsFit DEF ChipFields
<1>5. Fits(b)
  <2>1. b.txLeft \in - Frame .. Frame /\ b.phase \in 0 .. Frame - 1
    <3>1. - at \in Int
      BY FrameIsLong
    <3> QED BY <1>4, <3>1, PhaseOf, FrameIsLong
  <2>2. \A f \in F \cap ChipFields : b[f] \in Values(f)
    BY <1>4, <2>1 DEF Values
  <2> QED BY <1>1, <1>3, <2>2, OnlyFits
<1>6. Only(b, a, TxFields)
  <2>1. Only(e, a, TxFields)
    BY <1>1, OnlyMore DEF TxFields
  <2>2. Only(b, e, TxFields)
    BY <1>3, OnlyMore DEF TxFields
  <2> QED BY <2>1, <2>2, OnlyThen
<1>7. b.pending = TRUE /\ b.leaving = a.leaving + 1 /\ b.tic = a.tic
  <2>1. b.pending = e.pending /\ b.leaving = e.leaving /\ b.tic = e.tic
    BY <1>3 DEF Only, ChipFields
  <2>2. e.tic = a.tic
    BY <1>1 DEF Only, ChipFields
  <2> QED BY <2>1, <2>2, <1>1
<1>8. TxStep(b, a)
  BY <1>4, <1>5, <1>6, <1>7 DEF TxStep
<1>9. r = b \/ r = RaiseIrq(b, FALSE)
  BY <1>2 DEF StartTransmit, e
<1>10. CASE r = b
  BY <1>10, <1>4, <1>8
<1>11. CASE r = RaiseIrq(b, FALSE)
  <2>1. Only(r, b, {"irq", "fromLines"}) /\ Fits(r)
    BY <1>5, <1>11, RaiseIrqOnly
  <2>2. Only(r, b, TxFields)
    BY <2>1, OnlyMore DEF TxFields
  <2>3. Only(r, a, TxFields)
    BY <2>2, <1>6, OnlyThen
  <2>4. r.pending = b.pending /\ r.leaving = b.leaving /\ r.tdrFull = b.tdrFull
    BY <2>1 DEF Only, ChipFields
  <2> QED BY <2>1, <2>3, <2>4, <1>4, <1>7 DEF TxStep
<1> QED BY <1>9, <1>10, <1>11

LEMMA SameSteps ==
  ASSUME NEW a, Fits(a)
  PROVE  TxStep(a, a)
BY OnlySame DEF TxStep, Fits

LEMMA RaiseIrqSteps ==
  ASSUME NEW a, Fits(a), NEW x \in BOOLEAN, NEW r, r = RaiseIrq(a, x)
  PROVE  TxStep(r, a)
<1>1. Only(r, a, {"irq", "fromLines"}) /\ Fits(r)
  BY RaiseIrqOnly
<1>2. Only(r, a, TxFields)
  BY <1>1, OnlyMore DEF TxFields
<1>3. r.pending = a.pending /\ r.leaving = a.leaving /\ r.tdrFull = a.tdrFull
  BY <1>1 DEF Only, ChipFields
<1> QED BY <1>1, <1>2, <1>3 DEF TxStep

LEMMA LeavingIsOne ==
  ASSUME NEW a, Good(a)
  PROVE  a.leaving \in 0 .. 1 /\ Fits(a)
BY DEF Good, OnceOk

\* What is held and could go, goes.
LEMMA TryStartSteps ==
  ASSUME NEW a, Good(a), NEW r, r = TryStart(a)
  PROVE  TxStep(r, a) /\ ~ (r.tdrFull /\ ~ r.txBusy /\ Sends(r))
<1>1. CASE a.tdrFull /\ ~ a.txBusy /\ Sends(a)
  <2>1. r = StartTransmit(a, 0) /\ a.tic \in {"irq", "on"} /\ a.tdrFull
    BY <1>1 DEF TryStart, Sends
  <2>2. 0 \in - Frame .. 0
    BY FrameIsLong
  <2> QED BY <2>1, <2>2, LeavingIsOne, StartTransmitSteps
<1>2. CASE ~ (a.tdrFull /\ ~ a.txBusy /\ Sends(a))
  <2>1. r = a
    BY <1>2 DEF TryStart
  <2> QED BY <2>1, <1>2, LeavingIsOne, SameSteps
<1> QED BY <1>1, <1>2

LEMMA OnBoundarySteps ==
  ASSUME NEW a, Good(a), NEW at \in - Frame .. 0, NEW r, r = OnBoundary(a, at)
  PROVE  TxStep(r, a)
<1> USE LeavingIsOne
<1>1. PICK b : b = [a EXCEPT !.txBusy = FALSE, !.txLeft = 0]
  OBVIOUS
<1>2. PICK c : c = [b EXCEPT !.phase = (- at) % Frame]
  OBVIOUS
<1>3. PICK d : d = [b EXCEPT !.brk = TRUE]
  OBVIOUS
<1>4. Only(b, a, {"txBusy", "txLeft"})
  BY <1>1 DEF Fits, Only, Record
<1>5. Fits(b)
  <2>1. b.txBusy = FALSE /\ b.txLeft = 0
    BY <1>1 DEF ChipFields, Fits, Record
  <2>2. b.txLeft \in - Frame .. Frame
    BY <2>1, FrameIsLong
  <2>3. \A f \in {"txBusy", "txLeft"} \cap ChipFields : b[f] \in Values(f)
    BY <2>1, <2>2 DEF Values
  <2> QED BY <1>4, <2>3, OnlyFits
<1>6. Only(b, a, TxFields)
  BY <1>4, OnlyMore DEF TxFields
<1>7. b.pending = a.pending /\ b.leaving = a.leaving /\ b.tdrFull = a.tdrFull /\ b.tic = a.tic
  BY <1>4 DEF Only, ChipFields
<1>8. ASSUME NEW s, Fits(s), Only(s, b, {"phase", "brk"})
      PROVE  TxStep(s, a)
  <2>1. Only(s, b, TxFields)
    BY <1>8, OnlyMore DEF TxFields
  <2>2. Only(s, a, TxFields)
    BY <1>6, <2>1, OnlyThen
  <2>3. s.pending = b.pending /\ s.leaving = b.leaving /\ s.tdrFull = b.tdrFull
    BY <1>8 DEF Only, ChipFields
  <2> QED BY <1>7, <1>8, <2>2, <2>3 DEF TxStep
<1>9. Fits(c) /\ Only(c, b, {"phase", "brk"})
  <2>1. Only(c, b, {"phase", "brk"})
    BY <1>2, <1>5 DEF Fits, Only, Record
  <2>2. c.phase = (- at) % Frame /\ c.brk = b.brk
    BY <1>2, <1>5 DEF ChipFields, Fits, Record
  <2>3. c.phase \in 0 .. Frame - 1 /\ c.brk \in BOOLEAN
    <3>1. - at \in Int
      BY FrameIsLong
    <3> QED BY <2>2, <3>1, PhaseOf, <1>5, FieldsFit
  <2>4. \A f \in {"phase", "brk"} \cap ChipFields : c[f] \in Values(f)
    BY <2>3 DEF Values
  <2> QED BY <2>1, <2>4, <1>5, OnlyFits
<1>10. Fits(d) /\ Only(d, b, {"phase", "brk"})
  <2>1. Only(d, b, {"phase", "brk"})
    BY <1>3, <1>5 DEF Fits, Only, Record
  <2>2. d.brk = TRUE /\ d.phase = b.phase
    BY <1>3, <1>5 DEF ChipFields, Fits, Record
  <2>3. d.phase \in 0 .. Frame - 1 /\ d.brk \in BOOLEAN
    BY <2>2, <1>5, FieldsFit
  <2>4. \A f \in {"phase", "brk"} \cap ChipFields : d[f] \in Values(f)
    BY <2>3 DEF Values
  <2> QED BY <2>1, <2>4, <1>5, OnlyFits
<1>11. \/ r = d \/ r = c \/ r = RaiseIrq(c, FALSE)
       \/ r = StartTransmit(b, at) /\ a.tdrFull /\ Sends(a)
  BY <1>1, <1>2, <1>3 DEF OnBoundary
<1>12. CASE r = d
  BY <1>12, <1>8, <1>10
<1>13. CASE r = c
  BY <1>13, <1>8, <1>9
<1>14. CASE r = RaiseIrq(c, FALSE)
  <2>1. TxStep(c, a)
    BY <1>8, <1>9
  <2>2. TxStep(r, c)
    BY <1>9, <1>14, RaiseIrqSteps
  <2>3. Only(r, c, {"irq", "fromLines"}) /\ Fits(r)
    BY <1>9, <1>14, RaiseIrqOnly
  <2>4. r.pending = c.pending /\ r.leaving = c.leaving /\ r.tdrFull = c.tdrFull
    BY <2>3 DEF Only, ChipFields
  <2>5. Only(r, a, TxFields)
    BY <2>1, <2>2, OnlyThen DEF TxStep
  <2> QED BY <2>1, <2>3, <2>4, <2>5 DEF TxStep
<1>15. CASE r = StartTransmit(b, at) /\ a.tdrFull /\ Sends(a)
  <2>1. b.tdrFull /\ b.tic \in {"irq", "on"} /\ b.leaving \in 0 .. 1
    BY <1>15, <1>7 DEF Sends
  <2>2. TxStep(r, b) /\ r.tdrFull = FALSE
    BY <2>1, <1>15, <1>5, StartTransmitSteps
  <2>3. Only(r, a, TxFields)
    BY <2>2, <1>6, OnlyThen DEF TxStep
  <2> QED BY <2>1, <2>2, <2>3, <1>7 DEF TxStep
<1> QED BY <1>11, <1>12, <1>13, <1>14, <1>15
-----------------------------------------------------------------------------
(* One cycle of an advance.                                                *)

\* A cycle passes and nothing has fallen due yet.
Passed(a) ==
  [a EXCEPT
     !.txLeft = IF a.txBusy /\ @ > - Frame THEN @ - 1 ELSE @,
     !.phase = IF a.clocked THEN (@ + 1) % Frame ELSE @,
     !.rxLeft = IF a.rxBusy THEN @ - 1 ELSE @,
     !.ready = IF @ >= 0 THEN @ + 1 ELSE @]

LEMMA PassedFields ==
  ASSUME NEW a, Good(a), NEW r, r = Passed(a)
  PROVE  /\ Fits(r) /\ Only(r, a, {"txLeft", "phase", "rxLeft", "ready"})
         /\ r.rxLeft = IF a.rxBusy THEN a.rxLeft - 1 ELSE a.rxLeft
         /\ r.ready = IF a.ready >= 0 THEN a.ready + 1 ELSE a.ready
         /\ r.rdrf = a.rdrf /\ r.rdr = a.rdr /\ r.rxBusy = a.rxBusy /\ r.completed = a.completed
         /\ r.shift = a.shift /\ r.overrun = a.overrun
         /\ r.pending = a.pending /\ r.leaving = a.leaving /\ r.tdrFull = a.tdrFull /\ r.tic = a.tic
<1> DEFINE F == {"txLeft", "phase", "rxLeft", "ready"}
<1>1. Fits(a) /\ ByteOk(a)
  BY DEF Good
<1>2. Only(r, a, F)
  BY <1>1 DEF Passed, Fits, Only, Record
<1>3. /\ r.rxLeft = IF a.rxBusy THEN a.rxLeft - 1 ELSE a.rxLeft
      /\ r.ready = IF a.ready >= 0 THEN a.ready + 1 ELSE a.ready
      /\ r.phase = IF a.clocked THEN (a.phase + 1) % Frame ELSE a.phase
      /\ r.txLeft = IF a.txBusy /\ a.txLeft > - Frame THEN a.txLeft - 1 ELSE a.txLeft
  BY <1>1 DEF Passed, ChipFields, Fits, Record
<1>4. r.rxLeft \in 0 .. Frame
  BY <1>1, <1>3, FieldsFit, FrameIsLong DEF ByteOk
<1>5. r.ready \in Int
  BY <1>1, <1>3, FieldsFit
<1>6. r.phase \in 0 .. Frame - 1
  <2>1. a.phase \in 0 .. Frame - 1 /\ a.clocked \in BOOLEAN
    BY <1>1, FieldsFit
  <2>2. (a.phase + 1) % Frame \in 0 .. Frame - 1
    BY <2>1, FrameIsLong, PhaseOf
  <2> QED BY <1>3, <2>1, <2>2
<1>7. r.txLeft \in - Frame .. Frame
  <2>1. a.txLeft \in - Frame .. Frame
    BY <1>1, FieldsFit
  <2> QED BY <1>3, <2>1, FrameIsLong
<1>8. \A f \in F \cap ChipFields : r[f] \in Values(f)
  BY <1>4, <1>5, <1>6, <1>7 DEF Values
<1>9. Fits(r)
  BY <1>1, <1>2, <1>8, OnlyFits
<1>10. /\ r.rdrf = a.rdrf /\ r.rdr = a.rdr /\ r.rxBusy = a.rxBusy /\ r.completed = a.completed
       /\ r.shift = a.shift /\ r.overrun = a.overrun
       /\ r.pending = a.pending /\ r.leaving = a.leaving /\ r.tdrFull = a.tdrFull /\ r.tic = a.tic
  BY <1>2 DEF Only, ChipFields
<1> QED BY <1>2, <1>3, <1>9, <1>10

\* The byte is complete: it is handed over, and echoed where nothing else is sent.
\* ByteOk speaks of the chip after its byte, so a is the chip a cycle after one.
LEMMA OnRdrfGood ==
  ASSUME NEW a, Fits(a), OnceOk(a), Arriving(a), ~ a.rdrf, a.shift = 1, ~ a.overrun, a.rxLeft >= 1,
         NEW r, r = OnRdrf(a)
  PROVE  /\ Good(r) /\ InFlight(r) = InFlight(a) /\ ~ Arriving(r)
         /\ r.rxBusy = a.rxBusy /\ r.rxLeft = a.rxLeft /\ r.ready = a.ready
<1>1. PICK b : b = [a EXCEPT !.completed = TRUE, !.shift = Nul]
  OBVIOUS
<1>2. PICK c : c = [b EXCEPT !.rdr = a.shift, !.rdrf = TRUE, !.overrun = FALSE]
  OBVIOUS
<1>3. /\ Only(b, a, {"completed", "shift"}) /\ b.completed = TRUE /\ b.shift = 0
  BY <1>1 DEF Only, Fits, Record, ChipFields, Nul
<1>4. Fits(b)
  <2>1. b.shift \in Bytes
    BY <1>3 DEF Bytes
  <2>2. \A f \in {"completed", "shift"} \cap ChipFields : b[f] \in Values(f)
    BY <1>3, <2>1 DEF Values
  <2> QED BY <1>3, <2>2, OnlyFits
<1>5. Only(c, b, {"rdr", "rdrf", "overrun"}) /\ c.rdr = 1 /\ c.rdrf = TRUE /\ c.overrun = FALSE
  BY <1>2, <1>4 DEF Only, Fits, Record, ChipFields
<1>6. Fits(c)
  <2>1. c.rdr \in Bytes
    BY <1>5 DEF Bytes
  <2>2. \A f \in {"rdr", "rdrf", "overrun"} \cap ChipFields : c[f] \in Values(f)
    BY <1>5, <2>1 DEF Values
  <2> QED BY <1>4, <1>5, <2>2, OnlyFits
<1>7. /\ c.completed = TRUE /\ c.rxBusy = a.rxBusy /\ c.rxLeft = a.rxLeft /\ c.ready = a.ready
      /\ c.tic = a.tic /\ c.tdrFull = a.tdrFull /\ c.pending = a.pending /\ c.leaving = a.leaving
  <2>1. /\ b.rxBusy = a.rxBusy /\ b.rxLeft = a.rxLeft /\ b.ready = a.ready
        /\ b.tic = a.tic /\ b.tdrFull = a.tdrFull /\ b.pending = a.pending /\ b.leaving = a.leaving
    BY <1>3 DEF Only, ChipFields
  <2>2. /\ c.completed = b.completed /\ c.rxBusy = b.rxBusy /\ c.rxLeft = b.rxLeft /\ c.ready = b.ready
        /\ c.tic = b.tic /\ c.tdrFull = b.tdrFull /\ c.pending = b.pending /\ c.leaving = b.leaving
    BY <1>5 DEF Only, ChipFields
  <2> QED BY <2>1, <2>2, <1>3
<1>8. ~ Arriving(c) /\ InFlight(c) = 1 /\ InFlight(a) = 1
  BY <1>5, <1>7 DEF Arriving, InFlight
<1>9. OnceOk(c) /\ ByteOk(c)
  BY <1>5, <1>7, <1>8 DEF OnceOk, ByteOk
<1>10. Good(c)
  BY <1>6, <1>9 DEF Good
<1>11. PICK d : d = IF a.dtr /\ ~ a.quiet THEN RaiseIrq(c, FALSE) ELSE c
  OBVIOUS
<1>12. Good(d) /\ RxSame(d, c) /\ d.tic = c.tic /\ d.pending = c.pending /\ d.leaving = c.leaving
  <2>1. CASE d = c
    BY <2>1, <1>10 DEF RxSame
  <2>2. CASE d = RaiseIrq(c, FALSE)
    <3>1. TxStep(d, c) /\ Only(d, c, {"irq", "fromLines"})
      BY <2>2, <1>6, RaiseIrqSteps, RaiseIrqOnly
    <3>2. Good(d) /\ RxSame(d, c) /\ d.tic = c.tic
      BY <3>1, <1>10, TxStepKeeps
    <3>3. d.pending = c.pending /\ d.leaving = c.leaving
      BY <3>1 DEF Only, ChipFields
    <3> QED BY <3>2, <3>3
  <2> QED BY <2>1, <2>2, <1>11
<1>13. \/ r = d
       \/ r = Emit(d) /\ a.tic = "off"
  BY <1>1, <1>2, <1>11 DEF OnRdrf
<1>14. InFlight(d) = 1 /\ ~ Arriving(d)
  BY <1>8, <1>12, RxSameKeeps
<1>15. CASE r = d
  BY <1>15, <1>7, <1>8, <1>12, <1>14 DEF RxSame
<1>16. CASE r = Emit(d) /\ a.tic = "off"
  <2>1. d.pending = FALSE /\ d.leaving = 0
    <3>1. a.pending = FALSE /\ a.leaving = 0
      <4>1. ~ a.pending /\ a.pending \in BOOLEAN
        BY <1>16, FieldsFit DEF OnceOk
      <4> QED BY <4>1 DEF OnceOk
    <3> QED BY <3>1, <1>7, <1>12
  <2>2. /\ Only(r, d, {"pending", "leaving"}) /\ Fits(r) /\ r.pending = TRUE /\ r.leaving = d.leaving + 1
    <3>1. Fits(d) /\ d.leaving \in 0 .. 1
      BY <1>12, <2>1 DEF Good
    <3> QED BY <1>16, <3>1, EmitOnly
  <2>3. RxSame(r, d)
    BY <2>2, RxUntouched DEF RxFields
  <2>4. r.tic = "off"
    <3>1. r.tic = d.tic
      BY <2>2 DEF Only, ChipFields
    <3> QED BY <3>1, <1>7, <1>12, <1>16
  <2>5. ByteOk(r) /\ ~ Arriving(r) /\ InFlight(r) = 1
    BY <2>3, <1>12, <1>14, RxSameKeeps DEF Good
  <2>6. OnceOk(r)
    BY <2>1, <2>2, <2>4, <2>5 DEF OnceOk
  <2> QED BY <2>2, <2>3, <2>5, <2>6, <1>7, <1>8, <1>12 DEF Good, RxSame
<1> QED BY <1>13, <1>15, <1>16

LEMMA OnFreeGood ==
  ASSUME NEW a, Fits(a), OnceOk(a), ~ Arriving(a), a.rdrf => a.rdr = 1, ~ a.overrun,
         NEW r, r = OnFree(a)
  PROVE  Good(r) /\ InFlight(r) = InFlight(a) /\ ~ r.rxBusy /\ r.ready = 0
<1> DEFINE F == {"rxBusy", "completed", "ready"}
<1>1. Only(r, a, F) /\ r.rxBusy = FALSE /\ r.completed = FALSE /\ r.ready = 0
  BY DEF OnFree, Only, Fits, Record, ChipFields
<1>2. Fits(r)
  <2>1. r.ready \in Int
    BY <1>1
  <2>2. \A f \in F \cap ChipFields : r[f] \in Values(f)
    BY <1>1, <2>1 DEF Values
  <2> QED BY <2>2, <1>1, OnlyFits
<1>3. /\ r.rdrf = a.rdrf /\ r.rdr = a.rdr /\ r.overrun = a.overrun
      /\ r.tic = a.tic /\ r.tdrFull = a.tdrFull /\ r.pending = a.pending /\ r.leaving = a.leaving
  BY <1>1 DEF Only, ChipFields
<1>4. ~ Arriving(r) /\ InFlight(r) = InFlight(a)
  BY <1>1, <1>3 DEF Arriving, InFlight
<1> QED BY <1>1, <1>2, <1>3, <1>4 DEF Good, ByteOk, OnceOk
LEMMA CycleGood ==
  ASSUME NEW a, Good(a), NEW r, r = Cycle(a)
  PROVE  /\ Good(r) /\ InFlight(r) = InFlight(a)
         /\ r.rxBusy = (a.rxBusy /\ a.rxLeft # 1)
         /\ r.rxBusy => r.rxLeft = a.rxLeft - 1
         /\ r.ready = IF a.rxBusy /\ a.rxLeft = 1 THEN 0
                      ELSE IF a.ready >= 0 THEN a.ready + 1 ELSE a.ready
<1> DEFINE due == BoundaryArmed(a) /\ ToBoundary(a) = 1
<1>1. PICK b : b = Passed(a)
  OBVIOUS
<1>2. PICK c : c = IF b.rxBusy /\ ~ b.completed /\ b.rxLeft = Frame - Rdrf THEN OnRdrf(b) ELSE b
  OBVIOUS
<1>3. PICK d : d = IF c.rxBusy /\ c.rxLeft = 0 THEN OnFree(c) ELSE c
  OBVIOUS
<1>4. r = IF due THEN OnBoundary(d, 0) ELSE d
  BY <1>1, <1>2, <1>3 DEF Cycle, Passed
<1> HIDE DEF due
<1>5. /\ Fits(b)
      /\ b.rxLeft = IF a.rxBusy THEN a.rxLeft - 1 ELSE a.rxLeft
      /\ b.ready = IF a.ready >= 0 THEN a.ready + 1 ELSE a.ready
      /\ b.rdrf = a.rdrf /\ b.rdr = a.rdr /\ b.rxBusy = a.rxBusy /\ b.completed = a.completed
      /\ b.shift = a.shift /\ b.overrun = a.overrun
      /\ b.pending = a.pending /\ b.leaving = a.leaving /\ b.tdrFull = a.tdrFull /\ b.tic = a.tic
  BY <1>1, PassedFields
<1>6. Arriving(b) = Arriving(a) /\ InFlight(b) = InFlight(a) /\ OnceOk(b)
  BY <1>5 DEF Arriving, InFlight, OnceOk, Good
<1>7. /\ Fits(a) /\ a.rxLeft \in 0 .. Frame /\ a.rxBusy \in BOOLEAN /\ a.rdrf \in BOOLEAN
      /\ a.completed \in BOOLEAN /\ a.ready \in Int
  BY FieldsFit DEF Good
<1>8. /\ ~ b.overrun /\ (b.rdrf => b.rdr = 1 /\ ~ Arriving(b))
      /\ (Arriving(b) => b.shift = 1 /\ b.rxLeft >= Frame - Rdrf /\ ~ b.rdrf)
      /\ (b.rxBusy => b.rxLeft >= 0)
  <2>1. ByteOk(a)
    BY DEF Good
  <2>2. Arriving(a) => a.rxLeft > Frame - Rdrf /\ a.rxBusy
    BY <2>1 DEF ByteOk, Arriving
  <2>3. Arriving(a) => a.rxLeft - 1 >= Frame - Rdrf
    BY <2>2, <1>7, FrameIsLong
  <2>4. a.rxBusy => a.rxLeft - 1 >= 0
    BY <2>1, <1>7 DEF ByteOk
  <2> QED BY <2>1, <2>2, <2>3, <2>4, <1>5, <1>6 DEF ByteOk
<1>9. /\ c.rxBusy = b.rxBusy /\ c.rxLeft = b.rxLeft /\ c.ready = b.ready
      /\ Fits(c) /\ OnceOk(c) /\ InFlight(c) = InFlight(b)
      /\ ~ c.overrun /\ (c.rdrf => c.rdr = 1 /\ ~ Arriving(c))
      /\ (Arriving(c) => c.shift = 1 /\ c.rxLeft > Frame - Rdrf)
  <2>1. CASE b.rxBusy /\ ~ b.completed /\ b.rxLeft = Frame - Rdrf
    <3>1. c = OnRdrf(b) /\ Arriving(b)
      BY <2>1, <1>2 DEF Arriving
    <3>2. b.rxLeft >= 1
      BY <2>1, FrameIsLong
    <3>3. /\ Good(c) /\ InFlight(c) = InFlight(b) /\ ~ Arriving(c)
          /\ c.rxBusy = b.rxBusy /\ c.rxLeft = b.rxLeft /\ c.ready = b.ready
      BY <3>1, <3>2, <1>5, <1>6, <1>8, OnRdrfGood
    <3> QED BY <3>3 DEF Good, ByteOk
  <2>2. CASE ~ (b.rxBusy /\ ~ b.completed /\ b.rxLeft = Frame - Rdrf)
    <3>1. c = b
      BY <2>2, <1>2
    <3>2. Arriving(b) => b.rxLeft # Frame - Rdrf
      BY <2>2 DEF Arriving
    <3>3. b.rxLeft \in Int
      BY <1>5, FieldsFit
    <3>4. Arriving(b) => b.rxLeft > Frame - Rdrf
      BY <3>2, <3>3, <1>8, FrameIsLong
    <3> QED BY <3>1, <3>4, <1>5, <1>6, <1>8
  <2> QED BY <2>1, <2>2
<1>10. /\ Good(d) /\ InFlight(d) = InFlight(a)
       /\ d.rxBusy = (c.rxBusy /\ c.rxLeft # 0)
       /\ d.rxBusy => d.rxLeft = c.rxLeft
       /\ d.ready = IF c.rxBusy /\ c.rxLeft = 0 THEN 0 ELSE c.ready
  <2>1. CASE c.rxBusy /\ c.rxLeft = 0
    <3>1. d = OnFree(c)
      BY <2>1, <1>3
    <3>2. ~ Arriving(c)
      BY <2>1, <1>9, FrameIsLong
    <3>3. Good(d) /\ InFlight(d) = InFlight(c) /\ ~ d.rxBusy /\ d.ready = 0
      BY <3>1, <3>2, <1>9, OnFreeGood
    <3>4. d.rxBusy \in BOOLEAN
      BY <3>3, FieldsFit DEF Good
    <3> QED BY <3>3, <3>4, <2>1, <1>6, <1>9
  <2>2. CASE ~ (c.rxBusy /\ c.rxLeft = 0)
    <3>1. d = c
      BY <2>2, <1>3
    <3>2. c.rxBusy \in BOOLEAN /\ c.rxLeft \in Int
      BY <1>9, FieldsFit
    <3>3. c.rxBusy => c.rxLeft >= 1
      BY <2>2, <3>2, <1>8, <1>9
    <3>4. Good(c)
      BY <3>3, <1>9 DEF Good, ByteOk
    <3>5. c.rxBusy = (c.rxBusy /\ c.rxLeft # 0)
      BY <2>2, <3>2
    <3> QED BY <3>1, <3>4, <3>5, <2>2, <1>6, <1>9
  <2> QED BY <2>1, <2>2
<1>11. Good(r) /\ RxSame(r, d)
  <2>1. CASE due
    <3>1. r = OnBoundary(d, 0) /\ 0 \in - Frame .. 0
      BY <2>1, <1>4, FrameIsLong
    <3>2. TxStep(r, d)
      BY <3>1, <1>10, OnBoundarySteps
    <3> QED BY <3>2, <1>10, TxStepKeeps
  <2>2. CASE ~ due
    BY <2>2, <1>4, <1>10 DEF RxSame
  <2> QED BY <2>1, <2>2
<1>12. InFlight(r) = InFlight(a) /\ r.rxBusy = d.rxBusy /\ r.rxLeft = d.rxLeft /\ r.ready = d.ready
  BY <1>10, <1>11, RxSameKeeps DEF RxSame
<1>13. (c.rxBusy /\ c.rxLeft = 0) = (a.rxBusy /\ a.rxLeft = 1)
  BY <1>5, <1>7, <1>9
<1>14. (c.rxBusy /\ c.rxLeft # 0) = (a.rxBusy /\ a.rxLeft # 1)
  BY <1>5, <1>7, <1>9
<1>15. r.rxBusy => r.rxLeft = a.rxLeft - 1
  BY <1>5, <1>9, <1>10, <1>12
<1>16. r.ready = IF a.rxBusy /\ a.rxLeft = 1 THEN 0 ELSE b.ready
  BY <1>9, <1>10, <1>12, <1>13
<1>17. r.rxBusy = (a.rxBusy /\ a.rxLeft # 1)
  BY <1>10, <1>12, <1>14
<1> QED BY <1>11, <1>12, <1>15, <1>16, <1>17, <1>5
-----------------------------------------------------------------------------
(* A whole advance: played back cycle by cycle, from the chip as it was    *)
(* left, a character of which may have ended while there was no clock.     *)

LEMMA CatchUpSteps ==
  ASSUME NEW a, Good(a), NEW r, r = CatchUp(a)
  PROVE  Good(r) /\ RxSame(r, a)
<1>1. CASE a.clocked /\ a.txBusy /\ a.txLeft <= 0
  <2>1. r = OnBoundary(a, a.txLeft)
    BY <1>1 DEF CatchUp
  <2>2. a.txLeft \in - Frame .. 0
    BY <1>1, FieldsFit, FrameIsLong DEF Good
  <2>3. TxStep(r, a)
    BY <2>1, <2>2, OnBoundarySteps
  <2> QED BY <2>3, TxStepKeeps
<1>2. CASE ~ (a.clocked /\ a.txBusy /\ a.txLeft <= 0)
  <2>1. r = a
    BY <1>2 DEF CatchUp
  <2> QED BY <2>1 DEF RxSame
<1> QED BY <1>1, <1>2

LEMMA AgedGood ==
  ASSUME NEW a, Good(a), NEW r, r = Aged(a)
  PROVE  /\ Good(r) /\ InFlight(r) = InFlight(a) /\ r.rxBusy = a.rxBusy /\ r.rxLeft = a.rxLeft
         /\ r.ready = - 1
<1>1. PICK b : b = CatchUp(a)
  OBVIOUS
<1>2. PICK c : c = CatchUp(b)
  OBVIOUS
<1>3. r = [c EXCEPT !.ready = - 1]
  BY <1>1, <1>2 DEF Aged
<1>4. Good(b) /\ RxSame(b, a)
  BY <1>1, CatchUpSteps
<1>5. Good(c) /\ RxSame(c, b)
  BY <1>2, <1>4, CatchUpSteps
<1>6. RxSame(c, a)
  BY <1>4, <1>5, RxSameThen
<1>7. Only(r, c, {"ready"}) /\ r.ready = - 1
  BY <1>3, <1>5 DEF Only, Good, Fits, Record, ChipFields
<1>8. Fits(r)
  <2>1. r.ready \in Int
    BY <1>7
  <2>2. \A f \in {"ready"} \cap ChipFields : r[f] \in Values(f)
    BY <2>1 DEF Values
  <2> QED BY <2>2, <1>5, <1>7, OnlyFits DEF Good
<1>9. /\ r.rdrf = c.rdrf /\ r.rdr = c.rdr /\ r.rxBusy = c.rxBusy /\ r.completed = c.completed
      /\ r.rxLeft = c.rxLeft /\ r.shift = c.shift /\ r.overrun = c.overrun
      /\ r.tic = c.tic /\ r.tdrFull = c.tdrFull /\ r.pending = c.pending /\ r.leaving = c.leaving
  BY <1>7 DEF Only, ChipFields
<1>10. Arriving(r) = Arriving(c) /\ InFlight(r) = InFlight(c)
  BY <1>9 DEF Arriving, InFlight
<1>11. Good(r)
  BY <1>5, <1>8, <1>9, <1>10 DEF Good, ByteOk, OnceOk
<1> QED BY <1>6, <1>7, <1>9, <1>10, <1>11, RxSameKeeps DEF RxSame

\* The chip k cycles into an advance from a.
Played(p, a, k) ==
  /\ Good(p) /\ InFlight(p) = InFlight(a)
  /\ p.rxBusy => a.rxBusy /\ p.rxLeft = a.rxLeft - k /\ p.ready = - 1
  /\ p.ready = - 1 \/ (a.rxBusy /\ p.ready = k - a.rxLeft /\ p.ready >= 0)

LEMMA PlayedOn ==
  ASSUME NEW a, Good(a), NEW k \in Nat, NEW p, Played(p, a, k), NEW r, r = Cycle(p)
  PROVE  Played(r, a, k + 1)
<1>1. /\ Good(r) /\ InFlight(r) = InFlight(p)
      /\ r.rxBusy = (p.rxBusy /\ p.rxLeft # 1)
      /\ r.rxBusy => r.rxLeft = p.rxLeft - 1
      /\ r.ready = IF p.rxBusy /\ p.rxLeft = 1 THEN 0
                   ELSE IF p.ready >= 0 THEN p.ready + 1 ELSE p.ready
  BY CycleGood DEF Played
<1>2. a.rxLeft \in 0 .. Frame /\ p.ready \in Int /\ p.rxLeft \in Int /\ p.rxBusy \in BOOLEAN
  BY FieldsFit, FrameIsLong DEF Played, Good
<1>3. CASE p.rxBusy
  <2>1. a.rxBusy /\ p.rxLeft = a.rxLeft - k /\ p.ready = - 1 /\ InFlight(p) = InFlight(a)
    BY <1>3 DEF Played
  <2>2. CASE p.rxLeft = 1
    <3>1. ~ r.rxBusy /\ r.ready = 0
      BY <2>2, <1>1, <1>3
    <3>2. r.ready = (k + 1) - a.rxLeft
      BY <3>1, <2>1, <2>2, <1>2
    <3>3. r.ready >= 0
      BY <3>1
    <3>4. Good(r) /\ InFlight(r) = InFlight(a)
      BY <2>1, <1>1
    <3>5. a.rxBusy /\ r.ready = (k + 1) - a.rxLeft /\ r.ready >= 0
      BY <2>1, <3>2, <3>3
    <3>6. r.rxBusy => a.rxBusy /\ r.rxLeft = a.rxLeft - (k + 1) /\ r.ready = - 1
      BY <3>1
    <3> QED BY <3>4, <3>5, <3>6, Zenon DEF Played
  <2>3. CASE p.rxLeft # 1
    <3>1. r.ready = - 1
      BY <2>1, <2>3, <1>1
    <3>2. r.rxBusy => r.rxLeft = a.rxLeft - (k + 1)
      BY <1>1, <1>2, <2>1
    <3> QED BY <3>1, <3>2, <2>1, <1>1 DEF Played
  <2> QED BY <2>2, <2>3
<1>4. CASE ~ p.rxBusy
  BY <1>1, <1>2, <1>4, FrameIsLong DEF Played
<1> QED BY <1>3, <1>4

\* An advance that is not late by more than Late for any event of the chip loses
\* nothing, and the receiver has been free for at most that long.
LEMMA AdvanceGood ==
  ASSUME NEW a, Good(a), a.ready \in - 1 .. Late, NEW n \in Nat,
         \A e \in Events(a) : n <= e + Late \/ n <= Late,
         NEW r, r = Advance(a, n)
  PROVE  Good(r) /\ InFlight(r) = InFlight(a) /\ r.ready \in - 1 .. Late
<1>1. CASE n = 0
  BY <1>1 DEF Advance
<1>2. CASE n # 0
  <2> DEFINE S == {p \in UNION {[ChipFields -> UNION {Values(f) : f \in ChipFields}]} : Good(p)}
  <2>1. \A p : Good(p) => p \in S
    <3> SUFFICES ASSUME NEW p, Good(p)
                 PROVE  p \in [ChipFields -> UNION {Values(f) : f \in ChipFields}]
      OBVIOUS
    <3>1. p = [f \in ChipFields |-> p[f]] /\ \A f \in ChipFields : p[f] \in Values(f)
      BY DEF Good, Fits, Record
    <3>2. \A f \in ChipFields : p[f] \in UNION {Values(g) : g \in ChipFields}
      BY <3>1
    <3> QED BY <3>1, <3>2
  <2>2. \A p \in S : Good(p)
    OBVIOUS
  <2> HIDE DEF S
  <2>3. \A p \in S : Cycle(p) \in S
    BY <2>1, <2>2, CycleGood
  <2>4. PICK q : q = Aged(a)
    OBVIOUS
  <2>5. /\ Good(q) /\ InFlight(q) = InFlight(a) /\ q.rxBusy = a.rxBusy /\ q.rxLeft = a.rxLeft
        /\ q.ready = - 1
    BY <2>4, AgedGood
  <2>6. PICK g \in [0 .. n -> S] : /\ Advance(a, n) = g[n] /\ g[0] = Aged(a)
                                    /\ \A k \in 1 .. n : g[k] = Cycle(g[k - 1])
    <3>1. Aged(a) \in S
      BY <2>1, <2>4, <2>5
    <3> QED BY <1>2, <2>3, <3>1, AdvanceRuns
  <2> DEFINE T == {k \in 0 .. n : Played(g[k], a, k)}
  <2>7. 0 \in T
    <3>1. a.rxLeft \in Int
      BY FieldsFit, FrameIsLong DEF Good
    <3>2. Played(q, a, 0)
      BY <3>1, <2>5 DEF Played
    <3> QED BY <3>2, <2>4, <2>6
  <2>8. ASSUME NEW k \in 0 .. n, k < n, k \in T PROVE k + 1 \in T
    <3>1. k + 1 \in 1 .. n /\ k + 1 - 1 = k /\ k \in Nat /\ k + 1 \in 0 .. n
      BY <2>8
    <3>2. g[k + 1] = Cycle(g[k])
      BY <2>6, <3>1
    <3>3. Played(g[k + 1], a, k + 1)
      BY <2>8, <3>1, <3>2, PlayedOn
    <3> QED BY <3>1, <3>3
  <2> HIDE DEF T
  <2>9. \A k \in 0 .. n : k \in T
    BY <2>7, <2>8, UpTo
  <2>10. Played(r, a, n)
    <3>1. n \in T
      BY <2>9
    <3> QED BY <3>1, <2>6 DEF T
  <2>11. a.rxBusy => n <= a.rxLeft + Late
    <3> SUFFICES ASSUME a.rxBusy PROVE n <= a.rxLeft + Late
      OBVIOUS
    <3>1. a.rxLeft \in 0 .. Frame /\ Late \in Nat
      BY FieldsFit, SerialCardAssumption DEF Good
    <3>2. PICK e \in Events(a) : e = IF a.completed THEN a.rxLeft ELSE a.rxLeft - (Frame - Rdrf)
      BY DEF Events
    <3>3. e \in Int /\ e <= a.rxLeft
      BY <3>1, <3>2, FrameIsLong
    <3> QED BY <3>1, <3>3
  <2>12. r.ready \in - 1 .. Late
    <3>1. a.rxLeft \in 0 .. Frame /\ Late \in Nat /\ r.ready \in Int
      BY <2>10, FieldsFit, SerialCardAssumption DEF Good, Played
    <3> QED BY <2>10, <2>11, <3>1, FrameIsLong DEF Played
  <2> QED BY <2>10, <2>12 DEF Played
<1> QED BY <1>1, <1>2
-----------------------------------------------------------------------------
(* The pins and the registers.                                             *)

\* Before an entry's own work the byte that left has been handed over.
HandedOver(a) == Good(a) /\ a.pending = FALSE

RegisterFields ==
  {"clocked", "tic", "dtr", "quiet", "echo", "tdrFull", "irq", "fromLines", "brk", "phase", "lines", "overrun"}

\* A register or a pin changes what says how to go on, never a byte on its way.
LEMMA RegisterKeeps ==
  ASSUME NEW a, Good(a), NEW r, Only(r, a, RegisterFields), Fits(r), r.overrun = FALSE,
         ~ a.pending \/ (r.tic = a.tic /\ r.tdrFull = a.tdrFull)
  PROVE  /\ Good(r) /\ InFlight(r) = InFlight(a) /\ r.ready = a.ready /\ r.pending = a.pending
<1>1. /\ r.rdrf = a.rdrf /\ r.rdr = a.rdr /\ r.rxBusy = a.rxBusy /\ r.completed = a.completed
      /\ r.rxLeft = a.rxLeft /\ r.shift = a.shift /\ r.ready = a.ready
      /\ r.pending = a.pending /\ r.leaving = a.leaving
  BY DEF Only, RegisterFields, ChipFields
<1>2. Arriving(r) = Arriving(a) /\ InFlight(r) = InFlight(a)
  BY <1>1 DEF Arriving, InFlight
<1>3. ByteOk(r)
  BY <1>1, <1>2 DEF Good, ByteOk
<1>4. OnceOk(r)
  BY <1>1, <1>2 DEF Good, OnceOk
<1> QED BY <1>1, <1>2, <1>3, <1>4 DEF Good

LEMMA NoOverrun ==
  ASSUME NEW a, Good(a)
  PROVE  a.overrun = FALSE /\ Fits(a) /\ Record(a)
BY FieldsFit DEF Good, ByteOk

\* Whatever was set first, what is held and can go then goes.
LEMMA ThenStarts ==
  ASSUME NEW a, Good(a), NEW b, Good(b), InFlight(b) = InFlight(a), b.ready = a.ready,
         NEW r, r = TryStart(b)
  PROVE  /\ Good(r) /\ InFlight(r) = InFlight(a) /\ r.ready = a.ready
         /\ ~ (r.tdrFull /\ ~ r.txBusy /\ Sends(r))
<1>1. TxStep(r, b) /\ ~ (r.tdrFull /\ ~ r.txBusy /\ Sends(r))
  BY TryStartSteps
<1>2. Good(r) /\ RxSame(r, b)
  BY <1>1, TxStepKeeps
<1> QED BY <1>1, <1>2, RxSameKeeps DEF RxSame

LEMMA SetLinesGood ==
  ASSUME NEW a, Good(a), NEW lines \in SUBSET Inputs, NEW r, r = SetLines(a, lines)
  PROVE  /\ Good(r) /\ InFlight(r) = InFlight(a) /\ r.ready = a.ready
         /\ ~ (r.tdrFull /\ ~ r.txBusy /\ Sends(r))
<1>1. PICK b : b = [a EXCEPT !.lines = lines]
  OBVIOUS
<1>2. PICK c : /\ c = b \/ c = RaiseIrq(b, TRUE)
               /\ r = TryStart(c)
  BY <1>1 DEF SetLines
<1>3. Only(b, a, {"lines"}) /\ b.lines = lines
  BY <1>1, NoOverrun DEF Only, Record, ChipFields
<1>4. Fits(b)
  <2>1. \A f \in {"lines"} \cap ChipFields : b[f] \in Values(f)
    BY <1>3 DEF Values
  <2> QED BY <1>3, <2>1, NoOverrun, OnlyFits
<1>5. Good(b) /\ InFlight(b) = InFlight(a) /\ b.ready = a.ready
  <2>1. Only(b, a, RegisterFields)
    BY <1>3, OnlyMore DEF RegisterFields
  <2>2. b.overrun = FALSE /\ b.tic = a.tic /\ b.tdrFull = a.tdrFull
    BY <1>3, NoOverrun DEF Only, ChipFields
  <2> QED BY <1>4, <2>1, <2>2, RegisterKeeps
<1>6. Good(c) /\ InFlight(c) = InFlight(a) /\ c.ready = a.ready
  <2>1. CASE c = b
    BY <2>1, <1>5
  <2>2. CASE c = RaiseIrq(b, TRUE)
    <3>1. TxStep(c, b)
      BY <2>2, <1>4, RaiseIrqSteps
    <3>2. Good(c) /\ RxSame(c, b)
      BY <3>1, <1>5, TxStepKeeps
    <3> QED BY <3>2, <1>5, RxSameKeeps DEF RxSame
  <2> QED BY <2>1, <2>2, <1>2
<1> QED BY <1>2, <1>6, ThenStarts

LEMMA SentGood ==
  ASSUME NEW a, Good(a), NEW r, r = Sent(a)
  PROVE  /\ HandedOver(r) /\ InFlight(r) = InFlight(a) /\ r.ready = a.ready
         /\ r.tdrFull = a.tdrFull /\ r.txBusy = a.txBusy /\ Sends(r) = Sends(a)
<1>1. Fits(a) /\ OnceOk(a) /\ ByteOk(a)
  BY DEF Good
<1>2. Only(r, a, {"pending", "leaving"}) /\ r.pending = FALSE
  BY <1>1 DEF Sent, Only, Fits, Record, ChipFields
<1>3. r.leaving = IF a.pending THEN a.leaving - 1 ELSE a.leaving
  BY <1>1 DEF Sent, Fits, Record, ChipFields
<1>4. r.leaving = 0
  BY <1>1, <1>3 DEF OnceOk
<1>5. Fits(r)
  <2>1. r.leaving \in 0 .. 2
    BY <1>4
  <2>2. \A f \in {"pending", "leaving"} \cap ChipFields : r[f] \in Values(f)
    BY <1>2, <2>1 DEF Values
  <2> QED BY <1>1, <1>2, <2>2, OnlyFits
<1>6. RxSame(r, a)
  BY <1>2, RxUntouched DEF RxFields
<1>7. /\ r.tdrFull = a.tdrFull /\ r.txBusy = a.txBusy /\ r.tic = a.tic
      /\ r.clocked = a.clocked /\ r.lines = a.lines
  BY <1>2 DEF Only, ChipFields
<1>8. Sends(r) = Sends(a)
  BY <1>7 DEF Sends
<1>9. OnceOk(r)
  BY <1>2, <1>4 DEF OnceOk
<1> QED BY <1>1, <1>2, <1>5, <1>6, <1>7, <1>8, <1>9, RxSameKeeps DEF Good, HandedOver, RxSame

LEMMA ReadDataGood ==
  ASSUME NEW a, HandedOver(a), a.ready <= Late, NEW r, r = ReadData(a)
  PROVE  /\ Good(r) /\ (r.ready = a.ready \/ r.ready = 0)
         /\ InFlight(r) = IF a.rdrf /\ InFlight(a) > 0 THEN InFlight(a) - 1 ELSE InFlight(a)
<1>1. Fits(a) /\ OnceOk(a) /\ ByteOk(a) /\ Good(a) /\ a.rdrf \in BOOLEAN /\ a.shift \in Bytes
  BY FieldsFit DEF Good, HandedOver
<1>2. CASE ~ a.rdrf
  BY <1>1, <1>2 DEF ReadData
<1>3. CASE a.rdrf
  <2> DEFINE F == {"rdrf", "ready", "rdr", "shift"}
  <2>1. r = [a EXCEPT !.rdrf = FALSE, !.ready = 0, !.rdr = Nul,
                      !.shift = IF @ = Nul THEN Nul ELSE @ - 1]
    BY <1>3 DEF ReadData
  <2>2. Only(r, a, F) /\ r.rdrf = FALSE /\ r.ready = 0 /\ r.rdr = Nul
    BY <2>1, <1>1 DEF Only, Fits, Record, ChipFields
  <2>3. r.shift = IF a.shift = Nul THEN Nul ELSE a.shift - 1
    BY <2>1, <1>1 DEF Fits, Record, ChipFields
  <2>4. r.shift \in Bytes /\ r.rdr \in Bytes /\ r.ready \in Int
    BY <2>2, <2>3, <1>1 DEF Bytes, Nul
  <2>5. Fits(r)
    <3>1. \A f \in F \cap ChipFields : r[f] \in Values(f)
      BY <2>2, <2>4 DEF Values
    <3> QED BY <3>1, <1>1, <2>2, OnlyFits
  <2>6. /\ r.rxBusy = a.rxBusy /\ r.completed = a.completed /\ r.overrun = a.overrun
        /\ r.rxLeft = a.rxLeft
        /\ r.tic = a.tic /\ r.tdrFull = a.tdrFull /\ r.pending = a.pending /\ r.leaving = a.leaving
    BY <2>2 DEF Only, ChipFields
  <2>7. ~ Arriving(a) /\ Arriving(r) = Arriving(a)
    BY <1>1, <1>3, <2>6 DEF ByteOk, Arriving
  <2>8. InFlight(a) = 1 /\ InFlight(r) = 0
    BY <1>3, <2>2, <2>7 DEF InFlight
  <2>9. ByteOk(r) /\ OnceOk(r)
    BY <1>1, <2>2, <2>6, <2>7 DEF ByteOk, OnceOk
  <2> QED BY <1>3, <2>2, <2>5, <2>8, <2>9 DEF Good
<1> QED BY <1>1, <1>2, <1>3

LEMMA ReadStatusGood ==
  ASSUME NEW a, HandedOver(a), NEW r, r = ReadStatus(a)
  PROVE  Good(r) /\ InFlight(r) = InFlight(a) /\ r.ready = a.ready
<1>1. Fits(a) /\ Good(a)
  BY DEF Good, HandedOver
<1>2. Only(r, a, {"irq", "fromLines"}) /\ r.irq = FALSE /\ r.fromLines = FALSE
  BY <1>1 DEF ReadStatus, Only, Fits, Record, ChipFields
<1>3. Fits(r)
  <2>1. \A f \in {"irq", "fromLines"} \cap ChipFields : r[f] \in Values(f)
    BY <1>2 DEF Values
  <2> QED BY <2>1, <1>1, <1>2, OnlyFits
<1>4. Only(r, a, RegisterFields)
  BY <1>2, OnlyMore DEF RegisterFields
<1>5. r.overrun = FALSE /\ r.tic = a.tic /\ r.tdrFull = a.tdrFull
  <2>1. r.overrun = a.overrun /\ r.tic = a.tic /\ r.tdrFull = a.tdrFull
    BY <1>2 DEF Only, ChipFields
  <2> QED BY <2>1, <1>1, NoOverrun
<1> QED BY <1>1, <1>3, <1>4, <1>5, RegisterKeeps

LEMMA WriteDataGood ==
  ASSUME NEW a, HandedOver(a), NEW r, r = WriteData(a)
  PROVE  Good(r) /\ InFlight(r) = InFlight(a) /\ r.ready = a.ready
<1>1. Fits(a) /\ Good(a) /\ ~ a.pending
  BY DEF Good, HandedOver
<1>2. PICK b : b = [a EXCEPT !.tdrFull = TRUE]
  OBVIOUS
<1>3. r = TryStart(b)
  BY <1>2 DEF WriteData
<1>4. Only(b, a, {"tdrFull"}) /\ b.tdrFull = TRUE
  BY <1>1, <1>2 DEF Only, Fits, Record, ChipFields
<1>5. Fits(b)
  <2>1. \A f \in {"tdrFull"} \cap ChipFields : b[f] \in Values(f)
    BY <1>4 DEF Values
  <2> QED BY <2>1, <1>1, <1>4, OnlyFits
<1>6. Only(b, a, RegisterFields) /\ b.overrun = FALSE
  <2>1. b.overrun = a.overrun
    BY <1>4 DEF Only, ChipFields
  <2> QED BY <2>1, <1>1, <1>4, NoOverrun, OnlyMore DEF RegisterFields
<1>7. Good(b) /\ InFlight(b) = InFlight(a) /\ b.ready = a.ready
  BY <1>1, <1>5, <1>6, RegisterKeeps
<1> QED BY <1>1, <1>3, <1>7, ThenStarts

LEMMA ProgrammedResetGood ==
  ASSUME NEW a, HandedOver(a), NEW r, r = ProgrammedReset(a)
  PROVE  Good(r) /\ InFlight(r) = InFlight(a) /\ r.ready = a.ready
<1> DEFINE F == {"dtr", "quiet", "tic", "echo", "overrun", "irq", "fromLines", "brk"}
<1>1. Fits(a) /\ Good(a) /\ ~ a.pending /\ a.irq \in BOOLEAN /\ a.brk \in BOOLEAN
  BY FieldsFit DEF Good, HandedOver
<1>2. /\ Only(r, a, F) /\ r.dtr = FALSE /\ r.quiet = FALSE /\ r.tic = "off" /\ r.echo = FALSE
      /\ r.overrun = FALSE /\ r.fromLines = FALSE
  BY <1>1 DEF ProgrammedReset, Only, Fits, Record, ChipFields
<1>3. r.irq = (a.irq /\ ~ a.fromLines) /\ r.brk = (a.brk /\ a.tic # "break")
  BY <1>1 DEF ProgrammedReset, Fits, Record, ChipFields
<1>4. Fits(r)
  <2>1. r.irq \in BOOLEAN /\ r.brk \in BOOLEAN /\ r.tic \in Transmit
    BY <1>2, <1>3 DEF Transmit
  <2>2. \A f \in F \cap ChipFields : r[f] \in Values(f)
    BY <1>2, <2>1 DEF Values
  <2> QED BY <2>2, <1>1, <1>2, OnlyFits
<1>5. Only(r, a, RegisterFields)
  BY <1>2, OnlyMore DEF RegisterFields
<1> QED BY <1>1, <1>2, <1>4, <1>5, RegisterKeeps

LEMMA WriteCommandGood ==
  ASSUME NEW a, HandedOver(a), NEW c \in Command, NEW r, r = WriteCommand(a, c)
  PROVE  Good(r) /\ InFlight(r) = InFlight(a) /\ r.ready = a.ready
<1> DEFINE F == {"tic", "dtr", "quiet", "echo", "brk"}
<1>1. Fits(a) /\ Good(a) /\ ~ a.pending /\ a.brk \in BOOLEAN
  BY FieldsFit DEF Good, HandedOver
<1>2. PICK b : b = [a EXCEPT !.tic = c.tic, !.dtr = c.dtr, !.quiet = c.quiet, !.echo = c.echo,
                             !.brk = @ /\ c.tic = "break"]
  OBVIOUS
<1>3. r = TryStart(b)
  BY <1>2 DEF WriteCommand
<1>4. /\ Only(b, a, F) /\ b.tic = c.tic /\ b.dtr = c.dtr /\ b.quiet = c.quiet /\ b.echo = c.echo
  BY <1>1, <1>2 DEF Only, Fits, Record, ChipFields
<1>5. b.brk = (a.brk /\ c.tic = "break")
  BY <1>1, <1>2 DEF Fits, Record, ChipFields
<1>6. Fits(b)
  <2>1. /\ b.brk \in BOOLEAN /\ b.tic \in Transmit /\ b.dtr \in BOOLEAN /\ b.quiet \in BOOLEAN
        /\ b.echo \in BOOLEAN
    BY <1>4, <1>5 DEF Command
  <2>2. \A f \in F \cap ChipFields : b[f] \in Values(f)
    BY <2>1 DEF Values
  <2> QED BY <2>2, <1>1, <1>4, OnlyFits
<1>7. Only(b, a, RegisterFields) /\ b.overrun = FALSE
  <2>1. b.overrun = a.overrun
    BY <1>4 DEF Only, ChipFields
  <2> QED BY <2>1, <1>1, <1>4, NoOverrun, OnlyMore DEF RegisterFields
<1>8. Good(b) /\ InFlight(b) = InFlight(a) /\ b.ready = a.ready
  BY <1>1, <1>6, <1>7, RegisterKeeps
<1> QED BY <1>1, <1>3, <1>8, ThenStarts

LEMMA WriteControlGood ==
  ASSUME NEW a, HandedOver(a), NEW clocked \in BOOLEAN, NEW r, r = WriteControl(a, clocked)
  PROVE  Good(r) /\ InFlight(r) = InFlight(a) /\ r.ready = a.ready
<1> DEFINE F == {"clocked", "phase"}
<1>1. Fits(a) /\ Good(a) /\ ~ a.pending /\ a.phase \in 0 .. Frame - 1
  BY FieldsFit DEF Good, HandedOver
<1>2. PICK b : b = [a EXCEPT !.clocked = clocked, !.phase = IF a.clocked /\ clocked THEN @ ELSE 0]
  OBVIOUS
<1>3. r = TryStart(b)
  BY <1>2 DEF WriteControl
<1>4. /\ Only(b, a, F) /\ b.clocked = clocked /\ b.phase \in {a.phase, 0}
  BY <1>1, <1>2 DEF Only, Fits, Record, ChipFields
<1>5. Fits(b)
  <2>1. b.phase \in 0 .. Frame - 1
    BY <1>1, <1>4, FrameIsLong
  <2>2. \A f \in F \cap ChipFields : b[f] \in Values(f)
    BY <2>1, <1>4 DEF Values
  <2> QED BY <2>2, <1>1, <1>4, OnlyFits
<1>6. Only(b, a, RegisterFields) /\ b.overrun = FALSE
  <2>1. b.overrun = a.overrun
    BY <1>4 DEF Only, ChipFields
  <2> QED BY <2>1, <1>1, <1>4, NoOverrun, OnlyMore DEF RegisterFields
<1>7. Good(b) /\ InFlight(b) = InFlight(a) /\ b.ready = a.ready
  BY <1>1, <1>5, <1>6, RegisterKeeps
<1> QED BY <1>1, <1>3, <1>7, ThenStarts
-----------------------------------------------------------------------------
(* The card.  SerialInv is inductive; CardKeepsTheLine is not: that a byte *)
(* never comes late needs that the wake is the chip's next event, that it  *)
(* never overruns needs where each byte pulled is, and that nothing leaves *)
(* over another needs who could send it (OnceOk).                          *)

Room(w) == IF w > 0 THEN w + Late ELSE Late

SerialInv ==
  /\ Good(chip) /\ chip.ready \in - 1 .. Late
  /\ ahead = InFlight(chip)
  /\ lag \in 0 .. MaxLag
  /\ wake = NextWake(chip)
  /\ \A w \in wake : lag <= Room(w)
  /\ slotIrq \in BOOLEAN /\ irqLine = slotIrq /\ forwards \in BOOLEAN
  /\ slotIrq = (chip.irq /\ forwards)
  /\ sent = View(chip)
  /\ sink \in BOOLEAN /\ opened \in BOOLEAN
  /\ IF opened THEN sink /\ device = {sent} ELSE device = {}
  /\ answer \in Answers /\ waiting \in BOOLEAN

LEMMA EventsAre ==
  ASSUME NEW a, Fits(a)
  PROVE  /\ Events(a) \subseteq - Frame .. Frame
         /\ \E x, y : Events(a) \subseteq {x, y}
<1>1. /\ a.txLeft \in - Frame .. Frame /\ a.phase \in 0 .. Frame - 1 /\ a.rxLeft \in 0 .. Frame
  BY FieldsFit
<1>2. ToBoundary(a) \in - Frame .. Frame
  BY <1>1, FrameIsLong DEF ToBoundary
<1>3. (IF a.completed THEN a.rxLeft ELSE a.rxLeft - (Frame - Rdrf)) \in - Frame .. Frame
  BY <1>1, FrameIsLong
<1> QED BY <1>2, <1>3 DEF Events

LEMMA WakeIsFirst ==
  ASSUME NEW a, Fits(a), NEW w \in NextWake(a)
  PROVE  /\ w \in - Frame .. Frame
         /\ \A e \in Events(a) : w <= e
<1>1. Events(a) # {} /\ w = Min(Events(a))
  BY DEF NextWake
<1>2. PICK x, y : Events(a) \subseteq {x, y}
  BY EventsAre
<1>3. Events(a) \subseteq - Frame .. Frame /\ \A e \in Events(a) : e \in Int
  BY EventsAre, FrameIsLong
<1>4. \E m \in Events(a) : \A e \in Events(a) : m <= e
  BY <1>1, <1>2, <1>3
<1>5. w \in Events(a) /\ \A e \in Events(a) : w <= e
  BY <1>1, <1>4 DEF Min
<1> QED BY <1>3, <1>5

LEMMA WakeIs ==
  ASSUME NEW a, Fits(a)
  PROVE  /\ NextWake(a) \in SUBSET (- Frame .. Frame)
         /\ \A w \in NextWake(a) : 0 <= Room(w)
         /\ Events(a) # {} => \E w \in NextWake(a) : \A e \in Events(a) : w <= e
<1>1. Late \in Nat
  BY SerialCardAssumption
<1>2. \A w \in NextWake(a) : w \in - Frame .. Frame /\ w \in Int
  BY WakeIsFirst, FrameIsLong
<1>3. \A w \in NextWake(a) : 0 <= Room(w)
  BY <1>1, <1>2 DEF Room
<1>4. Events(a) # {} => \E w \in NextWake(a) : \A e \in Events(a) : w <= e
  BY WakeIsFirst DEF NextWake
<1> QED BY <1>2, <1>3, <1>4

\* What Tick's guard says in terms of Room.
LEMMA RoomIsMax ==
  ASSUME NEW w \in Int
  PROVE  Max({w, 0}) + Late = Room(w)
<1>1. Late \in Nat
  BY SerialCardAssumption
<1>2. \E m \in {w, 0} : \A e \in {w, 0} : m >= e
  OBVIOUS
<1>3. Max({w, 0}) \in {w, 0} /\ \A e \in {w, 0} : Max({w, 0}) >= e
  BY <1>2 DEF Max
<1> QED BY <1>1, <1>3 DEF Room

LEMMA OnTime ==
  ASSUME SerialInv
  PROVE  \A e \in Events(chip) : lag <= e + Late \/ lag <= Late
<1> SUFFICES ASSUME NEW e \in Events(chip) PROVE lag <= e + Late \/ lag <= Late
  OBVIOUS
<1>1. Fits(chip) /\ Late \in Nat /\ MaxLag \in Nat /\ lag \in 0 .. MaxLag
  BY SerialCardAssumption DEF SerialInv, Good
<1>2. PICK w \in wake : w <= e
  BY <1>1, WakeIs DEF SerialInv
<1>3. w \in - Frame .. Frame /\ e \in - Frame .. Frame
  BY <1>1, <1>2, WakeIsFirst, EventsAre DEF SerialInv
<1>4. lag <= Room(w) /\ lag \in Int /\ w \in Int /\ e \in Int
  BY <1>1, <1>2, <1>3, FrameIsLong DEF SerialInv
<1> QED BY <1>1, <1>2, <1>4 DEF Room

LEMMA SyncedGood ==
  ASSUME SerialInv
  PROVE  /\ HandedOver(Synced) /\ InFlight(Synced) = ahead /\ Synced.ready \in - 1 .. Late
         /\ ~ (Synced.tdrFull /\ ~ Synced.txBusy /\ Sends(Synced))
<1>1. PICK b : b = Advance(chip, lag)
  OBVIOUS
<1>2. PICK c : c = SetLines(b, HostLines)
  OBVIOUS
<1>3. Synced = Sent(c)
  BY <1>1, <1>2 DEF Synced
<1>4. lag \in Nat
  BY SerialCardAssumption DEF SerialInv
<1>5. Good(b) /\ InFlight(b) = ahead /\ b.ready \in - 1 .. Late
  BY <1>1, <1>4, OnTime, AdvanceGood DEF SerialInv
<1>6. HostLines \in SUBSET Inputs
  BY SerialCardAssumption DEF HostLines, SerialInv
<1>7. /\ Good(c) /\ InFlight(c) = ahead /\ c.ready \in - 1 .. Late
      /\ ~ (c.tdrFull /\ ~ c.txBusy /\ Sends(c))
  BY <1>2, <1>5, <1>6, SetLinesGood
<1> QED BY <1>3, <1>7, SentGood
\* A byte is pulled into an empty receiver, with a start no older than Late.
LEMMA RxStartGood ==
  ASSUME NEW a, HandedOver(a), a.ready \in - 1 .. Late, RxReady(a), NEW r, r = RxStart(a, InFlight(a) + 1)
  PROVE  /\ Good(r) /\ InFlight(a) = 0 /\ InFlight(r) = 1 /\ r.ready = a.ready /\ ~ RxReady(r)
         /\ r.pending = FALSE /\ r.tdrFull = a.tdrFull /\ r.txBusy = a.txBusy /\ Sends(r) = Sends(a)
<1> DEFINE F == {"shift", "completed", "rxBusy", "rxLeft"}
<1>1. Fits(a) /\ Good(a) /\ ~ a.rxBusy /\ ~ a.rdrf /\ ~ a.overrun /\ a.pending = FALSE /\ a.leaving = 0
  BY DEF HandedOver, Good, RxReady, OnceOk, ByteOk
<1>2. InFlight(a) = 0
  BY <1>1 DEF InFlight, Arriving
<1>3. /\ Only(r, a, F) /\ r.shift = 1 /\ r.completed = FALSE /\ r.rxBusy = TRUE
  <2>1. r.shift = 0 + 1
    BY <1>1, <1>2 DEF RxStart, Fits, Record, ChipFields
  <2>2. Only(r, a, F)
    BY <1>1 DEF RxStart, Only, Fits, Record
  <2>3. r.completed = FALSE /\ r.rxBusy = TRUE
    BY <1>1 DEF RxStart, Fits, Record, ChipFields
  <2> QED BY <2>1, <2>2, <2>3
<1>4. r.rxLeft = IF a.ready >= 0 THEN Frame - a.ready ELSE Frame
  BY <1>1 DEF RxStart, Fits, Record, ChipFields
<1>5. r.rxLeft \in 0 .. Frame /\ r.rxLeft > Frame - Rdrf /\ r.rxLeft >= 1
  BY <1>4, FrameIsLong, SerialCardAssumption
<1>6. Fits(r)
  <2>1. r.shift \in Bytes
    BY <1>3 DEF Bytes
  <2>2. \A f \in F \cap ChipFields : r[f] \in Values(f)
    BY <1>3, <1>5, <2>1 DEF Values
  <2> QED BY <2>2, <1>1, <1>3, OnlyFits
<1>7. /\ r.rdrf = a.rdrf /\ r.rdr = a.rdr /\ r.overrun = a.overrun /\ r.ready = a.ready
      /\ r.tic = a.tic /\ r.tdrFull = a.tdrFull /\ r.pending = a.pending /\ r.leaving = a.leaving
      /\ r.txBusy = a.txBusy /\ r.clocked = a.clocked /\ r.lines = a.lines
  BY <1>3 DEF Only, ChipFields
<1>8. Arriving(r) /\ InFlight(r) = 1
  BY <1>1, <1>3, <1>7 DEF Arriving, InFlight
<1>9. ByteOk(r) /\ OnceOk(r)
  BY <1>1, <1>3, <1>5, <1>7 DEF ByteOk, OnceOk
<1>10. ~ RxReady(r) /\ Sends(r) = Sends(a)
  BY <1>3, <1>7 DEF RxReady, Sends
<1> QED BY <1>1, <1>2, <1>6, <1>7, <1>8, <1>9, <1>10 DEF Good

LEMMA PullByteGood ==
  ASSUME SerialInv, NEW a, HandedOver(a), a.ready \in - 1 .. Late, PullByte(a, InFlight(a))
  PROVE  /\ Good(chip') /\ chip'.ready \in - 1 .. Late /\ ahead' = InFlight(chip')
         /\ waiting' \in BOOLEAN
         /\ ~ (sink /\ waiting' /\ RxReady(chip'))
         /\ chip'.tdrFull = a.tdrFull /\ chip'.txBusy = a.txBusy /\ Sends(chip') = Sends(a)
<1>1. waiting \in BOOLEAN /\ sink \in BOOLEAN
  BY DEF SerialInv
<1>2. CASE RxReady(a) /\ sink /\ waiting
  <2>1. chip' = RxStart(a, InFlight(a) + 1) /\ ahead' = InFlight(a) + 1 /\ waiting' = FALSE
    BY <1>2 DEF PullByte
  <2>2. PICK r : r = RxStart(a, InFlight(a) + 1)
    OBVIOUS
  <2>3. /\ Good(r) /\ InFlight(a) = 0 /\ InFlight(r) = 1 /\ r.ready = a.ready /\ ~ RxReady(r)
        /\ r.tdrFull = a.tdrFull /\ r.txBusy = a.txBusy /\ Sends(r) = Sends(a)
    BY <2>2, <1>2, RxStartGood
  <2>4. ahead' = 1
    BY <2>1, <2>3
  <2>5. chip' = r
    BY <2>1, <2>2
  <2> QED BY <2>1, <2>3, <2>4, <2>5
<1>3. CASE ~ (RxReady(a) /\ sink /\ waiting)
  <2>1. chip' = a /\ ahead' = InFlight(a) /\ waiting' = waiting
    BY <1>1, <1>3 DEF PullByte
  <2> QED BY <2>1, <1>1, <1>3 DEF HandedOver
<1> QED BY <1>2, <1>3

\* The line format, the interrupt and the wake follow the chip, whatever it is now.
LEMMA Follows ==
  ASSUME SerialInv, Good(chip'), FollowLine(chip'), sink' = sink
  PROVE  /\ sent' = View(chip') /\ sink' \in BOOLEAN /\ opened' \in BOOLEAN
         /\ IF opened' THEN sink' /\ device' = {sent'} ELSE device' = {}
<1>1. /\ sent' = View(chip') /\ opened' = (opened \/ sink)
      /\ device' = IF sink /\ (~ opened \/ sent' # sent) THEN {sent'} ELSE device
  BY DEF FollowLine
<1>2. sink \in BOOLEAN /\ opened \in BOOLEAN /\ IF opened THEN sink /\ device = {sent} ELSE device = {}
  BY DEF SerialInv
<1> QED BY <1>1, <1>2

LEMMA IrqFollows ==
  ASSUME NEW told \in BOOLEAN, NEW switch \in BOOLEAN, NEW a, Fits(a), FollowIrq(a, told, told, switch)
  PROVE  slotIrq' \in BOOLEAN /\ irqLine' = slotIrq' /\ slotIrq' = (a.irq /\ switch)
BY FieldsFit DEF FollowIrq

LEMMA WakesFollow ==
  ASSUME Good(chip'), wake' = NextWake(chip'), lag' = 0
  PROVE  lag' \in 0 .. MaxLag /\ \A w \in wake' : lag' <= Room(w)
BY WakeIs, SerialCardAssumption DEF Good

LEMMA SettleKeeps ==
  ASSUME SerialInv, NEW a, Good(a), a.ready \in - 1 .. Late, Settle(a, InFlight(a)),
         forwards' = forwards, sink' = sink, answer' = answer
  PROVE  /\ SerialInv'
         /\ ~ (sink' /\ waiting' /\ RxReady(chip'))
         /\ chip'.tdrFull = a.tdrFull /\ chip'.txBusy = a.txBusy /\ Sends(chip') = Sends(a)
<1>1. PICK s : s = Sent(a)
  OBVIOUS
<1>2. /\ HandedOver(s) /\ InFlight(s) = InFlight(a) /\ s.ready = a.ready
      /\ s.tdrFull = a.tdrFull /\ s.txBusy = a.txBusy /\ Sends(s) = Sends(a)
  BY <1>1, SentGood
<1>3. /\ Good(chip') /\ chip'.ready \in - 1 .. Late /\ ahead' = InFlight(chip')
      /\ waiting' \in BOOLEAN
      /\ ~ (sink /\ waiting' /\ RxReady(chip'))
      /\ chip'.tdrFull = s.tdrFull /\ chip'.txBusy = s.txBusy /\ Sends(chip') = Sends(s)
  <2>1. PullByte(s, InFlight(s))
    BY <1>1, <1>2 DEF Settle
  <2> QED BY <1>2, <2>1, PullByteGood
<1>4. /\ sent' = View(chip') /\ sink' \in BOOLEAN /\ opened' \in BOOLEAN
      /\ IF opened' THEN sink' /\ device' = {sent'} ELSE device' = {}
  BY <1>3, Follows DEF Settle
<1>5. slotIrq' \in BOOLEAN /\ irqLine' = slotIrq' /\ slotIrq' = (chip'.irq /\ forwards)
  <2>1. slotIrq \in BOOLEAN /\ forwards \in BOOLEAN /\ FollowIrq(chip', slotIrq, slotIrq, forwards)
    BY DEF SerialInv, Settle
  <2> QED BY <2>1, <1>3, IrqFollows DEF Good
<1>6. wake' = NextWake(chip') /\ lag' \in 0 .. MaxLag /\ \A w \in wake' : lag' <= Room(w)
  BY <1>3, WakesFollow DEF Settle
<1>7. answer' \in Answers /\ forwards' \in BOOLEAN
  BY DEF SerialInv
<1> QED BY <1>2, <1>3, <1>4, <1>5, <1>6, <1>7 DEF SerialInv

-----------------------------------------------------------------------------
LEMMA ThinkKeeps ==
  ASSUME SerialInv, Think
  PROVE  SerialInv' /\ ~ CouldMove'
<1>1. /\ HandedOver(Synced) /\ InFlight(Synced) = ahead /\ Synced.ready \in - 1 .. Late
      /\ ~ (Synced.tdrFull /\ ~ Synced.txBusy /\ Sends(Synced))
  BY SyncedGood
<1>2. /\ Settle(Synced, InFlight(Synced)) /\ forwards' = forwards /\ sink' = sink /\ answer' = answer
  BY <1>1 DEF Think
<1>3. PICK a : a = Synced
  OBVIOUS
<1>4. /\ SerialInv'
      /\ ~ (sink' /\ waiting' /\ RxReady(chip'))
      /\ chip'.tdrFull = a.tdrFull /\ chip'.txBusy = a.txBusy /\ Sends(chip') = Sends(a)
  BY <1>1, <1>2, <1>3, SettleKeeps DEF HandedOver
<1> QED BY <1>1, <1>3, <1>4 DEF CouldMove

\* An entry syncs the chip, does its own work on it, and settles.
LEMMA EntryKeeps ==
  ASSUME SerialInv, NEW a, Good(a), InFlight(a) = ahead, a.ready \in - 1 .. Late, Settle(a, ahead),
         UNCHANGED <<forwards, sink, answer>>
  PROVE  SerialInv'
<1>1. Settle(a, InFlight(a))
  OBVIOUS
<1> QED BY <1>1, SettleKeeps

LEMMA ReadDataRegisterKeeps ==
  ASSUME SerialInv, ReadDataRegister
  PROVE  SerialInv'
<1>1. PICK now : now = Synced
  OBVIOUS
<1>2. HandedOver(now) /\ InFlight(now) = ahead /\ now.ready \in - 1 .. Late
  BY <1>1, SyncedGood
<1>3. PICK a : a = ReadData(now)
  OBVIOUS
<1>4. /\ Good(a) /\ (a.ready = now.ready \/ a.ready = 0)
      /\ InFlight(a) = IF now.rdrf /\ InFlight(now) > 0 THEN InFlight(now) - 1 ELSE InFlight(now)
  BY <1>2, <1>3, ReadDataGood, SerialCardAssumption
<1>5. Settle(a, InFlight(a)) /\ forwards' = forwards /\ sink' = sink /\ answer' = answer
  BY <1>1, <1>2, <1>3, <1>4 DEF ReadDataRegister
<1>6. a.ready \in - 1 .. Late
  BY <1>2, <1>4, SerialCardAssumption
<1> QED BY <1>4, <1>5, <1>6, SettleKeeps

LEMMA ReadRegisterKeeps ==
  ASSUME SerialInv, NEW status \in BOOLEAN, ReadRegister(status)
  PROVE  SerialInv'
<1>1. HandedOver(Synced) /\ InFlight(Synced) = ahead /\ Synced.ready \in - 1 .. Late
  BY SyncedGood
<1>2. PICK a : a = IF status THEN ReadStatus(Synced) ELSE Synced
  OBVIOUS
<1>3. Good(a) /\ InFlight(a) = ahead /\ a.ready \in - 1 .. Late
  <2>1. CASE status
    BY <2>1, <1>1, <1>2, ReadStatusGood
  <2>2. CASE ~ status
    BY <2>2, <1>1, <1>2 DEF HandedOver
  <2> QED BY <2>1, <2>2
<1>4. Settle(a, ahead) /\ UNCHANGED <<forwards, sink, answer>>
  BY <1>2 DEF ReadRegister
<1> QED BY <1>3, <1>4, EntryKeeps

LEMMA WriteRegisterKeeps ==
  ASSUME SerialInv, WriteRegister
  PROVE  SerialInv'
<1>1. PICK now : now = Synced
  OBVIOUS
<1>2. HandedOver(now) /\ InFlight(now) = ahead /\ now.ready \in - 1 .. Late
  BY <1>1, SyncedGood
<1>3. ASSUME NEW a, Good(a), InFlight(a) = InFlight(now), a.ready = now.ready, Settle(a, ahead)
      PROVE  SerialInv'
  <2>1. UNCHANGED <<forwards, sink, answer>>
    BY DEF WriteRegister
  <2> QED BY <1>2, <1>3, <2>1, EntryKeeps
<1>4. CASE Settle(WriteData(now), ahead)
  BY <1>2, <1>3, <1>4, WriteDataGood
<1>5. CASE Settle(ProgrammedReset(now), ahead)
  BY <1>2, <1>3, <1>5, ProgrammedResetGood
<1>6. ASSUME NEW c \in Commands, Settle(WriteCommand(now, c), ahead) PROVE SerialInv'
  BY <1>2, <1>3, <1>6, WriteCommandGood, SerialCardAssumption
<1>7. ASSUME NEW clocked \in BOOLEAN, Settle(WriteControl(now, clocked), ahead) PROVE SerialInv'
  BY <1>2, <1>3, <1>7, WriteControlGood
<1> QED BY <1>1, <1>4, <1>5, <1>6, <1>7 DEF WriteRegister

\* Nothing of the chip changes: what follows it has nothing to follow.
LEMMA SetSwitchesKeeps ==
  ASSUME SerialInv, NEW on \in BOOLEAN, SetSwitches(on)
  PROVE  SerialInv'
<1>1. /\ forwards' = on /\ FollowIrq(chip, slotIrq, slotIrq, on) /\ slotIrq \in BOOLEAN /\ Fits(chip)
      /\ UNCHANGED <<chip, lag, wake, sent, sink, opened, device, answer, waiting, ahead>>
  BY DEF SetSwitches, SerialInv, host, farEnd, Good
<1>2. slotIrq' \in BOOLEAN /\ irqLine' = slotIrq' /\ slotIrq' = (chip.irq /\ on)
  BY <1>1, IrqFollows
<1> QED BY <1>1, <1>2 DEF SerialInv, View, NextWake, Room

LEMMA SetByteSinkKeeps ==
  ASSUME SerialInv, NEW on \in BOOLEAN, SetByteSink(on)
  PROVE  SerialInv'
BY DEF SetByteSink, SerialInv, View, NextWake, Room, farEnd

LEMMA FarEndKeeps ==
  ASSUME SerialInv, FarEnd
  PROVE  SerialInv'
BY DEF FarEnd, SerialInv, View, NextWake, Room, host

\* A wake is late by an instruction at most: Tick is how the machine keeps it so.
LEMMA TickKeeps ==
  ASSUME SerialInv, Tick
  PROVE  SerialInv'
<1>1. /\ lag' = lag + 1 /\ lag < MaxLag /\ \A w \in wake : lag < Max({w, 0}) + Late
      /\ UNCHANGED <<chip, wake, slotIrq, irqLine, forwards, sent, sink, opened, device, answer, waiting, ahead>>
  BY DEF Tick, host, farEnd
<1>2. lag \in Nat /\ MaxLag \in Nat /\ Late \in Nat /\ Frame \in Nat
  BY SerialCardAssumption, AciaAssumption DEF SerialInv
<1>3. lag' \in 0 .. MaxLag
  BY <1>1, <1>2
<1>4. ASSUME NEW w \in wake' PROVE lag' <= Room(w)
  <2>1. w \in - Frame .. Frame
    BY <1>1, <1>4, WakeIsFirst DEF SerialInv, Good
  <2>2. w \in Int
    BY <2>1, <1>2
  <2>3. lag < Room(w)
    BY <1>1, <1>4, <2>2, RoomIsMax
  <2>4. Room(w) \in Int
    BY <2>2, <1>2 DEF Room
  <2> QED BY <1>1, <1>2, <2>3, <2>4
<1> QED BY <1>1, <1>3, <1>4 DEF SerialInv, View, NextWake

\* A chip after a reset has nothing on its way and nothing to come.
LEMMA ResetChipGood ==
  ASSUME NEW a, a.lines \in SUBSET Inputs, NEW r, r = ResetChip(a)
  PROVE  Good(r) /\ InFlight(r) = 0 /\ r.ready = - 1 /\ r.irq = FALSE
<1>1. Record(r)
  BY DEF ResetChip, Record, ChipFields
<1>2. \A f \in ChipFields : r[f] \in Values(f)
  <2>1. /\ r.txLeft \in - Frame .. Frame /\ r.phase \in 0 .. Frame - 1 /\ r.rxLeft \in 0 .. Frame
        /\ r.ready \in Int /\ r.rdr \in Bytes /\ r.shift \in Bytes /\ r.leaving \in 0 .. 2
    BY FrameIsLong DEF ResetChip, Nul, Bytes
  <2>2. r.tic \in Transmit /\ r.lines \in SUBSET Inputs
    BY DEF ResetChip, Transmit
  <2>3. \A f \in ChipFields \ {"txLeft", "phase", "rxLeft", "ready", "rdr", "shift", "leaving", "tic", "lines"} :
          r[f] = FALSE
    BY DEF ResetChip, ChipFields
  <2> QED BY <2>1, <2>2, <2>3 DEF Values
<1>3. /\ r.rxBusy = FALSE /\ r.rdrf = FALSE /\ r.overrun = FALSE /\ r.pending = FALSE /\ r.leaving = 0
      /\ r.ready = - 1 /\ r.irq = FALSE
  BY DEF ResetChip
<1>4. Good(r)
  BY <1>1, <1>2, <1>3 DEF Good, Fits, ByteOk, OnceOk, Arriving
<1> QED BY <1>3, <1>4 DEF InFlight, Arriving

LEMMA ResetIsQuiet ==
  ASSUME NEW a, a.lines \in SUBSET Inputs, NEW r, r = ResetChip(a), NEW lines \in SUBSET Inputs
  PROVE  Events(r) = {} /\ Events(SetLines(r, lines)) = {}
<1>1. /\ Record(r) /\ r.clocked = FALSE /\ r.rxBusy = FALSE /\ r.dtr = FALSE /\ r.tdrFull = FALSE
  BY DEF ResetChip, Record, ChipFields
<1>2. Events(r) = {}
  BY <1>1 DEF Events, BoundaryArmed
<1>3. PICK b : b = [r EXCEPT !.lines = lines]
  OBVIOUS
<1>4. /\ b.clocked = FALSE /\ b.rxBusy = FALSE /\ b.tdrFull = FALSE
  BY <1>1, <1>3 DEF Record, ChipFields
<1>5. SetLines(r, lines) = b
  BY <1>1, <1>3, <1>4 DEF SetLines, TryStart
<1> QED BY <1>2, <1>4, <1>5 DEF Events, BoundaryArmed

LEMMA ResetKeeps ==
  ASSUME SerialInv, Reset
  PROVE  SerialInv'
<1>1. PICK b : b = ResetChip(chip)
  OBVIOUS
<1>2. HostLines \in SUBSET Inputs /\ chip.lines \in SUBSET Inputs
  BY SerialCardAssumption, FieldsFit DEF HostLines, SerialInv, Good
<1>3. Good(b) /\ InFlight(b) = 0 /\ b.ready = - 1
  BY <1>1, <1>2, ResetChipGood
<1>4. /\ chip' = SetLines(b, HostLines) /\ FollowLine(chip') /\ FollowIrq(chip', slotIrq, slotIrq, forwards)
      /\ wake' = {} /\ lag' = 0 /\ ahead' = 0
      /\ UNCHANGED <<forwards, sink, answer, waiting>>
  BY <1>1 DEF Reset, SerialInv, farEnd
<1>5. Good(chip') /\ InFlight(chip') = 0 /\ chip'.ready = - 1
  BY <1>2, <1>3, <1>4, SetLinesGood
<1>6. wake' = NextWake(chip')
  BY <1>1, <1>2, <1>4, ResetIsQuiet DEF NextWake
<1>7. /\ sent' = View(chip') /\ sink' \in BOOLEAN /\ opened' \in BOOLEAN
      /\ IF opened' THEN sink' /\ device' = {sent'} ELSE device' = {}
  BY <1>4, <1>5, Follows
<1>8. slotIrq' \in BOOLEAN /\ irqLine' = slotIrq' /\ slotIrq' = (chip'.irq /\ forwards)
  <2>1. slotIrq \in BOOLEAN /\ forwards \in BOOLEAN
    BY DEF SerialInv
  <2> QED BY <2>1, <1>4, <1>5, IrqFollows DEF Good
<1>9. lag' \in 0 .. MaxLag /\ \A w \in wake' : lag' <= Room(w)
  BY <1>4, <1>5, <1>6, WakesFollow
<1>10. chip'.ready \in - 1 .. Late
  BY <1>5, SerialCardAssumption
<1>11. answer' \in Answers /\ forwards' \in BOOLEAN /\ waiting' \in BOOLEAN
  BY <1>4 DEF SerialInv
<1> QED BY <1>4, <1>5, <1>6, <1>7, <1>8, <1>9, <1>10, <1>11 DEF SerialInv

\* The frame of a character in flight is run again from its start; where nothing
\* of it has reached the program that is all the same to its byte.
LEMMA SavedGood ==
  ASSUME NEW a, Good(a), a.rxBusy => a.clocked /\ ~ a.completed,
         NEW s, s = [a EXCEPT !.txLeft = 0, !.phase = 0, !.rxLeft = 0, !.ready = - 1, !.completed = FALSE],
         NEW r, r = Restart(s)
  PROVE  Good(r) /\ InFlight(r) = InFlight(a) /\ r.ready = - 1
<1> DEFINE F == {"txLeft", "phase", "rxLeft", "ready", "completed"}
           G == {"txBusy", "rxBusy", "completed", "fromLines", "brk", "phase", "ready", "txLeft", "rxLeft",
                 "pending", "leaving"}
<1>1. Fits(a) /\ ByteOk(a) /\ a.rxBusy \in BOOLEAN /\ a.txBusy \in BOOLEAN /\ a.clocked \in BOOLEAN
      /\ a.tic \in Transmit
  BY FieldsFit DEF Good
<1>2. Only(s, a, F)
  BY <1>1 DEF Only, Fits, Record
<1>3. /\ s.rxBusy = a.rxBusy /\ s.txBusy = a.txBusy /\ s.clocked = a.clocked /\ s.tic = a.tic
      /\ s.rdrf = a.rdrf /\ s.rdr = a.rdr /\ s.shift = a.shift /\ s.overrun = a.overrun /\ Record(s)
  BY <1>2 DEF Only, ChipFields
<1>4. Only(r, s, G)
  BY <1>3 DEF Restart, Only, Record
<1>5. /\ r.completed = FALSE /\ r.fromLines = FALSE /\ r.phase = 0 /\ r.ready = - 1
      /\ r.pending = FALSE /\ r.leaving = 0
  BY <1>3 DEF Restart, Record, ChipFields
<1>6. /\ r.txBusy = (s.txBusy /\ s.clocked) /\ r.rxBusy = (s.rxBusy /\ s.clocked)
      /\ r.brk = (s.tic = "break")
  BY <1>3 DEF Restart, Record, ChipFields
<1>7. /\ r.txLeft = (IF s.txBusy /\ s.clocked THEN Frame ELSE 0)
      /\ r.rxLeft = (IF s.rxBusy /\ s.clocked THEN Frame ELSE 0)
  BY <1>3 DEF Restart, Record, ChipFields
<1>8. r.rxBusy = a.rxBusy /\ (r.rxBusy => r.rxLeft = Frame)
  BY <1>1, <1>3, <1>6, <1>7
<1>9. /\ r.rdrf = a.rdrf /\ r.rdr = a.rdr /\ r.shift = a.shift /\ r.overrun = a.overrun
  <2>1. /\ r.rdrf = s.rdrf /\ r.rdr = s.rdr /\ r.shift = s.shift /\ r.overrun = s.overrun
    BY <1>4 DEF Only, ChipFields
  <2> QED BY <2>1, <1>3
<1>10. Arriving(r) = Arriving(a) /\ InFlight(r) = InFlight(a)
  BY <1>1, <1>5, <1>8, <1>9 DEF Arriving, InFlight
<1>11. ByteOk(r) /\ OnceOk(r)
  <2>1. Frame > Frame - Rdrf /\ Frame >= 1
    BY FrameIsLong
  <2>2. Arriving(r) => r.rxBusy
    BY DEF Arriving
  <2>3. r.rxBusy => r.rxLeft > Frame - Rdrf /\ r.rxLeft >= 1
    BY <2>1, <1>8
  <2>4. /\ ~ r.overrun /\ (r.rdrf => r.rdr = 1 /\ ~ Arriving(r)) /\ (Arriving(r) => r.shift = 1)
    BY <1>1, <1>9, <1>10 DEF ByteOk
  <2>5. ByteOk(r)
    BY <2>2, <2>3, <2>4 DEF ByteOk
  <2>6. OnceOk(r)
    BY <1>5 DEF OnceOk
  <2> QED BY <2>5, <2>6
<1>12. Fits(r)
  <2>1. \A f \in ChipFields \ (F \cup G) : r[f] = a[f]
    BY <1>2, <1>4 DEF Only
  <2>2. /\ r.txLeft \in - Frame .. Frame /\ r.rxLeft \in 0 .. Frame /\ r.phase \in 0 .. Frame - 1
        /\ r.ready \in Int /\ r.leaving \in 0 .. 2
    BY <1>5, <1>7, FrameIsLong
  <2>3. r.txBusy \in BOOLEAN /\ r.rxBusy \in BOOLEAN /\ r.brk \in BOOLEAN
    BY <1>6
  <2>4. Only(r, a, F \cup G)
    BY <2>1, <1>4 DEF Only
  <2>5. \A f \in (F \cup G) \cap ChipFields : r[f] \in Values(f)
    BY <1>5, <2>2, <2>3 DEF Values
  <2> QED BY <1>1, <2>4, <2>5, OnlyFits
<1> QED BY <1>5, <1>10, <1>11, <1>12 DEF Good

LEMMA LoadStateKeeps ==
  ASSUME SerialInv, AnySave = FALSE, LoadState
  PROVE  SerialInv'
<1>1. chip.rxBusy => chip.clocked /\ ~ chip.completed
  BY DEF LoadState, Savable
<1>2. PICK b : b = Restart(SavedChip)
  OBVIOUS
<1>3. Good(b) /\ InFlight(b) = ahead /\ b.ready = - 1
  <2>1. PICK s : s = [chip EXCEPT !.txLeft = 0, !.phase = 0, !.rxLeft = 0, !.ready = - 1, !.completed = FALSE]
    OBVIOUS
  <2>2. b = Restart(s) /\ Good(chip) /\ ahead = InFlight(chip)
    BY <1>2, <2>1 DEF SavedChip, SerialInv
  <2> QED BY <1>1, <2>1, <2>2, SavedGood
<1>4. HostLines \in SUBSET Inputs
  BY SerialCardAssumption DEF HostLines, SerialInv
<1>5. /\ chip' = SetLines(b, HostLines) /\ FollowLine(chip') /\ FollowIrq(chip', FALSE, FALSE, forwards)
      /\ wake' = NextWake(chip') /\ lag' = 0
      /\ UNCHANGED <<forwards, sink, answer, waiting, ahead>>
  BY <1>2 DEF LoadState, farEnd
<1>6. Good(chip') /\ InFlight(chip') = ahead /\ chip'.ready = - 1
  BY <1>3, <1>4, <1>5, SetLinesGood
<1>7. /\ sent' = View(chip') /\ sink' \in BOOLEAN /\ opened' \in BOOLEAN
      /\ IF opened' THEN sink' /\ device' = {sent'} ELSE device' = {}
  BY <1>5, <1>6, Follows
<1>8. slotIrq' \in BOOLEAN /\ irqLine' = slotIrq' /\ slotIrq' = (chip'.irq /\ forwards)
  <2>1. forwards \in BOOLEAN /\ FALSE \in BOOLEAN
    BY DEF SerialInv
  <2> QED BY <2>1, <1>5, <1>6, IrqFollows DEF Good
<1>9. lag' \in 0 .. MaxLag /\ \A w \in wake' : lag' <= Room(w)
  BY <1>5, <1>6, WakesFollow
<1>10. chip'.ready \in - 1 .. Late
  BY <1>6, SerialCardAssumption
<1>11. answer' \in Answers /\ forwards' \in BOOLEAN /\ waiting' \in BOOLEAN
  BY <1>5 DEF SerialInv
<1> QED BY <1>5, <1>6, <1>7, <1>8, <1>9, <1>10, <1>11 DEF SerialInv

-----------------------------------------------------------------------------
LEMMA SerialStarts == Init => SerialInv
<1> SUFFICES ASSUME Init PROVE SerialInv
  OBVIOUS
<1>1. PICK a : a = [lines |-> Inputs]
  OBVIOUS
<1>2. a.lines \in SUBSET Inputs
  BY <1>1
<1>3. Good(chip) /\ InFlight(chip) = 0 /\ chip.ready = - 1 /\ chip.irq = FALSE
  BY <1>1, <1>2, ResetChipGood DEF Init
<1>4. Events(chip) = {}
  BY <1>1, <1>2, ResetIsQuiet DEF Init
<1>5. wake = NextWake(chip)
  BY <1>4 DEF Init, NextWake
<1>6. chip.ready \in - 1 .. Late /\ lag \in 0 .. MaxLag
  BY <1>3, SerialCardAssumption DEF Init
<1>7. slotIrq = (chip.irq /\ forwards)
  BY <1>3 DEF Init
<1> QED BY <1>3, <1>5, <1>6, <1>7, SerialCardAssumption DEF Init, SerialInv

LEMMA SerialInvKept ==
  ASSUME AnySave = FALSE
  PROVE  SerialInv /\ [Next]_vars => SerialInv'
<1> SUFFICES ASSUME SerialInv, [Next]_vars PROVE SerialInv'
  OBVIOUS
<1>1. CASE Tick
  BY <1>1, TickKeeps
<1>2. CASE Think
  BY <1>2, ThinkKeeps
<1>3. CASE ReadDataRegister
  BY <1>3, ReadDataRegisterKeeps
<1>4. CASE WriteRegister
  BY <1>4, WriteRegisterKeeps
<1>5. ASSUME NEW status \in BOOLEAN, ReadRegister(status) PROVE SerialInv'
  BY <1>5, ReadRegisterKeeps
<1>6. ASSUME NEW on \in BOOLEAN, SetSwitches(on) PROVE SerialInv'
  BY <1>6, SetSwitchesKeeps
<1>7. ASSUME NEW on \in BOOLEAN, SetByteSink(on) PROVE SerialInv'
  BY <1>7, SetByteSinkKeeps
<1>8. CASE Reset
  BY <1>8, ResetKeeps
<1>9. CASE LoadState
  BY <1>9, LoadStateKeeps
<1>10. CASE FarEnd
  BY <1>10, FarEndKeeps
<1>11. CASE UNCHANGED vars
  BY <1>11 DEF SerialInv, vars, host, farEnd, View, NextWake, Room
<1> QED BY <1>1, <1>2, <1>3, <1>4, <1>5, <1>6, <1>7, <1>8, <1>9, <1>10, <1>11 DEF Next

\* Where states are saved only as Savable has it (the run serial_save shows the
\* program without that), SerialInv holds of the card with its chip, its line, its
\* wake and its far end, in every state (SuperSerial.cpp, 6551.cpp).
THEOREM CardIsInductive == ASSUME AnySave = FALSE PROVE Spec => []SerialInv
<1>1. Init => SerialInv
  BY SerialStarts
<1>2. SerialInv /\ [Next]_vars => SerialInv'
  BY SerialInvKept
<1> QED BY <1>1, <1>2, PTL DEF Spec

LEMMA LineIsKept == SerialInv => CardKeepsTheLine
<1> SUFFICES ASSUME SerialInv PROVE CardKeepsTheLine
  OBVIOUS
<1>1. Good(chip) /\ Fits(chip) /\ ByteOk(chip) /\ OnceOk(chip) /\ chip.ready \in - 1 .. Late
  BY DEF SerialInv, Good
<1>2. chip \in Chip
  <2>1. chip.ready \in - 1 .. Frame - 1
    BY <1>1, FrameIsLong, SerialCardAssumption
  <2> QED BY <1>1, <2>1, FitsChip
<1>3. ahead \in 0 .. 2
  BY DEF SerialInv, InFlight
<1>4. View(chip) \in Format
  BY <1>1, FieldsFit DEF View, Format
<1>5. wake \in SUBSET (- Frame .. Frame)
  BY <1>1, WakeIs DEF SerialInv
<1>6. TypeOK
  BY <1>2, <1>3, <1>4, <1>5 DEF TypeOK, SerialInv
<1>7. NextByteOnly /\ NeverOverruns
  BY <1>1 DEF NextByteOnly, NeverOverruns, ByteOk
<1>8. OnceOnTheWire
  BY <1>1 DEF OnceOnTheWire, OnceOk
<1>9. EventsOnTime
  BY OnTime DEF EventsOnTime
<1>10. SlotFollowsChip /\ DeviceHasTheFormat
  BY DEF SlotFollowsChip, DeviceHasTheFormat, SerialInv
<1> QED BY <1>6, <1>7, <1>8, <1>9, <1>10 DEF CardKeepsTheLine

\* However long a frame is and however late a wake below the completion of a byte:
\* bytes pass once, in order and in time, without an overrun, and the slot and the
\* device are told what concerns them (settle, sync_bus and the entries of
\* SuperSerial.cpp; acia_advance of 6551.cpp).
THEOREM LineKept == ASSUME AnySave = FALSE PROVE Spec => []CardKeepsTheLine
BY CardIsInductive, LineIsKept, PTL

\* No think leaves a byte that could move where it is, though neither CTS nor a byte
\* that arrives wakes the card (super_serial_abi_think, SuperSerial.cpp 185-203).
THEOREM NothingIsHeld == ASSUME AnySave = FALSE PROVE Spec => ThinkLeavesNothingHeld
<1>1. SerialInv /\ [Next]_vars => [CouldMove' => ~ Think]_vars
  BY ThinkKeeps
<1>2. Spec => []SerialInv
  BY CardIsInductive
<1> QED BY <1>1, <1>2, PTL DEF Spec, ThinkLeavesNothingHeld
=============================================================================
