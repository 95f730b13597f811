--------------------------- MODULE AudioRing_proof ---------------------------
(***************************************************************************)
(* The sound: the mixer's ring and the Mockingboard.                         *)
(*                                                                         *)
(* RingKeepsTheSound, for every size of the ring, of the chunks and of the  *)
(* callbacks.  Distances around the ring are what sample_buffer_get_filled  *)
(* computes, so cells are named by their distance from the index in         *)
(* question and no invariant needs the remainder.                           *)
(*                                                                         *)
(* CardKeepsTime, for every width of the counters and registers: what a *)
(* timer is after n cycles at once is what n ticks of one cycle make of it, *)
(* by induction along the ticks, an underflow to the next; and as the ticks *)
(* of the two timers commute, so are both timers.                           *)
(***************************************************************************)
EXTENDS AudioRing, Mockingboard, WellFoundedInduction, TLAPS

Cell == 0 .. Size - 1

Rewinding == {"rewind read", "rewind write", "forget", "unack"}
UploaderAt == {"idle", "copy", "publish", "clear", "activate"} \cup Rewinding
MixerAt ==
  {"idle", "poll", "flush", "seek", "drop", "backlog", "skip", "chunk", "measure", "take",
   "publish", "recall", "fade"}

\* The frames published and not given back, and the frames of those a drain has taken
Unread == Filled(read, write)
Taken == Filled(read, ar)

\* Neither thread has been disturbed by a reinitialisation, nor is one half done.
Sound == ~underfoot /\ upc \notin Rewinding

----------------------------------------------------------------------------
(* The inductive invariant *)

\* Whole frames everywhere, and no sample from the future.
RingTypes ==
  /\ TypeOK
  /\ upc \in UploaderAt /\ apc \in MixerAt
  /\ mark \in [0 .. MaxFlushes -> 0 .. MaxSent]
  /\ sent % 2 = 0 /\ num % 2 = 0 /\ todo % 2 = 0 /\ left % 2 = 0
  /\ sent + num <= MaxSent
  /\ upc \notin {"copy", "publish"} => num = 0
  /\ apc = "take" => todo > 0
  /\ heard <= sent + num
  /\ \A i \in Cell : cells[i] <= sent + num
  /\ \A g \in 0 .. MaxFlushes : mark[g] <= sent

\* A reinitialisation keeps the audio thread out of the slot from the first
\* store to the last, or has found it there.
Reinitialising ==
  /\ upc \in {"clear", "activate"} \cup Rewinding => ~active
  /\ ~underfoot /\ upc \in Rewinding =>
       /\ ~InSlot
       /\ upc # "rewind read" => read = 0
       /\ upc \in {"forget", "unack"} => write = 0
       /\ upc = "unack" => flush_gen = 0 /\ mark[0] = sent

\* The unread cells hold the newest samples in order; an upload copies beyond
\* them, and short of the frame before them.
Uploading ==
  /\ Unread <= sent
  /\ Unread + num <= Size - 2
  /\ \A i \in Cell : Filled(read, i) < Unread => cells[i] = sent - Unread + 1 + Filled(read, i)
  /\ upc = "publish" => \A i \in Cell : Filled(write, i) < num => cells[i] = sent + 1 + Filled(write, i)

\* A drain is ahead of read_index by what it took and never past write_index.
\* The frame it took last is still in the ring when it is recalled.
Draining ==
  /\ apc = "skip" => Taken <= Unread
  /\ apc = "take" => Taken + todo <= Unread /\ heard <= sent - Unread + Taken
  /\ apc = "publish" => Taken \in 1 .. Unread /\ heard = sent - Unread + Taken
  /\ apc = "recall" =>
       /\ ar = read
       /\ heard = sent - Unread
       /\ \A i \in Cell : Filled(i, ar) = 1 => cells[i] = heard
       /\ \A i \in Cell : Filled(i, ar) = 2 => cells[i] = heard - 1
  /\ apc \notin {"take", "publish"} => heard <= sent - Unread

\* The request acknowledged was made before any sample still unread was uploaded,
\* and before the frame a fade starts from.
Flushing ==
  /\ acked <= flush_gen
  /\ apc = "drop" => Filled(read, aw) <= Unread /\ mark[acked] <= sent - Unread + Filled(read, aw)
  /\ apc \notin {"seek", "drop"} =>
       mark[acked] <= sent - Unread /\ last[2] \in {Silence} \cup (mark[acked] + 1 .. sent)
  /\ apc = "recall" => mark[acked] < heard

Fading ==
  apc \notin {"take", "publish", "recall"} => last \in {<<Silence, Silence>>, <<heard - 1, heard>>}

SoundKept == Uploading /\ Draining /\ Flushing /\ Fading

RingInv ==
  /\ RingTypes
  /\ Reinitialising
  /\ Sound => SoundKept

----------------------------------------------------------------------------
(* Distances around the ring *)

LEMMA FilledIsADistance ==
  ASSUME NEW r \in Cell, NEW w \in Cell
  PROVE  Filled(r, w) \in Cell /\ (Filled(r, w) = 0 <=> r = w)
BY SizesAssumption DEF Filled, Cell

LEMMA FilledInFrames ==
  ASSUME NEW r \in Indices, NEW w \in Indices
  PROVE  /\ Indices \subseteq Cell
         /\ Filled(r, w) \in 0 .. Size - 2 /\ Filled(r, w) % 2 = 0
BY SizesAssumption DEF Filled, Indices, Cell

\* The index k further on, and k back
LEMMA Ahead ==
  ASSUME NEW a \in Cell, NEW k \in Cell
  PROVE  (a + k) % Size \in Cell /\ Filled(a, (a + k) % Size) = k
BY SizesAssumption DEF Filled, Cell

LEMMA BehindBy ==
  ASSUME NEW a \in Cell, NEW k \in Cell
  PROVE  (a - k) % Size \in Cell /\ Filled((a - k) % Size, a) = k
BY SizesAssumption DEF Filled, Cell

LEMMA Between ==
  ASSUME NEW r \in Cell, NEW a \in Cell, NEW w \in Cell
  PROVE  /\ Filled(r, a) <= Filled(r, w) => Filled(a, w) = Filled(r, w) - Filled(r, a)
         /\ Filled(r, a) + Filled(a, w) < Size => Filled(r, w) = Filled(r, a) + Filled(a, w)
         /\ Filled(r, a) + Filled(a, w) >= Size => Filled(r, w) = Filled(r, a) + Filled(a, w) - Size
BY SizesAssumption DEF Filled, Cell

LEMMA SpanIsADistance ==
  ASSUME NEW w \in Cell, NEW n \in 0 .. Size, NEW i \in Cell
  PROVE  (i \in Span(w, n) <=> Filled(w, i) < n) /\ (i - w) % Size = Filled(w, i)
<1>1. (i - w) % Size = Filled(w, i)
  BY SizesAssumption DEF Filled, Cell
<1>2. ASSUME i \in Span(w, n) PROVE Filled(w, i) < n
  <2>1. PICK k \in 0 .. n - 1 : i = (w + k) % Size
    BY <1>2 DEF Span
  <2>2. k \in Cell /\ k < n
    BY SizesAssumption DEF Cell
  <2>. QED BY <2>1, <2>2, Ahead
<1>3. ASSUME Filled(w, i) < n PROVE i \in Span(w, n)
  <2>1. Filled(w, i) \in 0 .. n - 1 /\ i = (w + Filled(w, i)) % Size
    BY <1>3, SizesAssumption DEF Filled, Cell
  <2>. QED BY <2>1 DEF Span
<1>. QED BY <1>1, <1>2, <1>3

LEMMA AfterIsAhead ==
  ASSUME NEW w \in Indices, NEW n \in 0 .. Size - 2, n % 2 = 0
  PROVE  After(w, n) \in Indices /\ Filled(w, After(w, n)) = n
BY SizesAssumption DEF After, Filled, Indices

\* What an upload stores fits, in whole frames, and leaves the last frame alone.
LEMMA UploadFits ==
  ASSUME NEW r \in Indices, NEW w \in Indices, NEW len \in Chunks
  PROVE  /\ Whole(len, Free(r, w)) \in 0 .. Size - 2
         /\ Filled(r, w) + Whole(len, Free(r, w)) <= Size - 2
         /\ Whole(len, Free(r, w)) % 2 = 0
BY SizesAssumption, FramesAssumption, FilledInFrames DEF Whole, Free, Even, Filled, Indices

\* What a drain takes is there, in whole frames.
LEMMA DrainFits ==
  ASSUME NEW n \in Nat, n % 2 = 0, NEW filled \in 0 .. Size - 2, filled % 2 = 0
  PROVE  Whole(n, filled) \in 0 .. filled /\ Whole(n, filled) % 2 = 0
BY DEF Whole, Even

LEMMA FrameAround ==
  ASSUME NEW a \in Indices
  PROVE  /\ (a + 1) % Size \in Cell /\ (a + 2) % Size \in Indices
         /\ (a - 1) % Size \in Cell /\ (a - 2) % Size \in Indices
         /\ a + 1 = (a + 1) % Size /\ a + 1 \in Cell
BY SizesAssumption DEF Indices, Cell

LEMMA SkipIsWhole ==
  ASSUME NEW r \in Indices, NEW n \in Cell
  PROVE  (r + Even(n)) % Size \in Indices
BY SizesAssumption DEF Indices, Cell, Even

LEMMA EvenSum ==
  ASSUME NEW m \in Nat, NEW n \in Nat, m % 2 = 0, n % 2 = 0
  PROVE  (m + n) % 2 = 0
OBVIOUS

LEMMA TakesAFrame ==
  ASSUME NEW n \in Nat, n % 2 = 0, n > 0
  PROVE  n - 2 \in Nat /\ (n - 2) % 2 = 0
OBVIOUS

LEMMA ChunkIsWhole ==
  ASSUME left \in Nat, left % 2 = 0
  PROVE  /\ ChunkSize \in Nat /\ ChunkSize % 2 = 0
         /\ left - ChunkSize \in Nat /\ (left - ChunkSize) % 2 = 0
BY SizesAssumption DEF ChunkSize, Smaller

----------------------------------------------------------------------------
(* The types *)

LEMMA TypesHold == RingTypes /\ [Next]_vars => RingTypes'
<1>. SUFFICES ASSUME RingTypes, [Next]_vars PROVE RingTypes'
  OBVIOUS
<1>a. /\ read \in Indices /\ write \in Indices /\ ar \in Indices /\ aw \in Indices
      /\ read \in Cell /\ write \in Cell /\ ar \in Cell
      /\ num \in 0 .. Size - 2 /\ todo \in 0 .. Size - 2 /\ num \in 0 .. Size
  BY SizesAssumption DEF RingTypes, TypeOK, Indices, Cell
<1>b. /\ sent \in Nat /\ MaxSent \in Nat /\ num \in Nat /\ todo \in Nat /\ left \in Nat
      /\ cells \in [Cell -> Torn .. MaxSent]
  <2>1. /\ sent \in 0 .. MaxSent /\ left \in Nat /\ cells \in [Cell -> Torn .. MaxSent]
        /\ num \in 0 .. Size - 2 /\ todo \in 0 .. Size - 2
    BY DEF RingTypes, TypeOK, Cell
  <2>. QED BY <2>1, SizesAssumption
<1>c. ChunkSize \in Nat /\ ChunkSize % 2 = 0 /\ left - ChunkSize \in Nat /\ (left - ChunkSize) % 2 = 0
  BY <1>b, ChunkIsWhole DEF RingTypes
<1>z. 0 \in Indices /\ 0 % 2 = 0 /\ <<Silence, Silence>> \in (Torn .. MaxSent) \X (Torn .. MaxSent)
  BY <1>b, SizesAssumption DEF Indices, Silence, Torn
<1>1. CASE UNCHANGED vars
  BY <1>1 DEF RingTypes, TypeOK, vars, ring, flush, uploader, mixer, history
<1>2. ASSUME NEW len \in Chunks, Upload(len) PROVE RingTypes'
  <2>1. num' \in 0 .. Size - 2 /\ num' % 2 = 0
    BY <1>2, <1>a, UploadFits DEF Upload
  <2>2. cells' \in [Cell -> Torn .. MaxSent] /\ \A i \in Cell : cells'[i] <= sent + num'
    BY <1>2, <2>1, <1>b DEF Upload, RingTypes, Torn
  <2>. QED
    BY <1>2, <2>1, <2>2, SMTT(20) DEF Upload, RingTypes, TypeOK, UploaderAt, MixerAt, Rewinding, flush, mixer, history, Cell
<1>3. CASE Copy
  <2>1. \A i \in Cell : i \in Span(write, num) => (i - write) % Size \in 0 .. num - 1
    BY <1>a, SpanIsADistance, FilledIsADistance DEF Cell
  <2>2. cells' \in [Cell -> Torn .. MaxSent] /\ \A i \in Cell : cells'[i] <= sent + num
    BY <1>3, <2>1, <1>b DEF Copy, RingTypes, Torn
  <2>. QED
    BY <1>3, <2>2 DEF Copy, RingTypes, TypeOK, UploaderAt, MixerAt, Rewinding, flush, mixer, history, Cell
<1>4. CASE Publish
  <2>1. write' \in Indices
    BY <1>4, <1>a, AfterIsAhead DEF Publish, RingTypes
  <2>2. sent' = sent + num /\ num' = 0 /\ upc' = "idle"
    BY <1>4 DEF Publish
  <2>3. UNCHANGED <<active, cells, read, flush, last, announcing, mixer, heard, mark, underfoot>>
    BY <1>4 DEF Publish
  <2>4. sent' \in 0 .. MaxSent /\ sent' + num' = sent + num /\ sent <= sent'
    BY <2>2, <1>b DEF RingTypes
  <2>5. sent' % 2 = 0
    <3>1. (sent + num) % 2 = 0
      BY <1>b, EvenSum DEF RingTypes
    <3>. QED BY <2>2, <3>1
  <2>7. num' % 2 = 0 /\ num' \in 0 .. Size - 2
    BY <2>2, <1>z, SizesAssumption
  <2>6. \A g \in 0 .. MaxFlushes : mark[g] <= sent'
    BY <2>4, <1>b DEF RingTypes
  <2>. QED
    BY <2>1, <2>2, <2>3, <2>4, <2>5, <2>6, <2>7 DEF RingTypes, TypeOK, UploaderAt, MixerAt, Rewinding, flush, mixer
<1>5. CASE RequestFlush
  BY <1>5, <1>z, <1>b, SizesAssumption, SMTT(20) DEF RequestFlush, RingTypes, TypeOK, UploaderAt, MixerAt, Rewinding,
     ring, flush, uploader, mixer, history
<1>6. CASE Register
  BY <1>6, <1>z, <1>b, SizesAssumption DEF Register, RingTypes, TypeOK, UploaderAt, MixerAt, Rewinding,
     ring, flush, uploader, mixer, history
<1>7. CASE Unregister
  BY <1>7, <1>z, <1>b, SizesAssumption DEF Unregister, RingTypes, TypeOK, UploaderAt, MixerAt, Rewinding,
     ring, flush, uploader, mixer, history
<1>8. CASE Clear
  <2>1. cells' = [i \in DOMAIN cells |-> Silence] /\ upc' = "rewind read"
    BY <1>8 DEF Clear
  <2>2. cells' \in [Cell -> Torn .. MaxSent] /\ \A i \in Cell : cells'[i] <= sent + num
    <3>1. DOMAIN cells = Cell /\ Silence \in Torn .. MaxSent /\ Silence <= sent + num
      BY <1>b DEF Silence, Torn
    <3>. QED BY <2>1, <3>1
  <2>3. underfoot' \in BOOLEAN
    <3>1. InSlot \in BOOLEAN
      BY DEF InSlot
    <3>. QED BY <1>8, <3>1 DEF Clear
  <2>4. UNCHANGED <<active, read, write, flush, last, num, announcing, mixer, sent, heard, mark>> /\ num = 0
    BY <1>8 DEF Clear, RingTypes
  <2>. QED
    BY <2>1, <2>2, <2>3, <2>4 DEF RingTypes, TypeOK, UploaderAt, MixerAt, Rewinding, flush, mixer, Cell
<1>9. CASE RewindRead
  BY <1>9, <1>z, <1>b, SizesAssumption DEF RewindRead, RingTypes, TypeOK, UploaderAt, MixerAt, Rewinding,
     ring, flush, uploader, mixer, history
<1>10. CASE RewindWrite
  BY <1>10, <1>z, <1>b, SizesAssumption DEF RewindWrite, RingTypes, TypeOK, UploaderAt, MixerAt, Rewinding,
     ring, flush, uploader, mixer, history
<1>11. CASE Forget
  BY <1>11, <1>z, <1>b, SizesAssumption, SMTT(20) DEF Forget, RingTypes, TypeOK, UploaderAt, MixerAt, Rewinding,
     ring, flush, uploader, mixer, history
<1>12. CASE Unack
  BY <1>12, <1>z, <1>b, SizesAssumption, SMTT(20) DEF Unack, RingTypes, TypeOK, UploaderAt, MixerAt, Rewinding,
     ring, flush, uploader, mixer, history
<1>13. CASE Activate
  BY <1>13, <1>z, <1>b, SizesAssumption DEF Activate, RingTypes, TypeOK, UploaderAt, MixerAt, Rewinding,
     ring, flush, uploader, mixer, history
<1>14. CASE PollSilent
  <2>1. UNCHANGED <<active, ring, flush, uploader, ar, aw, todo, history>>
    BY <1>14 DEF PollSilent
  <2>2. last' = <<Silence, Silence>> /\ left' = 0 /\ apc' = "idle"
    BY <1>14 DEF PollSilent
  <2>. QED
    BY <2>1, <2>2, <1>z DEF RingTypes, TypeOK, MixerAt, ring, flush, uploader, history
<1>15. CASE PollFilled
  BY <1>15, <1>z, <1>b, SizesAssumption DEF PollFilled, RingTypes, TypeOK, UploaderAt, MixerAt, Rewinding,
     ring, flush, uploader, mixer, history
<1>16. CASE CheckFlush
  BY <1>16, <1>z, <1>b, SizesAssumption DEF CheckFlush, RingTypes, TypeOK, UploaderAt, MixerAt, Rewinding,
     ring, flush, uploader, mixer, history
<1>17. CASE Seek
  BY <1>17, <1>z, <1>b, SizesAssumption DEF Seek, RingTypes, TypeOK, UploaderAt, MixerAt, Rewinding,
     ring, flush, uploader, mixer, history
<1>18. CASE Drop
  BY <1>18, <1>z, <1>b, SizesAssumption DEF Drop, RingTypes, TypeOK, UploaderAt, MixerAt, Rewinding,
     ring, flush, uploader, mixer, history
<1>19. ASSUME NEW n \in Requests, Callback(n) PROVE RingTypes'
  <2>1. n \in Nat /\ n % 2 = 0
    BY FramesAssumption
  <2>. QED
    BY <1>19, <2>1 DEF Callback, RingTypes, TypeOK, MixerAt, ring, flush, uploader, history
<1>20. CASE Measure
  <2>1. ar' \in Indices
    <3>1. Filled(read, write) \in 0 .. Size - 2 /\ Target \in Nat
      BY <1>a, <1>b, FilledInFrames, SizesAssumption DEF Target, Smaller
    <3>2. CASE Filled(read, write) > Target
      <4>1. Filled(read, write) - Target \in Cell
        BY <3>1, <3>2, SizesAssumption DEF Cell
      <4>. QED BY <1>20, <1>a, <3>2, <4>1, SkipIsWhole DEF Measure
    <3>3. CASE ~(Filled(read, write) > Target)
      <4>1. Even(0) = 0 /\ 0 \in Cell
        BY SizesAssumption DEF Even, Cell
      <4>. QED BY <1>20, <1>a, <3>3, <4>1, SkipIsWhole DEF Measure
    <3>. QED BY <3>2, <3>3
  <2>. QED
    BY <1>20, <2>1, <1>a, SMTT(30) DEF Measure, RingTypes, TypeOK, MixerAt, ring, flush, uploader, history
<1>21. CASE Skip \/ EnterChunk \/ PublishRead
  BY <1>21 DEF Skip, EnterChunk, PublishRead, RingTypes, TypeOK, MixerAt, ring, flush, uploader, history
<1>22. CASE SkipChunk \/ Fade
  <2>1. left' \in Nat /\ left' % 2 = 0 /\ apc' \in {"idle", "chunk"}
    BY <1>22, <1>c DEF SkipChunk, Fade, LeaveSlot
  <2>2. last' \in (Torn .. MaxSent) \X (Torn .. MaxSent)
    BY <1>22, <1>b DEF SkipChunk, Fade, RingTypes, TypeOK, Silence, Torn
  <2>. QED
    BY <1>22, <2>1, <2>2 DEF SkipChunk, Fade, RingTypes, TypeOK, MixerAt, ring, flush, uploader, history
<1>23. CASE Drain
  <2>1. todo' \in 0 .. Filled(read, write) /\ todo' % 2 = 0
    BY <1>23, <1>c, <1>a, FilledInFrames, DrainFits DEF Drain
  <2>2. todo' \in 0 .. Size - 2
    BY <2>1, <1>a, FilledInFrames, SizesAssumption
  <2>3. apc' \in {"fade", "take"} /\ (apc' = "take" => todo' > 0)
    BY <1>23, <2>2 DEF Drain
  <2>. QED
    BY <1>23, <2>1, <2>2, <2>3, <1>a DEF Drain, RingTypes, TypeOK, MixerAt, ring, flush, uploader, history
<1>24. CASE Take
  <2>1. (ar + 1) % Size \in Cell /\ (ar + 2) % Size \in Indices
    BY <1>a, FrameAround
  <2>2. heard' \in Torn .. MaxSent /\ heard' <= sent + num
    BY <1>24, <2>1, <1>b DEF Take, RingTypes
  <2>3. todo' \in 0 .. Size - 2 /\ todo' % 2 = 0 /\ apc' \in {"publish", "take"} /\ (apc' = "take" => todo' > 0)
    <3>1. todo \in Nat /\ todo % 2 = 0 /\ todo > 0
      BY <1>24, <1>b DEF Take, RingTypes
    <3>2. todo - 2 \in Nat /\ (todo - 2) % 2 = 0
      BY <3>1, TakesAFrame
    <3>3. todo - 2 \in 0 .. Size - 2
      BY <3>2, <1>a, SizesAssumption
    <3>4. todo' = todo - 2 /\ apc' = IF todo' = 0 THEN "publish" ELSE "take"
      BY <1>24 DEF Take
    <3>. QED BY <3>1, <3>2, <3>3, <3>4
  <2>. QED
    BY <1>24, <2>1, <2>2, <2>3 DEF Take, RingTypes, TypeOK, MixerAt, ring, flush, uploader
<1>25. CASE Recall
  <2>1. cells[(ar - 2) % Size] \in Torn .. MaxSent /\ cells[(ar - 1) % Size] \in Torn .. MaxSent
    BY <1>a, <1>b, FrameAround DEF Indices, Cell
  <2>. QED
    BY <1>25, <2>1 DEF Recall, RingTypes, TypeOK, MixerAt, ring, flush, uploader, history
<1>. QED
  BY <1>1, <1>2, <1>3, <1>4, <1>5, <1>6, <1>7, <1>8, <1>9, <1>10, <1>11, <1>12, <1>13,
     <1>14, <1>15, <1>16, <1>17, <1>18, <1>19, <1>20, <1>21, <1>22, <1>23, <1>24, <1>25
  DEF Next, EmulationStep, HostStep, AudioStep

----------------------------------------------------------------------------
(* A reinitialisation meets no drain it does not know of. *)

LEMMA ReinitHolds == RingTypes /\ Reinitialising /\ [Next]_vars => Reinitialising'
<1>. SUFFICES ASSUME RingTypes, Reinitialising, [Next]_vars PROVE Reinitialising'
  OBVIOUS
<1>. DEFINE Same == (active' <=> active) /\ (underfoot' <=> underfoot)
            Others == UNCHANGED <<flush_gen, mark, sent, write>>
<1>1. CASE UNCHANGED vars
  <2>1. Same /\ (InSlot' <=> InSlot)
    BY <1>1 DEF vars, mixer, history, InSlot
  <2>2. Others /\ UNCHANGED <<upc, read>>
    BY <1>1 DEF vars, ring, flush, uploader, history
  <2>. QED BY <2>1, <2>2 DEF Reinitialising, Rewinding
<1>2. CASE (\E len \in Chunks : Upload(len)) \/ Copy \/ Publish \/ RequestFlush \/ Activate
  <2>1. upc' \notin Rewinding \cup {"clear", "activate"}
    BY <1>2 DEF Upload, Copy, Publish, RequestFlush, Activate, Rewinding, uploader
  <2>. QED BY <2>1 DEF Reinitialising
<1>3. CASE Register \/ Unregister
  <2>1. ~active' /\ upc' = "clear"
    BY <1>3 DEF Register, Unregister
  <2>. QED BY <2>1 DEF Reinitialising, Rewinding
<1>4. CASE Clear
  <2>1. upc' = "rewind read" /\ ~active' /\ InSlot' = InSlot /\ underfoot' = InSlot
    BY <1>4 DEF Clear, Reinitialising, InSlot, mixer
  <2>. QED BY <2>1 DEF Reinitialising, Rewinding
<1>5. CASE RewindRead \/ RewindWrite \/ Forget \/ Unack
  <2>0. UNCHANGED <<active, apc, underfoot>>
    BY <1>5 DEF RewindRead, RewindWrite, Forget, Unack, mixer, history
  <2>1. Same /\ (InSlot' <=> InSlot)
    BY <2>0 DEF InSlot
  <2>2. /\ RewindRead => upc = "rewind read" /\ upc' = "rewind write" /\ read' = 0
        /\ RewindWrite => upc = "rewind write" /\ upc' = "forget" /\ write' = 0 /\ read' = read
        /\ Forget => /\ upc = "forget" /\ upc' = "unack" /\ flush_gen' = 0 /\ UNCHANGED <<read, write, sent>>
                     /\ mark' = [mark EXCEPT ![0] = sent]
        /\ Unack => upc = "unack" /\ upc' \in {"idle", "activate"}
    BY DEF RewindRead, RewindWrite, Forget, Unack, ring
  <2>3. Forget => mark'[0] = sent'
    BY <2>2, SizesAssumption DEF RingTypes
  <2>. QED BY <1>5, <2>1, <2>2, <2>3 DEF Reinitialising, Rewinding
<1>6. CASE AudioStep
  <2>1. Same /\ Others /\ upc' = upc
    BY <1>6 DEF AudioStep, PollSilent, PollFilled, CheckFlush, Seek, Drop, Measure, Skip, SkipChunk,
       EnterChunk, Drain, Take, PublishRead, Recall, Fade, Callback, ring, flush, uploader, history
  <2>2. ~active /\ ~InSlot => ~InSlot' /\ read' = read
    BY <1>6 DEF AudioStep, PollSilent, PollFilled, CheckFlush, Seek, Drop, Measure, Skip, SkipChunk,
       EnterChunk, Drain, Take, PublishRead, Recall, Fade, Callback, LeaveSlot, ring, InSlot
  <2>. QED BY <2>1, <2>2 DEF Reinitialising, Rewinding
<1>. QED
  BY <1>1, <1>2, <1>3, <1>4, <1>5, <1>6 DEF Next, EmulationStep, HostStep

----------------------------------------------------------------------------
(* What the two threads do to the unread cells *)

\* An upload touches neither the unread cells nor the last frame given back.
LEMMA UploadsBeyond ==
  ASSUME NEW r \in Cell, NEW w \in Cell, NEW n \in 0 .. Size, NEW i \in Cell,
         i \in Span(w, n), Filled(r, w) + n <= Size - 2
  PROVE  Filled(r, i) >= Filled(r, w) /\ Filled(i, r) # 1 /\ Filled(i, r) # 2
<1>1. Filled(w, i) < n /\ Filled(w, i) \in Cell /\ Filled(r, w) \in Cell
  BY SpanIsADistance, FilledIsADistance
<1>2. Filled(r, i) = Filled(r, w) + Filled(w, i)
  BY <1>1, Between, SizesAssumption DEF Cell
<1>3. Filled(i, r) = IF Filled(r, i) = 0 THEN 0 ELSE Size - Filled(r, i)
  BY SizesAssumption DEF Filled, Cell
<1>. QED BY <1>1, <1>2, <1>3, SizesAssumption DEF Cell

\* What every step about the ring rests on
LEMMA RingFacts ==
  ASSUME RingTypes
  PROVE  /\ read \in Indices /\ write \in Indices /\ ar \in Indices /\ aw \in Indices
         /\ read \in Cell /\ write \in Cell /\ ar \in Cell /\ aw \in Cell
         /\ Unread \in 0 .. Size - 2 /\ Unread % 2 = 0
         /\ Taken \in 0 .. Size - 2 /\ Taken % 2 = 0
         /\ num \in 0 .. Size /\ num \in Nat /\ todo \in Nat /\ sent \in Nat /\ heard \in Int /\ Size \in Nat
         /\ DOMAIN cells = Cell /\ \A i \in Cell : cells[i] \in Int
         /\ acked \in 0 .. MaxFlushes /\ flush_gen \in 0 .. MaxFlushes
         /\ \A g \in 0 .. MaxFlushes : mark[g] \in Nat
<1>1. read \in Indices /\ write \in Indices /\ ar \in Indices /\ aw \in Indices
  BY DEF RingTypes, TypeOK
<1>2. Indices \subseteq Cell
  BY DEF Indices, Cell
<1>3. Unread \in 0 .. Size - 2 /\ Unread % 2 = 0 /\ Taken \in 0 .. Size - 2 /\ Taken % 2 = 0
  BY <1>1, FilledInFrames DEF Unread, Taken
<1>4. /\ num \in 0 .. Size - 2 /\ todo \in 0 .. Size - 2 /\ sent \in 0 .. MaxSent
      /\ heard \in Torn .. MaxSent /\ cells \in [Cell -> Torn .. MaxSent]
      /\ mark \in [0 .. MaxFlushes -> 0 .. MaxSent]
      /\ acked \in 0 .. MaxFlushes /\ flush_gen \in 0 .. MaxFlushes
  BY DEF RingTypes, TypeOK, Cell
<1>. QED
  BY <1>1, <1>2, <1>3, <1>4, SizesAssumption DEF Torn

\* read_index may move on to any frame not past write_index.
LEMMA Advance ==
  ASSUME RingTypes, Uploading, NEW a \in Indices, Filled(read, a) <= Unread,
         read' = a, UNCHANGED <<cells, write, sent, num, upc>>
  PROVE  Uploading' /\ Unread' = Unread - Filled(read, a) /\ Filled(read, a) \in Nat
<1>. DEFINE d == Filled(read, a)
<1>1. /\ a \in Cell /\ d \in 0 .. Size - 2 /\ Unread = Filled(read, write)
      /\ Size \in Nat /\ sent \in Nat /\ Unread \in 0 .. Size - 2
  BY RingFacts, FilledInFrames DEF Unread
<1>2. Unread' = Unread - d
  BY <1>1, RingFacts, Between DEF Unread
<1>3. ASSUME NEW i \in Cell, Filled(a, i) < Unread - d
      PROVE  Filled(read, i) = d + Filled(a, i)
  <2>1. Filled(a, i) \in Cell
    BY <1>1, FilledIsADistance
  <2>2. d + Filled(a, i) < Size
    BY <1>1, <1>3, <2>1 DEF Cell
  <2>. QED BY <1>1, <2>2, RingFacts, Between
<1>4. \A i \in Cell : Filled(a, i) < Unread - d => cells[i] = sent - (Unread - d) + 1 + Filled(a, i)
  <2>. SUFFICES ASSUME NEW i \in Cell, Filled(a, i) < Unread - d
                PROVE  cells[i] = sent - (Unread - d) + 1 + Filled(a, i)
    OBVIOUS
  <2>0. Filled(a, i) \in Cell /\ Filled(read, i) \in Cell
    BY <1>1, FilledIsADistance, RingFacts
  <2>1. Filled(a, i) \in Int /\ Filled(read, i) \in Int
    BY <1>1, <2>0 DEF Cell
  <2>2. Filled(read, i) < Unread
    BY <1>1, <1>3, <2>1
  <2>3. cells[i] = sent - Unread + 1 + Filled(read, i)
    BY <2>2 DEF Uploading
  <2>. QED BY <1>1, <1>3, <2>1, <2>3
<1>. QED
  BY <1>1, <1>2, <1>4, RingFacts DEF Uploading

LEMMA UploadHolds ==
  ASSUME RingTypes, SoundKept, NEW len \in Chunks, Upload(len)
  PROVE  SoundKept'
<1>1. /\ num' = Whole(len, Free(read, write)) /\ upc' = "copy"
      /\ cells' = [i \in DOMAIN cells |-> IF i \in Span(write, num') THEN Torn ELSE cells[i]]
      /\ UNCHANGED <<read, write, flush_gen, acked, last, apc, ar, aw, todo, sent, heard, mark>>
  BY DEF Upload, flush, mixer, history
<1>2. num' \in 0 .. Size - 2 /\ num' \in 0 .. Size /\ Filled(read, write) + num' <= Size - 2
  <2>1. num' \in 0 .. Size - 2 /\ Filled(read, write) + num' <= Size - 2
    BY <1>1, UploadFits, RingFacts
  <2>. QED BY <2>1, RingFacts
<1>3. \A i \in Cell : Filled(read, i) < Unread \/ Filled(i, read) = 1 \/ Filled(i, read) = 2 => cells'[i] = cells[i]
  <2>. SUFFICES ASSUME NEW i \in Cell, i \in Span(write, num')
                PROVE  ~(Filled(read, i) < Unread) /\ Filled(i, read) # 1 /\ Filled(i, read) # 2
    BY <1>1, RingFacts
  <2>1. Filled(read, i) >= Filled(read, write) /\ Filled(i, read) # 1 /\ Filled(i, read) # 2
    BY <1>2, RingFacts, UploadsBeyond
  <2>2. Filled(read, i) \in Cell /\ Filled(read, write) \in Cell /\ Size \in Nat
    BY RingFacts, FilledIsADistance
  <2>. QED BY <2>1, <2>2 DEF Unread, Cell
<1>4. Uploading'
  BY <1>1, <1>2, <1>3 DEF SoundKept, Uploading, Unread
<1>5. Draining'
  BY <1>1, <1>3 DEF SoundKept, Draining, Unread, Taken
<1>6. Flushing' /\ Fading'
  BY <1>1 DEF SoundKept, Flushing, Fading, Unread
<1>. QED BY <1>4, <1>5, <1>6 DEF SoundKept

LEMMA CopyHolds ==
  ASSUME RingTypes, SoundKept, Copy
  PROVE  SoundKept'
<1>1. /\ upc' = "publish"
      /\ cells' = [i \in DOMAIN cells |->
                    IF i \in Span(write, num) THEN sent + 1 + ((i - write) % Size) ELSE cells[i]]
      /\ UNCHANGED <<read, write, flush_gen, acked, last, num, apc, ar, aw, todo, sent, heard, mark>>
  BY DEF Copy, flush, mixer, history
<1>2. \A i \in Cell : Filled(read, i) < Unread \/ Filled(i, read) = 1 \/ Filled(i, read) = 2 => cells'[i] = cells[i]
  <2>. SUFFICES ASSUME NEW i \in Cell, i \in Span(write, num)
                PROVE  ~(Filled(read, i) < Unread) /\ Filled(i, read) # 1 /\ Filled(i, read) # 2
    BY <1>1, RingFacts
  <2>1. Filled(read, i) >= Filled(read, write) /\ Filled(i, read) # 1 /\ Filled(i, read) # 2
    BY RingFacts, UploadsBeyond DEF SoundKept, Uploading, Unread
  <2>2. Filled(read, i) \in Cell /\ Filled(read, write) \in Cell /\ Size \in Nat
    BY RingFacts, FilledIsADistance
  <2>. QED BY <2>1, <2>2 DEF Unread, Cell
<1>3. \A i \in Cell : Filled(write, i) < num => cells'[i] = sent + 1 + Filled(write, i)
  BY <1>1, RingFacts, SpanIsADistance
<1>4. Uploading'
  BY <1>1, <1>2, <1>3 DEF SoundKept, Uploading, Unread
<1>5. Draining'
  BY <1>1, <1>2 DEF SoundKept, Draining, Unread, Taken
<1>6. Flushing' /\ Fading'
  BY <1>1 DEF SoundKept, Flushing, Fading, Unread
<1>. QED BY <1>4, <1>5, <1>6 DEF SoundKept

LEMMA PublishHolds ==
  ASSUME RingTypes, SoundKept, Publish
  PROVE  SoundKept'
<1>1. /\ write' = After(write, num) /\ sent' = sent + num /\ num' = 0 /\ upc = "publish" /\ upc' = "idle"
      /\ UNCHANGED <<cells, read, flush_gen, acked, last, apc, ar, aw, todo, heard, mark>>
  BY DEF Publish, flush, mixer
<1>2. num \in 0 .. Size - 2 /\ num % 2 = 0 /\ Unread + num <= Size - 2
  BY DEF RingTypes, TypeOK, SoundKept, Uploading
<1>3. write' \in Indices /\ write' \in Cell /\ Filled(write, write') = num
  BY <1>1, <1>2, RingFacts, AfterIsAhead, FilledInFrames
<1>4. Unread' = Unread + num /\ sent' - Unread' = sent - Unread
  <2>1. Filled(read, write) + Filled(write, write') < Size
    BY <1>2, <1>3, RingFacts DEF Unread
  <2>2. Filled(read, write') = Filled(read, write) + Filled(write, write')
    BY <1>3, <2>1, RingFacts, Between
  <2>. QED BY <1>1, <1>3, <2>2, RingFacts DEF Unread
<1>5. \A i \in Cell : Filled(read, i) < Unread + num => cells[i] = sent - Unread + 1 + Filled(read, i)
  <2>. SUFFICES ASSUME NEW i \in Cell, Filled(read, i) < Unread + num
                PROVE  cells[i] = sent - Unread + 1 + Filled(read, i)
    OBVIOUS
  <2>1. CASE Filled(read, i) < Unread
    BY <2>1 DEF SoundKept, Uploading
  <2>2. CASE ~(Filled(read, i) < Unread)
    <3>0. Filled(read, i) \in Cell /\ Size \in Nat
      BY RingFacts, FilledIsADistance
    <3>1. Filled(read, i) \in Int
      BY <3>0 DEF Cell
    <3>2. Filled(read, write) <= Filled(read, i)
      BY <2>2, <3>1, RingFacts DEF Unread
    <3>3. Filled(write, i) = Filled(read, i) - Unread
      BY <3>2, RingFacts, Between DEF Unread
    <3>4. Filled(write, i) < num
      BY <3>1, <3>3, RingFacts
    <3>5. cells[i] = sent + 1 + Filled(write, i)
      BY <1>1, <3>4 DEF SoundKept, Uploading
    <3>. QED BY <3>1, <3>3, <3>5, RingFacts
  <2>. QED BY <2>1, <2>2
<1>6. Uploading'
  <2>1. Unread' <= sent' /\ Unread' + num' <= Size - 2
    BY <1>1, <1>2, <1>4, RingFacts DEF SoundKept, Uploading
  <2>2. \A i \in Cell : Filled(read, i) < Unread' => cells'[i] = sent' - Unread' + 1 + Filled(read, i)
    BY <1>1, <1>4, <1>5
  <2>. QED BY <1>1, <2>1, <2>2 DEF Uploading
<1>7. Unread' >= Unread /\ sent' >= sent
  BY <1>1, <1>4, RingFacts
<1>8. Draining'
  <2>1. Taken' = Taken
    BY <1>1 DEF Taken
  <2>. QED BY <1>1, <1>4, <1>7, <2>1, RingFacts DEF SoundKept, Draining
<1>9. Flushing'
  <2>1. apc = "drop" => Filled(read, aw) \in Nat
    BY RingFacts, FilledInFrames
  <2>2. last'[2] = last[2] /\ mark[acked] \in Nat
    BY <1>1, RingFacts
  <2>. QED BY <1>1, <1>4, <1>7, <2>1, <2>2, RingFacts DEF SoundKept, Flushing
<1>10. Fading'
  BY <1>1 DEF SoundKept, Fading
<1>. QED BY <1>6, <1>8, <1>9, <1>10 DEF SoundKept

LEMMA HostHolds ==
  ASSUME RingTypes, SoundKept, RequestFlush \/ Register \/ Unregister \/ Activate
  PROVE  SoundKept'
<1>1. /\ UNCHANGED <<cells, read, write, acked, last, num, apc, ar, aw, todo, sent, heard>>
      /\ upc' # "publish" /\ flush_gen' \in {flush_gen, flush_gen + 1}
  BY DEF RequestFlush, Register, Unregister, Activate, ring, flush, uploader, mixer, history
<1>2. mark'[acked] = mark[acked]
  <2>1. CASE RequestFlush
    <3>1. flush_gen' = flush_gen + 1 /\ mark' = [mark EXCEPT ![flush_gen + 1] = sent]
      BY <2>1 DEF RequestFlush
    <3>. QED BY <3>1, RingFacts DEF RingTypes, SoundKept, Flushing
  <2>2. CASE ~RequestFlush
    BY <2>2 DEF Register, Unregister, Activate, history
  <2>. QED BY <2>1, <2>2
<1>3. Uploading'
  BY <1>1 DEF SoundKept, Uploading, Unread
<1>4. Draining' /\ Fading'
  BY <1>1 DEF SoundKept, Draining, Fading, Unread, Taken
<1>5. Flushing'
  <2>1. acked' <= flush_gen'
    BY <1>1, RingFacts DEF SoundKept, Flushing
  <2>. QED BY <1>1, <1>2, <2>1 DEF SoundKept, Flushing, Unread
<1>. QED BY <1>3, <1>4, <1>5 DEF SoundKept

\* The last store of a reinitialisation: an empty ring, and nothing to fade from.
LEMMA UnackHolds ==
  ASSUME RingTypes, Reinitialising, ~underfoot, Unack
  PROVE  SoundKept'
<1>1. /\ upc = "unack" /\ upc' \in {"idle", "activate"} /\ acked' = 0 /\ last' = <<Silence, Silence>>
      /\ UNCHANGED <<cells, read, write, flush_gen, num, apc, ar, aw, todo, sent, heard, mark>>
  BY DEF Unack, ring, mixer, history
<1>2. /\ read = 0 /\ write = 0 /\ flush_gen = 0 /\ mark[0] = sent /\ num = 0 /\ heard <= sent + num
      /\ apc \notin {"take", "publish", "recall", "skip", "drop"}
  BY <1>1 DEF Reinitialising, Rewinding, RingTypes, InSlot
<1>3. Unread' = 0 /\ 0 \in Cell
  BY <1>1, <1>2, SizesAssumption DEF Unread, Filled, Cell
<1>4. Uploading'
  <2>1. \A i \in Cell : Filled(read, i) \in Cell
    BY RingFacts, FilledIsADistance
  <2>2. \A i \in Cell : ~(Filled(read, i) < 0)
    BY <2>1, SizesAssumption DEF Cell
  <2>. QED BY <1>1, <1>2, <1>3, <2>2, RingFacts, SizesAssumption DEF Uploading
<1>5. Draining'
  BY <1>1, <1>2, <1>3, RingFacts DEF Draining
<1>6. Flushing'
  <2>1. last'[2] = Silence
    BY <1>1
  <2>. QED BY <1>1, <1>2, <1>3, <2>1, RingFacts DEF Flushing
<1>7. Fading'
  BY <1>1 DEF Fading
<1>. QED BY <1>4, <1>5, <1>6, <1>7 DEF SoundKept

\* Steps of the audio thread that leave both indices and the cells alone
LEMMA LooksHold ==
  ASSUME RingTypes, SoundKept,
         \/ PollSilent \/ PollFilled \/ CheckFlush \/ SkipChunk \/ EnterChunk \/ Fade
         \/ \E n \in Requests : Callback(n)
  PROVE  SoundKept'
<1>1. UNCHANGED <<cells, read, write, flush_gen, upc, num, ar, aw, todo, sent, heard, mark>>
  BY DEF PollSilent, PollFilled, CheckFlush, SkipChunk, EnterChunk, Fade, Callback, ring, flush, uploader, history
<1>2. /\ apc \notin {"seek", "drop", "skip", "take", "publish", "recall"}
      /\ apc' \notin {"drop", "skip", "take", "publish", "recall"}
  BY DEF PollSilent, PollFilled, CheckFlush, SkipChunk, EnterChunk, Fade, Callback, LeaveSlot
<1>3. last' \in {last, <<Silence, Silence>>}
  BY DEF PollSilent, PollFilled, CheckFlush, SkipChunk, EnterChunk, Fade, Callback
<1>4. acked' = acked \/ (apc' = "seek" /\ acked' = flush_gen)
  BY DEF PollSilent, PollFilled, CheckFlush, SkipChunk, EnterChunk, Fade, Callback, flush
<1>5. Uploading'
  BY <1>1 DEF SoundKept, Uploading, Unread
<1>6. Draining' /\ Fading'
  BY <1>1, <1>2, <1>3 DEF SoundKept, Draining, Fading, Unread, Taken
<1>7. Flushing'
  <2>1. acked' <= flush_gen'
    BY <1>1, <1>4, RingFacts DEF SoundKept, Flushing
  <2>2. last'[2] \in {last[2], Silence}
    BY <1>3
  <2>. QED BY <1>1, <1>2, <1>4, <2>1, <2>2 DEF SoundKept, Flushing, Unread
<1>. QED BY <1>5, <1>6, <1>7 DEF SoundKept

LEMMA SeekHolds ==
  ASSUME RingTypes, SoundKept, Seek
  PROVE  SoundKept'
<1>1. /\ aw' = write /\ apc = "seek" /\ apc' = "drop"
      /\ UNCHANGED <<cells, read, write, flush_gen, acked, last, upc, num, ar, todo, sent, heard, mark>>
  BY DEF Seek, ring, flush, uploader, history
<1>2. Uploading' /\ Draining' /\ Fading'
  BY <1>1 DEF SoundKept, Uploading, Draining, Fading, Unread, Taken
<1>3. Flushing'
  <2>1. mark[acked] <= sent
    BY RingFacts DEF RingTypes
  <2>2. Filled(read, write) = Unread /\ sent - Unread + Unread = sent
    BY RingFacts DEF Unread
  <2>. QED BY <1>1, <2>1, <2>2, RingFacts DEF SoundKept, Flushing, Unread
<1>. QED BY <1>2, <1>3 DEF SoundKept

LEMMA DropHolds ==
  ASSUME RingTypes, SoundKept, Drop
  PROVE  SoundKept'
<1>1. /\ read' = aw /\ apc = "drop" /\ apc' = "backlog" /\ last' = <<Silence, Silence>>
      /\ UNCHANGED <<cells, write, flush_gen, acked, upc, num, ar, aw, todo, sent, heard, mark>>
  BY DEF Drop, flush, uploader, history
<1>2. Filled(read, aw) <= Unread
  BY <1>1 DEF SoundKept, Flushing
<1>3. Uploading' /\ Unread' = Unread - Filled(read, aw) /\ Filled(read, aw) \in Nat
  BY <1>1, <1>2, RingFacts, Advance DEF SoundKept
<1>4. sent' - Unread' = sent - Unread + Filled(read, aw)
  BY <1>1, <1>3, RingFacts
<1>5. Draining'
  BY <1>1, <1>3, <1>4, RingFacts DEF SoundKept, Draining
<1>6. Flushing'
  <2>1. last'[2] = Silence
    BY <1>1
  <2>. QED BY <1>1, <1>3, <1>4, <2>1 DEF SoundKept, Flushing
<1>7. Fading'
  BY <1>1 DEF Fading
<1>. QED BY <1>3, <1>5, <1>6, <1>7 DEF SoundKept

LEMMA MeasureHolds ==
  ASSUME RingTypes, SoundKept, Measure
  PROVE  SoundKept'
<1>. DEFINE excess == IF Filled(read, write) > Target THEN Even(Filled(read, write) - Target) ELSE 0
<1>1. /\ aw' = write /\ apc = "backlog" /\ apc' \in {"chunk", "skip"} /\ ar' = (read + excess) % Size
      /\ UNCHANGED <<cells, read, write, flush_gen, acked, last, upc, num, todo, sent, heard, mark>>
  BY DEF Measure, ring, flush, uploader, history
<1>2. Target \in Nat
  BY SizesAssumption DEF Target, Smaller, RingTypes, TypeOK
<1>3. excess \in 0 .. Unread
  BY <1>2, RingFacts DEF Even, Unread
<1>. HIDE DEF excess
<1>4. Filled(read, ar') <= Unread
  <2>1. excess \in Cell
    BY <1>3, RingFacts, SMTT(20) DEF Cell
  <2>2. Filled(read, (read + excess) % Size) = excess
    BY <2>1, RingFacts, Ahead
  <2>. QED BY <1>1, <1>3, <2>2, RingFacts
<1>5. Uploading' /\ Fading' /\ Flushing'
  BY <1>1 DEF SoundKept, Uploading, Fading, Flushing, Unread
<1>6. Draining'
  BY <1>1, <1>4 DEF SoundKept, Draining, Unread, Taken
<1>. QED BY <1>5, <1>6 DEF SoundKept

LEMMA SkipHolds ==
  ASSUME RingTypes, SoundKept, Skip
  PROVE  SoundKept'
<1>1. /\ read' = ar /\ apc = "skip" /\ apc' = "chunk"
      /\ UNCHANGED <<cells, write, flush_gen, acked, last, upc, num, ar, aw, todo, sent, heard, mark>>
  BY DEF Skip, flush, uploader, history
<1>2. Filled(read, ar) <= Unread
  BY <1>1 DEF SoundKept, Draining, Taken
<1>3. Uploading' /\ Unread' = Unread - Filled(read, ar) /\ Filled(read, ar) \in Nat
  BY <1>1, <1>2, RingFacts, Advance DEF SoundKept
<1>4. sent' - Unread' >= sent - Unread /\ sent' - Unread' \in Int /\ sent - Unread \in Int
  BY <1>1, <1>3, RingFacts
<1>5. Draining' /\ Fading'
  BY <1>1, <1>4, RingFacts DEF SoundKept, Draining, Fading
<1>6. Flushing'
  <2>1. mark[acked] \in Nat
    BY RingFacts
  <2>. QED BY <1>1, <1>4, <2>1 DEF SoundKept, Flushing
<1>. QED BY <1>3, <1>5, <1>6 DEF SoundKept

LEMMA DrainHolds ==
  ASSUME RingTypes, SoundKept, Drain
  PROVE  SoundKept'
<1>1. /\ ar' = read /\ aw' = write /\ apc = "measure" /\ apc' \in {"fade", "take"}
      /\ todo' = Whole(ChunkSize, Filled(read, write))
      /\ UNCHANGED <<cells, read, write, flush_gen, acked, last, upc, num, sent, heard, mark>>
  BY DEF Drain, ring, flush, uploader, history
<1>2. todo' \in 0 .. Unread
  <2>1. ChunkSize \in Nat /\ ChunkSize % 2 = 0
    BY ChunkIsWhole DEF RingTypes, TypeOK
  <2>2. Filled(read, write) \in 0 .. Size - 2 /\ Filled(read, write) % 2 = 0
    BY RingFacts DEF Unread
  <2>. QED BY <1>1, <2>1, <2>2, DrainFits DEF Unread
<1>3. Taken' = 0 /\ Unread' = Unread
  BY <1>1, RingFacts, FilledIsADistance DEF Taken, Unread
<1>4. Uploading' /\ Fading' /\ Flushing'
  BY <1>1 DEF SoundKept, Uploading, Fading, Flushing, Unread
<1>5. Draining'
  <2>1. heard <= sent - Unread + 0 /\ 0 + todo' <= Unread
    BY <1>1, <1>2, RingFacts DEF SoundKept, Draining
  <2>. QED BY <1>1, <1>3, <2>1, RingFacts DEF Draining
<1>. QED BY <1>4, <1>5 DEF SoundKept

\* A drain takes the next frame in order.
LEMMA TakeHolds ==
  ASSUME RingTypes, SoundKept, Take
  PROVE  SoundKept'
<1>1. /\ heard' = cells[(ar + 1) % Size] /\ ar' = (ar + 2) % Size /\ todo' = todo - 2
      /\ apc = "take" /\ apc' = (IF todo' = 0 THEN "publish" ELSE "take")
      /\ UNCHANGED <<cells, read, write, flush_gen, acked, last, upc, num, aw, sent, mark>>
  BY DEF Take, ring, flush, uploader
<1>2. /\ todo - 2 \in Nat /\ Taken + todo <= Unread
      /\ todo \in Nat /\ Taken \in Nat /\ Unread \in 0 .. Size - 2 /\ Size \in Nat
  <2>1. todo \in Nat /\ todo % 2 = 0 /\ todo > 0 /\ Taken + todo <= Unread
    BY <1>1, RingFacts DEF RingTypes, SoundKept, Draining
  <2>. QED BY <2>1, RingFacts, TakesAFrame
<1>3. 1 \in Cell /\ 2 \in Cell
  BY SizesAssumption DEF Cell
<1>4. Filled(read, (ar + 1) % Size) = Taken + 1 /\ (ar + 1) % Size \in Cell
  <2>1. (ar + 1) % Size \in Cell /\ Filled(ar, (ar + 1) % Size) = 1
    BY <1>3, RingFacts, Ahead
  <2>2. Taken + 1 < Size
    BY <1>2, RingFacts
  <2>. QED BY <2>1, <2>2, RingFacts, Between DEF Taken
<1>5. Taken' = Taken + 2
  <2>1. (ar + 2) % Size \in Cell /\ Filled(ar, (ar + 2) % Size) = 2
    BY <1>3, RingFacts, Ahead
  <2>2. Taken + 2 < Size
    BY <1>2, RingFacts
  <2>3. Filled(read, (ar + 2) % Size) = Taken + 2
    BY <2>1, <2>2, RingFacts, Between DEF Taken
  <2>. QED BY <1>1, <2>3 DEF Taken
<1>6. heard' = sent - Unread + Taken'
  <2>1. Filled(read, (ar + 1) % Size) < Unread
    BY <1>2, <1>4, RingFacts
  <2>2. cells[(ar + 1) % Size] = sent - Unread + 1 + (Taken + 1)
    BY <1>4, <2>1 DEF SoundKept, Uploading
  <2>. QED BY <1>1, <1>5, <2>2, RingFacts
<1>7. Taken' + todo' <= Unread /\ Taken' \in 1 .. Unread
  BY <1>1, <1>2, <1>5
<1>8. Uploading' /\ Fading' /\ Flushing'
  BY <1>1 DEF SoundKept, Uploading, Fading, Flushing, Unread
<1>9. Draining'
  <2>1. Unread' = Unread /\ heard' <= sent - Unread + Taken'
    BY <1>1, <1>6, <1>5, RingFacts DEF Unread
  <2>. QED BY <1>1, <1>6, <1>7, <2>1 DEF Draining
<1>. QED BY <1>8, <1>9 DEF SoundKept

LEMMA PublishReadHolds ==
  ASSUME RingTypes, SoundKept, PublishRead
  PROVE  SoundKept'
<1>1. /\ read' = ar /\ apc = "publish" /\ apc' = "recall"
      /\ UNCHANGED <<cells, write, flush_gen, acked, last, upc, num, ar, aw, todo, sent, heard, mark>>
  BY DEF PublishRead, flush, uploader, history
<1>2. Taken \in 1 .. Unread /\ heard = sent - Unread + Taken /\ Taken % 2 = 0 /\ Filled(read, ar) = Taken
  BY <1>1, RingFacts DEF SoundKept, Draining, Taken
<1>3. Uploading' /\ Unread' = Unread - Taken
  <2>1. Filled(read, ar) <= Unread
    BY <1>2, RingFacts
  <2>. QED BY <1>1, <1>2, <2>1, RingFacts, Advance DEF SoundKept
<1>4. heard = sent' - Unread'
  BY <1>1, <1>2, <1>3, RingFacts
<1>5. ASSUME NEW i \in Cell, NEW k \in {1, 2}, Filled(i, ar) = k
      PROVE  cells[i] = heard + 1 - k
  <2>1. Filled(read, i) \in Cell /\ i \in Cell /\ ar \in Cell /\ read \in Cell
    BY RingFacts, FilledIsADistance
  <2>2. Taken \in 2 .. Unread /\ Unread \in 0 .. Size - 2 /\ Size \in Nat /\ sent \in Nat
    BY <1>2, RingFacts
  <2>3. Filled(read, i) + k < Size => Taken = Filled(read, i) + k
    BY <1>2, <1>5, <2>1, Between
  <2>4. Filled(read, i) + k >= Size => Taken = Filled(read, i) + k - Size
    BY <1>2, <1>5, <2>1, Between
  <2>5. Filled(read, i) = Taken - k /\ Filled(read, i) < Unread
    BY <2>1, <2>2, <2>3, <2>4 DEF Cell
  <2>6. cells[i] = sent - Unread + 1 + Filled(read, i)
    BY <2>5 DEF SoundKept, Uploading
  <2>. QED BY <1>2, <2>2, <2>5, <2>6
<1>6. Draining'
  <2>1. \A i \in Cell : Filled(i, ar) = 1 => cells[i] = heard
    BY <1>5, RingFacts
  <2>2. \A i \in Cell : Filled(i, ar) = 2 => cells[i] = heard - 1
    BY <1>5, RingFacts
  <2>. QED BY <1>1, <1>4, <2>1, <2>2, RingFacts DEF Draining
<1>7. Flushing'
  <2>1. mark[acked] \in Nat /\ mark[acked] <= sent - Unread
    BY <1>1, RingFacts DEF SoundKept, Flushing
  <2>2. mark[acked] < heard /\ mark[acked] <= sent' - Unread'
    BY <1>2, <1>4, <2>1, RingFacts
  <2>. QED BY <1>1, <2>2 DEF SoundKept, Flushing
<1>8. Fading'
  BY <1>1 DEF Fading
<1>. QED BY <1>3, <1>6, <1>7, <1>8 DEF SoundKept

\* The frame before read_index has not been overwritten.
LEMMA RecallHolds ==
  ASSUME RingTypes, SoundKept, Recall
  PROVE  SoundKept'
<1>1. /\ last' = <<cells[(ar - 2) % Size], cells[(ar - 1) % Size]>> /\ apc = "recall" /\ apc' = "fade"
      /\ UNCHANGED <<cells, read, write, flush_gen, acked, upc, num, ar, aw, todo, sent, heard, mark>>
  BY DEF Recall, ring, flush, uploader, history
<1>2. last' = <<heard - 1, heard>>
  <2>1. 1 \in Cell /\ 2 \in Cell
    BY SizesAssumption DEF Cell
  <2>2. /\ (ar - 1) % Size \in Cell /\ Filled((ar - 1) % Size, ar) = 1
        /\ (ar - 2) % Size \in Cell /\ Filled((ar - 2) % Size, ar) = 2
    BY <2>1, RingFacts, BehindBy
  <2>. QED BY <1>1, <2>2 DEF SoundKept, Draining
<1>3. Uploading' /\ Draining'
  BY <1>1 DEF SoundKept, Uploading, Draining, Unread, Taken
<1>4. Flushing'
  <2>1. heard = sent - Unread /\ mark[acked] < heard /\ mark[acked] \in Nat
    BY <1>1, RingFacts DEF SoundKept, Draining, Flushing
  <2>2. last'[2] \in mark[acked] + 1 .. sent
    BY <1>2, <2>1, RingFacts
  <2>. QED BY <1>1, <2>2 DEF SoundKept, Flushing, Unread
<1>5. Fading'
  BY <1>1, <1>2 DEF Fading
<1>. QED BY <1>3, <1>4, <1>5 DEF SoundKept

----------------------------------------------------------------------------
(* The inductive invariant *)

LEMMA RingStarts == Init => RingInv
<1>. SUFFICES ASSUME Init PROVE RingInv
  OBVIOUS
<1>1. 0 \in Indices /\ 0 % 2 = 0 /\ 0 \in Cell
  BY SizesAssumption DEF Indices, Cell
<1>2. RingTypes
  <2>1. cells = [i \in Cell |-> 0] /\ mark = [g \in 0 .. MaxFlushes |-> 0] /\ last = <<0, 0>>
    BY DEF Init, Cell, Silence
  <2>2. /\ cells \in [0 .. Size - 1 -> Torn .. MaxSent] /\ mark \in [0 .. MaxFlushes -> 0 .. MaxSent]
        /\ last \in (Torn .. MaxSent) \X (Torn .. MaxSent)
        /\ (\A i \in Cell : cells[i] <= 0) /\ (\A g \in 0 .. MaxFlushes : mark[g] <= 0)
    BY <2>1, SizesAssumption DEF Torn, Cell
  <2>3. /\ read = 0 /\ write = 0 /\ ar = 0 /\ aw = 0 /\ flush_gen = 0 /\ acked = 0 /\ num = 0
        /\ todo = 0 /\ left = 0 /\ sent = 0 /\ heard = 0 /\ upc = "idle" /\ apc = "idle"
    BY DEF Init
  <2>4. active \in BOOLEAN /\ announcing \in BOOLEAN /\ underfoot \in BOOLEAN
    BY DEF Init
  <2>5. MaxSent \in Nat /\ MaxFlushes \in Nat /\ 0 \in 0 .. Size - 2 /\ 0 \in Torn .. MaxSent
    BY SizesAssumption DEF Torn
  <2>6. TypeOK
    BY <1>1, <2>2, <2>3, <2>4, <2>5 DEF TypeOK
  <2>. QED
    BY <1>1, <2>2, <2>3, <2>5, <2>6 DEF RingTypes, UploaderAt, MixerAt
<1>3. Unread = 0 /\ read = 0 /\ \A i \in Cell : Filled(0, i) \in Cell
  BY <1>1, FilledIsADistance DEF Init, Unread
<1>4. \A i \in Cell : ~(Filled(0, i) < 0)
  BY <1>3, SizesAssumption DEF Cell
<1>5. SoundKept
  BY <1>3, <1>4, SizesAssumption DEF Init, SoundKept, Uploading, Draining, Flushing, Fading
<1>6. Reinitialising
  BY DEF Init, Reinitialising, Rewinding
<1>. QED BY <1>2, <1>5, <1>6 DEF RingInv

LEMMA RingHolds == RingInv /\ [Next]_vars => RingInv'
<1>. SUFFICES ASSUME RingInv, [Next]_vars PROVE RingInv'
  OBVIOUS
<1>1. RingTypes /\ RingTypes' /\ Reinitialising /\ Reinitialising'
  BY TypesHold, ReinitHolds DEF RingInv
<1>. SUFFICES ASSUME Sound' PROVE SoundKept'
  BY <1>1 DEF RingInv
<1>2. CASE Unack
  <2>1. ~underfoot
    BY <1>2 DEF Unack, history, Sound
  <2>. QED BY <1>1, <1>2, <2>1, UnackHolds
<1>3. CASE Clear \/ RewindRead \/ RewindWrite \/ Forget
  BY <1>3 DEF Clear, RewindRead, RewindWrite, Forget, Sound, Rewinding
<1>. DEFINE Else ==
       \/ UNCHANGED vars \/ Copy \/ Publish \/ Activate \/ RequestFlush \/ Register \/ Unregister
       \/ (\E len \in Chunks : Upload(len)) \/ AudioStep
<1>4. ASSUME Else PROVE SoundKept
  <2>1. UNCHANGED underfoot
    BY <1>4 DEF vars, Copy, Publish, Activate, RequestFlush, Register, Unregister, Upload, AudioStep,
       PollSilent, PollFilled, CheckFlush, Seek, Drop, Measure, Skip, SkipChunk,
       EnterChunk, Drain, Take, PublishRead, Recall, Fade, Callback, history
  <2>2. upc \notin Rewinding \/ upc' = upc
    BY <1>4 DEF vars, Copy, Publish, Activate, RequestFlush, Register, Unregister, Upload, AudioStep,
       PollSilent, PollFilled, CheckFlush, Seek, Drop, Measure, Skip, SkipChunk,
       EnterChunk, Drain, Take, PublishRead, Recall, Fade, Callback, uploader, Rewinding
  <2>. QED BY <2>1, <2>2 DEF RingInv, Sound
<1>5. CASE UNCHANGED vars
  <2>1. SoundKept
    BY <1>4, <1>5
  <2>. QED
    BY <1>5, <2>1 DEF vars, ring, flush, uploader, mixer, history, SoundKept, Uploading, Draining, Flushing, Fading,
       Unread, Taken
<1>6. CASE (\E len \in Chunks : Upload(len)) \/ Copy \/ Publish \/ RequestFlush \/ Register \/ Unregister \/ Activate
  BY <1>1, <1>4, <1>6, UploadHolds, CopyHolds, PublishHolds, HostHolds
<1>7. CASE AudioStep
  <2>1. SoundKept
    BY <1>4, <1>7
  <2>2. CASE \/ PollSilent \/ PollFilled \/ CheckFlush \/ SkipChunk \/ EnterChunk \/ Fade
             \/ \E n \in Requests : Callback(n)
    BY <1>1, <2>1, <2>2, LooksHold
  <2>3. CASE Seek \/ Drop \/ Measure \/ Skip
    BY <1>1, <2>1, <2>3, SeekHolds, DropHolds, MeasureHolds, SkipHolds
  <2>4. CASE Drain \/ Take \/ PublishRead \/ Recall
    BY <1>1, <2>1, <2>4, DrainHolds, TakeHolds, PublishReadHolds, RecallHolds
  <2>. QED BY <1>7, <2>2, <2>3, <2>4 DEF AudioStep
<1>. QED
  BY <1>2, <1>3, <1>5, <1>6, <1>7 DEF Next, EmulationStep, HostStep

THEOREM RingIsInductive == Spec => []RingInv
BY RingStarts, RingHolds, PTL DEF Spec

\* Every frame taken for mixing was uploaded whole, is newer than the one before
\* and than the last flush acknowledged, and a fade starts from it: the unread
\* cells hold the newest samples in order, and a take is among them.
THEOREM RingKeepsItsSound == Spec => []RingKeepsTheSound
<1>1. RingInv => RingKeepsTheSound
  <2>. SUFFICES ASSUME RingInv PROVE RingKeepsTheSound
    OBVIOUS
  <2>1. RingTypes /\ TypeOK
    BY DEF RingInv, RingTypes
  <2>2. InSlot /\ ~underfoot => SoundKept
    BY DEF RingInv, Reinitialising, Sound
  <2>3. ASSUME apc = "take", ~underfoot
        PROVE  cells[ar] = sent - Unread + 1 + Taken /\ cells[ar + 1] = cells[ar] + 1
               /\ Taken < Unread /\ SoundKept
    <3>1. SoundKept
      BY <2>2, <2>3 DEF InSlot
    <3>2. ar + 1 = (ar + 1) % Size /\ ar + 1 \in Cell /\ 1 \in Cell
      <4>1. 1 \in Cell
        BY SizesAssumption DEF Cell
      <4>. QED BY <2>1, <4>1, RingFacts, FrameAround
    <3>3. Taken + todo <= Unread /\ todo > 0 /\ todo % 2 = 0 /\ todo \in Nat /\ Taken \in Nat
          /\ Unread \in 0 .. Size - 2 /\ Size \in Nat
      BY <2>1, <2>3, <3>1, RingFacts DEF SoundKept, Draining, RingTypes
    <3>4. Taken + 1 < Unread
      BY <3>3
    <3>5. Filled(read, ar + 1) = Taken + 1
      <4>1. Filled(ar, ar + 1) = 1
        BY <2>1, <3>2, RingFacts, Ahead
      <4>2. Filled(read, ar) + Filled(ar, ar + 1) < Size
        BY <3>3, <3>4, <4>1 DEF Taken
      <4>. QED BY <2>1, <3>2, <4>1, <4>2, RingFacts, Between DEF Taken
    <3>6. cells[ar] = sent - Unread + 1 + Taken
      BY <2>1, <3>1, <3>3, <3>4, RingFacts DEF SoundKept, Uploading, Taken
    <3>7. cells[ar + 1] = sent - Unread + 1 + (Taken + 1)
      BY <3>1, <3>2, <3>4, <3>5 DEF SoundKept, Uploading
    <3>. QED BY <2>1, <3>1, <3>3, <3>4, <3>6, <3>7, RingFacts
  <2>4. WholeFramesInOrder
    <3>. SUFFICES ASSUME apc = "take", ~underfoot
                  PROVE  cells[ar] > heard /\ cells[ar] % 2 = 1 /\ cells[ar + 1] = cells[ar] + 1
      BY DEF WholeFramesInOrder
    <3>1. heard <= sent - Unread + Taken /\ heard \in Int /\ sent \in Nat /\ Unread \in Nat /\ Taken \in Nat
      BY <2>1, <2>3, RingFacts DEF SoundKept, Draining
    <3>2. sent % 2 = 0 /\ Unread % 2 = 0 /\ Taken % 2 = 0
      BY <2>1, RingFacts DEF RingTypes
    <3>3. (sent - Unread + 1 + Taken) % 2 = 1
      BY <3>1, <3>2
    <3>. QED BY <2>3, <3>1, <3>3
  <2>5. FlushDropsTheBacklog
    <3>1. ASSUME apc = "take", ~underfoot PROVE cells[ar] > mark[acked]
      <4>1. mark[acked] <= sent - Unread /\ mark[acked] \in Nat
        BY <2>1, <2>3, <3>1, RingFacts DEF SoundKept, Flushing
      <4>. QED BY <2>1, <2>3, <3>1, <4>1, RingFacts
    <3>2. InSlot /\ apc \notin {"flush", "seek", "drop"} /\ ~underfoot =>
            last[2] \in {Silence} \cup (mark[acked] + 1 .. sent)
      BY <2>2 DEF SoundKept, Flushing
    <3>. QED BY <3>1, <3>2 DEF FlushDropsTheBacklog
  <2>6. FadeStartsFromTheLastFrame
    BY <2>2 DEF FadeStartsFromTheLastFrame, SoundKept, Fading, InSlot
  <2>. QED BY <2>1, <2>4, <2>5, <2>6 DEF RingKeepsTheSound
<1>. QED BY <1>1, RingIsInductive, PTL

----------------------------------------------------------------------------
(* The Mockingboard.  Induction over the naturals, and runs of a function.    *)

(* A set of naturals that is not empty has a least member. *)
LEMMA LeastNatural ==
  ASSUME NEW T, T \subseteq Nat, T # {}
  PROVE  \E m \in T : \A n \in T : m <= n
<1> DEFINE R == OpToRel(<, Nat)
<1>1. \E m \in T : \A n \in T : ~ (<<n, m>> \in R)
  <2> HIDE DEF R
  <2> QED BY NatLessThanWellFounded, WFMin DEF R
<1>2. ASSUME NEW m \in T, NEW n \in T, ~ (<<n, m>> \in R)
      PROVE  m <= n
  BY <1>2 DEF OpToRel
<1> QED BY <1>1, <1>2

(* Induction up to n, for the members of a set. *)
LEMMA UpTo ==
  ASSUME NEW n \in Nat, NEW T, 0 \in T,
         \A k \in 0 .. n : k < n /\ k \in T => k + 1 \in T
  PROVE  \A k \in 0 .. n : k \in T
<1> DEFINE U == {k \in 0 .. n : k \notin T}
<1>1. SUFFICES ASSUME U # {} PROVE FALSE
  OBVIOUS
<1>2. U \subseteq Nat
  OBVIOUS
<1>3. PICK m \in U : \A k \in U : m <= k
  BY <1>1, <1>2, LeastNatural
<1>4. m # 0 /\ m \in Nat /\ m <= n
  BY <1>3
<1>5. m - 1 \in 0 .. n /\ m - 1 < n
  BY <1>4
<1>6. m - 1 \in T
  BY <1>3, <1>5
<1>7. m - 1 + 1 \in T
  BY <1>5, <1>6
<1> QED BY <1>3, <1>4, <1>7

IsRun(g, step, b, n) == g[0] = b /\ \A k \in 1 .. n : g[k] = step[g[k - 1]]

(* A run of n steps exists from any start. *)
LEMMA RunExists ==
  ASSUME NEW S, NEW step \in [S -> S], NEW b \in S, NEW n \in Nat
  PROVE  \E g \in [0 .. n -> S] : IsRun(g, step, b, n)
<1> DEFINE T == {m \in Nat : \E g \in [0 .. m -> S] : g[0] = b /\ \A k \in 1 .. m : g[k] = step[g[k - 1]]}
<1>1. 0 \in T
  <2>1. PICK g : g = [k \in 0 .. 0 |-> b]
    OBVIOUS
  <2>2. g \in [0 .. 0 -> S] /\ g[0] = b
    BY <2>1
  <2>3. \A k \in 1 .. 0 : g[k] = step[g[k - 1]]
    OBVIOUS
  <2> QED BY <2>2, <2>3
<1>2. ASSUME NEW m \in 0 .. n, m \in T PROVE m + 1 \in T
  <2>1. PICK g \in [0 .. m -> S] : g[0] = b /\ \A k \in 1 .. m : g[k] = step[g[k - 1]]
    BY <1>2
  <2> DEFINE h == [k \in 0 .. m + 1 |-> IF k = m + 1 THEN step[g[m]] ELSE g[k]]
  <2>2. h \in [0 .. m + 1 -> S]
    <3>1. g[m] \in S
      OBVIOUS
    <3>2. step[g[m]] \in S
      BY <3>1
    <3>3. ASSUME NEW k \in 0 .. m + 1, k # m + 1 PROVE g[k] \in S
      <4>1. k \in 0 .. m
        BY <3>3
      <4> QED BY <4>1
    <3> QED BY <3>2, <3>3
  <2>3. h[0] = b
    BY <2>1
  <2>4. ASSUME NEW k \in 1 .. m + 1 PROVE h[k] = step[h[k - 1]]
    <3>1. CASE k = m + 1
      BY <3>1
    <3>2. CASE k # m + 1
      <4>1. k \in 1 .. m /\ k - 1 \in 0 .. m + 1 /\ k - 1 # m + 1 /\ k \in 0 .. m + 1
        BY <3>2
      <4> QED BY <4>1, <2>1, <3>2
    <3> QED BY <3>1, <3>2
  <2> HIDE DEF h
  <2> QED BY <2>2, <2>3, <2>4
<1> HIDE DEF T
<1>3. \A k \in 0 .. n : k \in T
  BY <1>1, <1>2, UpTo
<1>4. n \in T
  BY <1>3
<1> QED BY <1>4 DEF T, IsRun

Timers == {1, 2}
Phases == {"load_delay", "reload_pending", "running"}
CounterValues == 0 .. Modulus - 1
Vias ==
  [acr : SUBSET AcrBits, ifr : SUBSET Timers, ier : SUBSET Timers, latch : [Timers -> CounterValues],
   counter : [Timers -> CounterValues], phase : [Timers -> Phases], fired : [Timers -> BOOLEAN], pb7 : BOOLEAN]

LEMMA ModulusIs == Modulus \in Nat \ {0} /\ 0 \in CounterValues
<1>1. PICK b \in Nat \ {0} : b = ByteValues
  BY MockingboardAssumption
<1>2. b * b \in Nat /\ b * b # 0
  BY <1>1
<1>3. Modulus \in Nat \ {0}
  BY <1>1, <1>2 DEF Modulus
<1>. QED BY <1>3 DEF CounterValues

LEMMA RemainderIs ==
  ASSUME NEW m \in Nat \ {0}, NEW q \in Int, NEW r \in 0 .. m - 1, NEW x \in Int, x = m * q + r
  PROVE  x % m = r
BY SMT

LEMMA OneLess ==
  ASSUME NEW m \in Nat \ {0}, NEW c \in Int
  PROVE  ((c % m) - 1) % m = (c - 1) % m
<1>1. PICK q \in Int : q = c \div m
  OBVIOUS
<1>2. PICK r \in 0 .. m - 1 : r = c % m
  OBVIOUS
<1>3. c = m * q + r
  BY <1>1, <1>2
<1>4. CASE r = 0
  <2>1. c - 1 = m * (q - 1) + (m - 1)
    BY <1>3, <1>4
  <2>2. (c - 1) % m = m - 1
    BY <2>1, RemainderIs
  <2>3. (r - 1) % m = m - 1
    BY <1>4
  <2>. QED BY <1>2, <2>2, <2>3
<1>5. CASE r # 0
  <2>1. c - 1 = m * q + (r - 1)
    BY <1>3
  <2>2. (c - 1) % m = r - 1
    BY <1>5, <2>1, RemainderIs
  <2>. QED BY <1>2, <1>5, <2>2
<1>. QED BY <1>4, <1>5

LEMMA Remainders ==
  ASSUME NEW c \in Int
  PROVE  /\ c % Modulus \in CounterValues
         /\ c \in CounterValues => c % Modulus = c
         /\ ((c % Modulus) - 1) % Modulus = (c - 1) % Modulus
<1>1. PICK m \in Nat \ {0} : m = Modulus
  BY ModulusIs
<1>2. c % m \in 0 .. m - 1
  BY <1>1
<1>3. c \in 0 .. m - 1 => c % m = c
  BY <1>1
<1>4. ((c % m) - 1) % m = (c - 1) % m
  BY OneLess
<1>. QED BY <1>1, <1>2, <1>3, <1>4 DEF CounterValues

LEMMA TickedStays ==
  ASSUME NEW v \in Vias, NEW t \in Timers
  PROVE  Tick(v, t) \in Vias
<1>1. v.latch[t] \in CounterValues /\ v.counter[t] \in CounterValues /\ v.counter[t] \in Int
  BY ModulusIs DEF Vias, CounterValues
<1>2. (v.counter[t] - 1) % Modulus \in CounterValues
  BY <1>1, Remainders
<1>. QED BY <1>1, <1>2 DEF Vias, Tick, Underflowed, Phases, Timers

LEMMA TimerIs ==
  ASSUME NEW v \in Vias, NEW t \in Timers
  PROVE  /\ v.latch[t] \in CounterValues /\ v.counter[t] \in CounterValues /\ v.phase[t] \in Phases
         /\ v.latch[t] \in Nat /\ v.counter[t] \in Nat /\ TicksToUnderflow(v, t) \in Nat \ {0}
BY ModulusIs DEF Vias, CounterValues, Phases, TicksToUnderflow

(* A timer with another counter. *)
Counts(v, t, c) == [v EXCEPT !.counter[t] = c, !.phase[t] = "running"]

LEMMA CountsIs ==
  ASSUME NEW v \in Vias, NEW t \in Timers, NEW c \in CounterValues
  PROVE  /\ Counts(v, t, c) \in Vias
         /\ Counts(v, t, c).counter[t] = c /\ Counts(v, t, c).phase[t] = "running"
         /\ Counts(v, t, c).fired = v.fired /\ Counts(v, t, c).acr = v.acr
         /\ \A d \in CounterValues : /\ [Counts(v, t, c) EXCEPT !.counter[t] = d] = Counts(v, t, d)
                                      /\ Counts(Counts(v, t, c), t, d) = Counts(v, t, d)
         /\ v.phase[t] = "running" => [v EXCEPT !.counter[t] = c] = Counts(v, t, c)
<1>1. PICK w : w = Counts(v, t, c)
  OBVIOUS
<1>2. w = [v EXCEPT !.counter = [v.counter EXCEPT ![t] = c], !.phase = [v.phase EXCEPT ![t] = "running"]]
  BY <1>1 DEF Counts
<1>3. v.counter \in [Timers -> CounterValues] /\ v.phase \in [Timers -> Phases]
  BY DEF Vias
<1>4. /\ w \in Vias /\ w.counter = [v.counter EXCEPT ![t] = c] /\ w.phase = [v.phase EXCEPT ![t] = "running"]
      /\ w.fired = v.fired /\ w.acr = v.acr
  BY <1>2, <1>3 DEF Vias, Phases
<1>5. w.counter[t] = c /\ w.phase[t] = "running"
  BY <1>3, <1>4
<1>6. ASSUME NEW d \in CounterValues
      PROVE  [w EXCEPT !.counter[t] = d] = Counts(v, t, d) /\ Counts(w, t, d) = Counts(v, t, d)
  BY <1>2, <1>3 DEF Counts, Vias
<1>7. v.phase[t] = "running" => [v EXCEPT !.counter[t] = c] = Counts(v, t, c)
  BY <1>3 DEF Counts, Vias
<1>. QED BY <1>1, <1>4, <1>5, <1>6, <1>7

LEMMA AdvancedIs ==
  ASSUME NEW v \in Vias, NEW t \in Timers, NEW n \in Nat
  PROVE  /\ Advanced(v, t, n) \in Vias
         /\ Advanced(v, t, n).fired = v.fired /\ Advanced(v, t, n).acr = v.acr
         /\ n # 0 => Advanced(v, t, n) = Counts(v, t, ((IF v.phase[t] = "reload_pending" THEN v.latch[t] ELSE v.counter[t])
                                                      - (IF v.phase[t] = "running" THEN n ELSE n - 1)) % Modulus)
<1>1. CASE n = 0
  BY <1>1 DEF Advanced
<1>2. CASE n # 0
  <2>1. PICK c : c = ((IF v.phase[t] = "reload_pending" THEN v.latch[t] ELSE v.counter[t])
                      - (IF v.phase[t] = "running" THEN n ELSE n - 1)) % Modulus
    OBVIOUS
  <2>2. c \in CounterValues
    BY <2>1, TimerIs, Remainders
  <2>3. Advanced(v, t, n) = Counts(v, t, c)
    BY <1>2, <2>1 DEF Advanced, Counts
  <2>. QED BY <2>1, <2>2, <2>3, CountsIs
<1>. QED BY <1>1, <1>2

LEMMA AdvancedTicks ==
  ASSUME NEW v \in Vias, NEW t \in Timers, NEW n \in Nat, ~Stopped(v, t),
         OneShotOver(v, t) \/ n + 1 <= TicksToUnderflow(v, t)
  PROVE  Tick(Advanced(v, t, n), t) =
           IF ~OneShotOver(v, t) /\ n + 1 = TicksToUnderflow(v, t)
           THEN Underflowed(Advanced(v, t, n + 1), t) ELSE Advanced(v, t, n + 1)
<1>1. PICK from : from = IF v.phase[t] = "reload_pending" THEN v.latch[t] ELSE v.counter[t]
  OBVIOUS
<1>2. PICK rest : rest = IF v.phase[t] = "running" THEN n ELSE n - 1
  OBVIOUS
<1>3. PICK more : more = IF v.phase[t] = "running" THEN n + 1 ELSE n + 1 - 1
  OBVIOUS
<1>4. from \in CounterValues /\ from \in Nat /\ rest \in Int /\ more \in Int /\ more = rest + 1
  BY <1>1, <1>2, <1>3, TimerIs
<1>5. /\ v.phase[t] = "running" => TicksToUnderflow(v, t) = from + 1
      /\ v.phase[t] # "running" => TicksToUnderflow(v, t) = from + 2
  BY <1>1, TimerIs DEF TicksToUnderflow, Phases
<1>6. Advanced(v, t, n + 1) = Counts(v, t, (from - more) % Modulus)
  <2>1. n + 1 \in Nat /\ n + 1 # 0
    OBVIOUS
  <2>. QED BY <1>1, <1>3, <2>1, AdvancedIs
<1>7. (from - more) % Modulus \in CounterValues
  BY <1>4, Remainders
<1>8. CASE n = 0
  <2>1. Advanced(v, t, n) = v
    BY <1>8 DEF Advanced
  <2>2. CASE v.phase[t] = "running"
    <3>1. from = v.counter[t] /\ more = 1
      BY <1>1, <1>3, <1>8, <2>2
    <3>2. [v EXCEPT !.counter[t] = (v.counter[t] - 1) % Modulus] = Advanced(v, t, n + 1)
      BY <1>6, <1>7, <2>2, <3>1, CountsIs
    <3>3. n + 1 = TicksToUnderflow(v, t) <=> v.counter[t] = 0
      BY <1>5, <1>8, <2>2, <3>1, <1>4
    <3>. QED BY <2>1, <2>2, <3>2, <3>3 DEF Tick
  <2>3. CASE v.phase[t] # "running"
    <3>1. more = 0 /\ (from - more) % Modulus = from
      BY <1>3, <1>4, <1>8, <2>3, Remainders
    <3>2. Advanced(v, t, n + 1) = Counts(v, t, from)
      BY <1>6, <3>1
    <3>3. n + 1 # TicksToUnderflow(v, t)
      BY <1>4, <1>5, <1>8, <2>3
    <3>4. CASE v.phase[t] = "load_delay"
      <4>1. Counts(v, t, from) = [v EXCEPT !.phase[t] = "running"]
        BY <1>1, <3>4 DEF Counts, Vias, Timers
      <4>. QED BY <2>1, <3>2, <3>3, <3>4, <4>1 DEF Tick
    <3>5. CASE v.phase[t] = "reload_pending"
      <4>1. Counts(v, t, from) = [v EXCEPT !.counter[t] = v.latch[t], !.phase[t] = "running"]
        BY <1>1, <3>5 DEF Counts
      <4>. QED BY <2>1, <3>2, <3>3, <3>5, <4>1 DEF Tick
    <3>. QED BY <2>3, <3>4, <3>5, TimerIs DEF Phases
  <2>. QED BY <2>2, <2>3
<1>9. CASE n # 0
  <2>1. PICK c : c = (from - rest) % Modulus
    OBVIOUS
  <2>2. c \in CounterValues /\ (c - 1) % Modulus = (from - more) % Modulus
    <3>1. from - rest \in Int /\ from - more = from - rest - 1
      BY <1>4
    <3>. QED BY <2>1, <3>1, Remainders
  <2>3. Advanced(v, t, n) = Counts(v, t, c)
    BY <1>1, <1>2, <1>9, <2>1, AdvancedIs
  <2>4. PICK w : w = Counts(v, t, c)
    OBVIOUS
  <2>5. /\ w \in Vias /\ w.counter[t] = c /\ w.phase[t] = "running" /\ w.fired = v.fired /\ w.acr = v.acr
        /\ [w EXCEPT !.counter[t] = (c - 1) % Modulus] = Advanced(v, t, n + 1)
    BY <1>6, <1>7, <2>2, <2>4, CountsIs
  <2>6. ~Stopped(w, t) /\ (OneShotOver(w, t) <=> OneShotOver(v, t))
    BY <2>5 DEF Stopped, OneShotOver, FreeRuns
  <2>7. ~OneShotOver(v, t) => (c = 0 <=> n + 1 = TicksToUnderflow(v, t))
    <3>1. SUFFICES ASSUME ~OneShotOver(v, t) PROVE c = 0 <=> n + 1 = TicksToUnderflow(v, t)
      OBVIOUS
    <3>2. from - rest \in CounterValues
      <4>1. rest >= 0 /\ rest <= from
        BY <1>2, <1>4, <1>5, <1>9, <3>1
      <4>. QED BY <1>4, <4>1, ModulusIs DEF CounterValues
    <3>3. c = from - rest
      BY <1>4, <2>1, <3>2, Remainders
    <3>. QED BY <1>2, <1>4, <1>5, <3>3
  <2>8. Tick(w, t) = IF w.counter[t] = 0 /\ ~OneShotOver(w, t)
                     THEN Underflowed([w EXCEPT !.counter[t] = (w.counter[t] - 1) % Modulus], t)
                     ELSE [w EXCEPT !.counter[t] = (w.counter[t] - 1) % Modulus]
    BY <2>5, <2>6 DEF Tick
  <2>. QED BY <2>3, <2>4, <2>5, <2>6, <2>7, <2>8
<1>. QED BY <1>8, <1>9

LEMMA UnderflowedStays ==
  ASSUME NEW v \in Vias, NEW t \in Timers
  PROVE  Underflowed(v, t) \in Vias /\ Underflowed(v, t).acr = v.acr
BY DEF Vias, Underflowed, Phases, Timers

(* Ticks one after the other. *)
Ticking(h, t, n) == h \in [0 .. n -> Vias] /\ \A j \in 1 .. n : h[j] = Tick(h[j - 1], t)

LEMMA TicksAreAdvances ==
  ASSUME NEW n \in Nat, NEW t \in Timers, NEW h, Ticking(h, t, n),
         NEW j \in 0 .. n, NEW m \in Nat, j + m <= n, ~Stopped(h[j], t),
         OneShotOver(h[j], t) \/ m <= TicksToUnderflow(h[j], t)
  PROVE  h[j + m] = IF ~OneShotOver(h[j], t) /\ m = TicksToUnderflow(h[j], t)
                    THEN Underflowed(Advanced(h[j], t, m), t) ELSE Advanced(h[j], t, m)
<1>. DEFINE Later(k) == IF ~OneShotOver(h[j], t) /\ k = TicksToUnderflow(h[j], t)
                        THEN Underflowed(Advanced(h[j], t, k), t) ELSE Advanced(h[j], t, k)
            T == {k \in 0 .. m : h[j + k] = Later(k)}
<1>1. h[j] \in Vias
  BY DEF Ticking
<1>2. 0 \in T
  <2>1. Advanced(h[j], t, 0) = h[j] /\ TicksToUnderflow(h[j], t) # 0
    BY <1>1, TimerIs DEF Advanced
  <2>. QED BY <2>1
<1>3. ASSUME NEW k \in 0 .. m, k < m, k \in T PROVE k + 1 \in T
  <2>1. k \in Nat /\ k + 1 \in 0 .. m /\ j + k + 1 \in 1 .. n /\ j + k + 1 - 1 = j + k /\ j + (k + 1) = j + k + 1
    BY <1>3
  <2>2. h[j + k + 1] = Tick(h[j + k], t)
    BY <2>1 DEF Ticking
  <2>3. ~OneShotOver(h[j], t) => k # TicksToUnderflow(h[j], t)
    BY <1>1, <1>3, TimerIs
  <2>4. h[j + k] = Advanced(h[j], t, k)
    BY <1>3, <2>3
  <2>5. OneShotOver(h[j], t) \/ k + 1 <= TicksToUnderflow(h[j], t)
    BY <1>1, <1>3, TimerIs
  <2>6. Tick(Advanced(h[j], t, k), t) = Later(k + 1)
    BY <1>1, <2>1, <2>5, AdvancedTicks
  <2>. HIDE DEF Later
  <2>. QED BY <2>1, <2>2, <2>4, <2>6
<1>. HIDE DEF T
<1>4. \A k \in 0 .. m : k \in T
  BY <1>2, <1>3, UpTo
<1>5. m \in T
  BY <1>4
<1>. QED BY <1>5 DEF T

Turns(n) == [via : Vias, left : 0 .. n]

LEMMA TimerTurnIs ==
  ASSUME NEW n \in Nat, NEW t \in Timers, NEW h, Ticking(h, t, n), NEW at \in Turns(n),
         at.via = h[n - at.left], ~Stopped(at.via, t)
  PROVE  /\ TimerTurn(at, t) \in Turns(n)
         /\ TimerTurn(at, t).via = h[n - TimerTurn(at, t).left]
         /\ ~Stopped(TimerTurn(at, t).via, t)
         /\ at.left # 0 => TimerTurn(at, t).left < at.left
<1>1. PICK v \in Vias, rest \in 0 .. n : at = [via |-> v, left |-> rest] /\ v = at.via /\ rest = at.left
  BY DEF Turns
<1>2. PICK j \in 0 .. n : j = n - rest
  OBVIOUS
<1>3. v = h[j] /\ j + rest = n
  BY <1>1, <1>2
<1>4. PICK span \in Nat \ {0} : span = TicksToUnderflow(v, t)
  BY TimerIs
<1>5. CASE rest = 0
  <2>1. TimerTurn(at, t) = at
    BY <1>1, <1>5 DEF TimerTurn
  <2>. QED BY <1>1, <1>5, <2>1
<1>6. CASE rest # 0 /\ (OneShotOver(v, t) \/ span > rest)
  <2>1. TimerTurn(at, t) = [via |-> Advanced(v, t, rest), left |-> 0]
    BY <1>1, <1>4, <1>6 DEF TimerTurn
  <2>2. h[j + rest] = Advanced(v, t, rest)
    BY <1>1, <1>3, <1>4, <1>6, TicksAreAdvances
  <2>3. Advanced(v, t, rest) \in Vias /\ ~Stopped(Advanced(v, t, rest), t)
    BY <1>1, AdvancedIs DEF Stopped
  <2>4. n - 0 = j + rest
    BY <1>3
  <2>. QED BY <1>1, <1>6, <2>1, <2>2, <2>3, <2>4 DEF Turns
<1>7. CASE rest # 0 /\ ~OneShotOver(v, t) /\ span <= rest
  <2>1. TimerTurn(at, t) = [via |-> Underflowed(Advanced(v, t, span), t), left |-> rest - span]
    BY <1>1, <1>4, <1>7 DEF TimerTurn
  <2>2. j + span <= n /\ n - (rest - span) = j + span /\ rest - span \in 0 .. n /\ rest - span < rest
    BY <1>3, <1>7
  <2>3. h[j + span] = Underflowed(Advanced(v, t, span), t)
    BY <1>1, <1>3, <1>4, <1>7, <2>2, TicksAreAdvances
  <2>4. PICK w \in Vias : w = Advanced(v, t, span) /\ w.acr = v.acr
    BY AdvancedIs
  <2>5. Underflowed(w, t) \in Vias /\ ~Stopped(Underflowed(w, t), t)
    BY <1>1, <2>4, UnderflowedStays DEF Stopped
  <2>. QED BY <1>1, <2>1, <2>2, <2>3, <2>4, <2>5 DEF Turns
<1>. QED BY <1>5, <1>6, <1>7

LEMMA StepTimerTicks ==
  ASSUME NEW v \in Vias, NEW t \in Timers, NEW n \in Nat, NEW m \in Nat, n <= m,
         NEW h, Ticking(h, t, m), h[0] = v
  PROVE  StepTimer(v, t, n) = h[n]
<1>. DEFINE f == [k \in 0 .. n |-> h[k]]
<1>1. Ticking(f, t, n)
  BY DEF Ticking
<1>2. f[0] = v /\ f[n] = h[n]
  OBVIOUS
<1>. HIDE DEF f
<1>3. CASE Stopped(v, t)
  <2>. DEFINE T == {k \in 0 .. n : f[k] = v}
  <2>1. 0 \in T
    BY <1>2
  <2>2. ASSUME NEW k \in 0 .. n, k < n, k \in T PROVE k + 1 \in T
    <3>1. k + 1 \in 1 .. n /\ k + 1 - 1 = k
      BY <2>2
    <3>2. f[k + 1] = Tick(v, t)
      BY <1>1, <2>2, <3>1 DEF Ticking
    <3>. QED BY <1>3, <3>1, <3>2 DEF Tick
  <2>. HIDE DEF T
  <2>3. \A k \in 0 .. n : k \in T
    BY <2>1, <2>2, UpTo
  <2>4. n \in T
    BY <2>3
  <2>5. f[n] = v
    BY <2>4 DEF T
  <2>. QED BY <1>2, <1>3, <2>5 DEF StepTimer
<1>4. CASE ~Stopped(v, t)
  <2>. DEFINE b == [via |-> v, left |-> n]
              S == {at \in Turns(n) : at.via = f[n - at.left] /\ ~Stopped(at.via, t)}
              Eq(g) == g = [k \in 0 .. n |-> IF k = 0 THEN b ELSE TimerTurn(g[k - 1], t)]
              G == CHOOSE g : Eq(g)
              step == [at \in S |-> TimerTurn(at, t)]
  <2>1. StepTimer(v, t, n) = G[n].via
    BY <1>4 DEF StepTimer
  <2>2. b \in S
    BY <1>2, <1>4 DEF Turns
  <2>3. ASSUME NEW at \in S
        PROVE  TimerTurn(at, t) \in S /\ (at.left # 0 => TimerTurn(at, t).left < at.left)
    BY <1>1, TimerTurnIs
  <2>. HIDE DEF b, S
  <2>4. step \in [S -> S]
    BY <2>3
  <2>5. PICK c : c = b
    OBVIOUS
  <2>6. PICK st : st = step
    OBVIOUS
  <2>7. PICK g \in [0 .. n -> S] : IsRun(g, st, c, n)
    BY <2>2, <2>4, <2>5, <2>6, RunExists
  <2>8. \A k \in 1 .. n : k - 1 \in 0 .. n /\ g[k - 1] \in S /\ g[k] = TimerTurn(g[k - 1], t)
    BY <2>6, <2>7 DEF IsRun
  <2>9. g[0] = b
    BY <2>5, <2>7 DEF IsRun
  <2>. HIDE DEF step
  <2>10. Eq(g)
    <3>1. g = [k \in 0 .. n |-> g[k]]
      OBVIOUS
    <3>2. ASSUME NEW k \in 0 .. n PROVE g[k] = IF k = 0 THEN b ELSE TimerTurn(g[k - 1], t)
      BY <2>8, <2>9
    <3>. QED BY <3>1, <3>2
  <2>11. Eq(G)
    <3>. HIDE DEF Eq
    <3>. QED BY <2>10
  <2>. HIDE DEF G
  <2>12. \A k \in 0 .. n : G[k] = IF k = 0 THEN b ELSE TimerTurn(G[k - 1], t)
    BY <2>11
  <2>. DEFINE T == {k \in 0 .. n : G[k] \in S /\ G[k].left <= n - k}
  <2>13. 0 \in T
    <3>1. G[0] = b
      BY <2>12
    <3>2. b.left <= n - 0
      BY DEF b
    <3>. QED BY <2>2, <3>1, <3>2
  <2>14. ASSUME NEW k \in 0 .. n, k < n, k \in T PROVE k + 1 \in T
    <3>1. k + 1 \in 0 .. n /\ k + 1 # 0 /\ k + 1 - 1 = k
      BY <2>14
    <3>2. G[k + 1] = TimerTurn(G[k], t)
      BY <2>12, <3>1
    <3>3. PICK p \in S : p = G[k] /\ p.left <= n - k
      BY <2>14
    <3>4. TimerTurn(p, t) \in S /\ (p.left # 0 => TimerTurn(p, t).left < p.left)
      BY <2>3
    <3>5. p.left \in 0 .. n /\ TimerTurn(p, t).left \in 0 .. n
      BY <3>3, <3>4 DEF S, Turns
    <3>6. p.left = 0 => TimerTurn(p, t) = p
      BY DEF TimerTurn
    <3>7. TimerTurn(p, t).left <= n - (k + 1)
      BY <3>1, <3>3, <3>4, <3>5, <3>6
    <3>. QED BY <3>1, <3>2, <3>3, <3>4, <3>7
  <2>. HIDE DEF T
  <2>15. \A k \in 0 .. n : k \in T
    BY <2>13, <2>14, UpTo
  <2>16. n \in T
    BY <2>15
  <2>17. PICK p \in S : p = G[n] /\ p.left <= 0
    BY <2>16 DEF T
  <2>18. p.left \in 0 .. n /\ p.via = f[n - p.left]
    BY <2>17 DEF S, Turns
  <2>19. p.left = 0 /\ n - p.left = n
    BY <2>17, <2>18
  <2>20. p.via = f[n]
    BY <2>18, <2>19
  <2>. QED BY <1>2, <2>1, <2>17, <2>20
<1>. QED BY <1>3, <1>4

LEMMA TicksExist ==
  ASSUME NEW v \in Vias, NEW t \in Timers, NEW n \in Nat
  PROVE  \E h : Ticking(h, t, n) /\ h[0] = v
<1>. DEFINE step == [w \in Vias |-> Tick(w, t)]
<1>1. step \in [Vias -> Vias]
  BY TickedStays
<1>2. PICK st : st = step
  OBVIOUS
<1>3. PICK h \in [0 .. n -> Vias] : IsRun(h, st, v, n)
  BY <1>1, <1>2, RunExists
<1>4. \A k \in 1 .. n : k - 1 \in 0 .. n /\ h[k - 1] \in Vias /\ h[k] = Tick(h[k - 1], t)
  BY <1>2, <1>3 DEF IsRun
<1>5. h[0] = v
  BY <1>3 DEF IsRun
<1>. QED BY <1>4, <1>5 DEF Ticking

(* A timer brought up to date at once has ticked once a cycle. *)
LEMMA StepTimerIs ==
  ASSUME NEW v \in Vias, NEW t \in Timers, NEW n \in Nat
  PROVE  /\ StepTimer(v, t, n) \in Vias
         /\ StepTimer(v, t, 0) = v
         /\ StepTimer(v, t, n + 1) = Tick(StepTimer(v, t, n), t)
<1>1. PICK h : Ticking(h, t, n + 1) /\ h[0] = v
  BY TicksExist
<1>2. StepTimer(v, t, n) = h[n] /\ StepTimer(v, t, n + 1) = h[n + 1] /\ StepTimer(v, t, 0) = h[0]
  BY <1>1, StepTimerTicks
<1>3. h[n] \in Vias /\ h[n + 1] = Tick(h[n], t)
  <2>1. n \in 0 .. n + 1 /\ n + 1 \in 1 .. n + 1 /\ n + 1 - 1 = n
    OBVIOUS
  <2>. QED BY <1>1, <2>1 DEF Ticking
<1>. QED BY <1>1, <1>2, <1>3

(* What a tick changes, and that the two timers do not meet. *)
Rolls(v, t) == ~Stopped(v, t) /\ v.phase[t] = "running" /\ v.counter[t] = 0 /\ ~OneShotOver(v, t)
CounterAfter(v, t) ==
  IF Stopped(v, t) \/ v.phase[t] = "load_delay" THEN v.counter[t]
  ELSE IF v.phase[t] = "reload_pending" THEN v.latch[t] ELSE (v.counter[t] - 1) % Modulus
PhaseAfter(v, t) ==
  IF Stopped(v, t) THEN v.phase[t] ELSE IF Rolls(v, t) /\ FreeRuns(v, t) THEN "reload_pending" ELSE "running"
Pb7After(v) == IF Rolls(v, 1) /\ "pb7" \in v.acr THEN ~FreeRuns(v, 1) \/ ~v.pb7 ELSE v.pb7

FiredAfter(v, t) == v.fired[t] \/ Rolls(v, t)

Pb7Next(v, t) == IF t = 1 THEN Pb7After(v) ELSE v.pb7

TickedTo(v, t, w) ==
  /\ w \in Vias /\ w.acr = v.acr /\ w.ier = v.ier /\ w.latch = v.latch
  /\ w.counter = [v.counter EXCEPT ![t] = CounterAfter(v, t)]
  /\ w.phase = [v.phase EXCEPT ![t] = PhaseAfter(v, t)]
  /\ w.fired = [v.fired EXCEPT ![t] = FiredAfter(v, t)]
  /\ w.ifr = IF Rolls(v, t) THEN v.ifr \cup {t} ELSE v.ifr
  /\ w.pb7 = Pb7Next(v, t)

LEMMA TickIs ==
  ASSUME NEW v \in Vias, NEW t \in Timers
  PROVE  TickedTo(v, t, Tick(v, t))
<1>0. PICK w : w = Tick(v, t)
  OBVIOUS
<1>. SUFFICES TickedTo(v, t, w)
  BY <1>0
<1>1. w \in Vias
  BY <1>0, TickedStays
<1>2. v.phase[t] \in Phases /\ v.fired[t] \in BOOLEAN
  BY DEF Vias
<1>3. CASE Stopped(v, t)
  <2>1. w = v /\ t # 1 /\ Rolls(v, t) = FALSE
    BY <1>0, <1>3 DEF Tick, Stopped, Rolls
  <2>2. CounterAfter(v, t) = v.counter[t] /\ PhaseAfter(v, t) = v.phase[t]
    BY <1>3 DEF CounterAfter, PhaseAfter
  <2>3. /\ v.counter = [v.counter EXCEPT ![t] = v.counter[t]] /\ v.phase = [v.phase EXCEPT ![t] = v.phase[t]]
        /\ v.fired = [v.fired EXCEPT ![t] = v.fired[t]]
    BY DEF Vias
  <2>4. FiredAfter(v, t) = v.fired[t]
    BY <1>2, <2>1 DEF FiredAfter
  <2>5. Pb7Next(v, t) = v.pb7
    BY <2>1 DEF Pb7Next
  <2>. QED BY <1>1, <2>1, <2>2, <2>3, <2>4, <2>5 DEF TickedTo
<1>4. CASE ~Stopped(v, t) /\ v.phase[t] = "load_delay"
  <2>1. Rolls(v, t) = FALSE /\ FiredAfter(v, t) = v.fired[t]
    BY <1>2, <1>4 DEF Rolls, FiredAfter
  <2>2. CounterAfter(v, t) = v.counter[t] /\ PhaseAfter(v, t) = "running"
    BY <1>4, <2>1 DEF CounterAfter, PhaseAfter
  <2>3. v.counter = [v.counter EXCEPT ![t] = v.counter[t]] /\ v.fired = [v.fired EXCEPT ![t] = v.fired[t]]
    BY DEF Vias
  <2>4. Pb7Next(v, t) = v.pb7
    BY <2>1 DEF Pb7After, Pb7Next
  <2>5. w = [v EXCEPT !.phase[t] = "running"]
    BY <1>0, <1>4 DEF Tick
  <2>. QED BY <1>1, <2>1, <2>2, <2>3, <2>4, <2>5 DEF Vias, TickedTo
<1>5. CASE ~Stopped(v, t) /\ v.phase[t] = "reload_pending"
  <2>1. Rolls(v, t) = FALSE /\ FiredAfter(v, t) = v.fired[t]
    BY <1>2, <1>5 DEF Rolls, FiredAfter
  <2>2. CounterAfter(v, t) = v.latch[t] /\ PhaseAfter(v, t) = "running"
    BY <1>5, <2>1 DEF CounterAfter, PhaseAfter
  <2>3. v.counter = [v.counter EXCEPT ![t] = v.counter[t]] /\ v.fired = [v.fired EXCEPT ![t] = v.fired[t]]
    BY DEF Vias
  <2>4. Pb7Next(v, t) = v.pb7
    BY <2>1 DEF Pb7After, Pb7Next
  <2>5. w = [v EXCEPT !.counter[t] = v.latch[t], !.phase[t] = "running"]
    BY <1>0, <1>5 DEF Tick
  <2>. QED BY <1>1, <2>1, <2>2, <2>3, <2>4, <2>5 DEF Vias, TickedTo
<1>6. CASE ~Stopped(v, t) /\ v.phase[t] = "running"
  <2>1. PICK c : c = (v.counter[t] - 1) % Modulus
    OBVIOUS
  <2>2. c \in CounterValues
    BY <2>1, TimerIs, Remainders
  <2>3. PICK k : k = [v EXCEPT !.counter[t] = c]
    OBVIOUS
  <2>4. /\ k \in Vias /\ k.acr = v.acr /\ k.ier = v.ier /\ k.latch = v.latch /\ k.phase = v.phase
        /\ k.fired = v.fired /\ k.ifr = v.ifr /\ k.pb7 = v.pb7
        /\ k.counter = [v.counter EXCEPT ![t] = c]
    BY <2>2, <2>3 DEF Vias
  <2>5. CounterAfter(v, t) = c
    BY <1>6, <2>1 DEF CounterAfter
  <2>6. CASE Rolls(v, t)
    <3>1. w = Underflowed(k, t)
      BY <1>0, <1>6, <2>1, <2>3, <2>6 DEF Tick, Rolls
    <3>2. FreeRuns(k, t) <=> FreeRuns(v, t)
      BY <2>4 DEF FreeRuns
    <3>3. /\ w.acr = k.acr /\ w.ier = k.ier /\ w.latch = k.latch /\ w.counter = k.counter
          /\ w.phase = [k.phase EXCEPT ![t] = IF FreeRuns(k, t) THEN "reload_pending" ELSE "running"]
          /\ w.fired = [k.fired EXCEPT ![t] = TRUE]
          /\ w.ifr = k.ifr \cup {t}
          /\ w.pb7 = IF t = 1 /\ "pb7" \in k.acr THEN ~FreeRuns(k, t) \/ ~k.pb7 ELSE k.pb7
      BY <2>4, <3>1 DEF Underflowed, Vias
    <3>4. PhaseAfter(v, t) = IF FreeRuns(k, t) THEN "reload_pending" ELSE "running"
      BY <1>6, <2>6, <3>2 DEF PhaseAfter
    <3>5. w.pb7 = Pb7Next(v, t)
      BY <2>4, <2>6, <3>2, <3>3 DEF Pb7After, Pb7Next
    <3>6. FiredAfter(v, t) = TRUE
      BY <2>6 DEF FiredAfter
    <3>. QED BY <1>1, <2>4, <2>5, <2>6, <3>3, <3>4, <3>5, <3>6 DEF TickedTo
  <2>7. CASE ~Rolls(v, t)
    <3>1. w = k
      BY <1>0, <1>6, <2>1, <2>3, <2>7 DEF Tick, Rolls
    <3>2. PhaseAfter(v, t) = v.phase[t]
      BY <1>6, <2>7 DEF PhaseAfter
    <3>3. v.phase = [v.phase EXCEPT ![t] = v.phase[t]] /\ v.fired = [v.fired EXCEPT ![t] = v.fired[t]]
      BY DEF Vias
    <3>4. FiredAfter(v, t) = v.fired[t]
      BY <1>2, <2>7 DEF FiredAfter
    <3>5. w.pb7 = Pb7Next(v, t)
      BY <2>4, <2>7, <3>1 DEF Pb7After, Pb7Next
    <3>. QED BY <1>1, <2>4, <2>5, <2>7, <3>1, <3>2, <3>3, <3>4, <3>5 DEF TickedTo
  <2>. QED BY <2>6, <2>7
<1>. QED BY <1>2, <1>3, <1>4, <1>5, <1>6 DEF Phases

LEMMA TimersApart ==
  ASSUME NEW v \in Vias, NEW t \in Timers, NEW s \in Timers, s # t, NEW w, TickedTo(v, t, w)
  PROVE  /\ CounterAfter(w, s) = CounterAfter(v, s) /\ PhaseAfter(w, s) = PhaseAfter(v, s)
         /\ Rolls(w, s) <=> Rolls(v, s)
         /\ s = 1 => Pb7After(w) = Pb7After(v)
<1>1. w.acr = v.acr /\ w.latch = v.latch /\ w.pb7 = Pb7Next(v, t)
  BY DEF TickedTo
<1>2. PICK c, p, f : c = CounterAfter(v, t) /\ p = PhaseAfter(v, t) /\ f = FiredAfter(v, t)
  OBVIOUS
<1>3. v.counter \in [Timers -> CounterValues] /\ v.phase \in [Timers -> Phases] /\ v.fired \in [Timers -> BOOLEAN]
  BY DEF Vias
<1>4. /\ w.counter = [v.counter EXCEPT ![t] = c] /\ w.phase = [v.phase EXCEPT ![t] = p]
      /\ w.fired = [v.fired EXCEPT ![t] = f]
  BY <1>2 DEF TickedTo
<1>5. w.counter[s] = v.counter[s] /\ w.phase[s] = v.phase[s] /\ w.fired[s] = v.fired[s]
  BY <1>3, <1>4
<1>6. s = 1 => w.pb7 = v.pb7
  BY <1>1 DEF Pb7Next
<1>7. Rolls(w, s) <=> Rolls(v, s)
  BY <1>1, <1>5 DEF Rolls, Stopped, OneShotOver, FreeRuns
<1>. QED BY <1>1, <1>5, <1>6, <1>7 DEF CounterAfter, PhaseAfter, Pb7After, Stopped, FreeRuns

LEMMA SameVia ==
  ASSUME NEW v \in Vias, NEW w \in Vias, v.acr = w.acr, v.ier = w.ier, v.latch = w.latch, v.counter = w.counter,
         v.phase = w.phase, v.fired = w.fired, v.ifr = w.ifr, v.pb7 = w.pb7
  PROVE  v = w
BY DEF Vias

LEMMA TicksCommute ==
  ASSUME NEW v \in Vias
  PROVE  Tick(Tick(v, 1), 2) = Tick(Tick(v, 2), 1)
<1>1. 1 \in Timers /\ 2 \in Timers /\ 1 # 2
  BY DEF Timers
<1>2. PICK a \in Vias, b \in Vias : a = Tick(v, 1) /\ b = Tick(v, 2)
  BY <1>1, TickedStays
<1>3. PICK c \in Vias, d \in Vias : c = Tick(a, 2) /\ d = Tick(b, 1)
  BY <1>1, <1>2, TickedStays
<1>4. TickedTo(v, 1, a) /\ TickedTo(v, 2, b) /\ TickedTo(a, 2, c) /\ TickedTo(b, 1, d)
  BY <1>1, <1>2, <1>3, TickIs
<1>5. PICK x1, x2, p1, p2, r1, r2, f1, f2 :
        /\ x1 = CounterAfter(v, 1) /\ x2 = CounterAfter(v, 2)
        /\ p1 = PhaseAfter(v, 1) /\ p2 = PhaseAfter(v, 2)
        /\ r1 = Rolls(v, 1) /\ r2 = Rolls(v, 2)
        /\ f1 = FiredAfter(v, 1) /\ f2 = FiredAfter(v, 2)
  OBVIOUS
<1>6. /\ a.acr = v.acr /\ a.ier = v.ier /\ a.latch = v.latch
      /\ a.counter = [v.counter EXCEPT ![1] = x1] /\ a.phase = [v.phase EXCEPT ![1] = p1]
      /\ a.fired = [v.fired EXCEPT ![1] = f1]
      /\ a.ifr = (IF r1 THEN v.ifr \cup {1} ELSE v.ifr) /\ a.pb7 = Pb7Next(v, 1)
  BY <1>1, <1>4, <1>5 DEF TickedTo
<1>7. /\ b.acr = v.acr /\ b.ier = v.ier /\ b.latch = v.latch
      /\ b.counter = [v.counter EXCEPT ![2] = x2] /\ b.phase = [v.phase EXCEPT ![2] = p2]
      /\ b.fired = [v.fired EXCEPT ![2] = f2]
      /\ b.ifr = (IF r2 THEN v.ifr \cup {2} ELSE v.ifr) /\ b.pb7 = Pb7Next(v, 2)
  BY <1>1, <1>4, <1>5 DEF TickedTo
<1>8. v.counter \in [Timers -> CounterValues] /\ v.phase \in [Timers -> Phases] /\ v.fired \in [Timers -> BOOLEAN]
  BY DEF Vias
<1>9. a.fired[2] = v.fired[2] /\ b.fired[1] = v.fired[1]
  BY <1>1, <1>6, <1>7, <1>8
<1>10. /\ CounterAfter(a, 2) = x2 /\ PhaseAfter(a, 2) = p2 /\ (Rolls(a, 2) <=> Rolls(v, 2))
      /\ CounterAfter(b, 1) = x1 /\ PhaseAfter(b, 1) = p1 /\ (Rolls(b, 1) <=> Rolls(v, 1))
      /\ Pb7After(b) = Pb7After(v)
  BY <1>1, <1>4, <1>5, TimersApart
<1>11. FiredAfter(a, 2) = f2 /\ FiredAfter(b, 1) = f1 /\ Rolls(a, 2) = r2 /\ Rolls(b, 1) = r1
  <2>1. Rolls(a, 2) \in BOOLEAN /\ Rolls(v, 2) \in BOOLEAN /\ Rolls(b, 1) \in BOOLEAN /\ Rolls(v, 1) \in BOOLEAN
    BY DEF Rolls
  <2>2. Rolls(a, 2) = Rolls(v, 2) /\ Rolls(b, 1) = Rolls(v, 1)
    BY <1>10, <2>1
  <2>. QED BY <1>5, <1>9, <2>2 DEF FiredAfter
<1>12. /\ c.acr = a.acr /\ c.ier = a.ier /\ c.latch = a.latch
       /\ c.counter = [a.counter EXCEPT ![2] = x2] /\ c.phase = [a.phase EXCEPT ![2] = p2]
       /\ c.fired = [a.fired EXCEPT ![2] = f2]
       /\ c.ifr = (IF r2 THEN a.ifr \cup {2} ELSE a.ifr) /\ c.pb7 = Pb7Next(a, 2)
  BY <1>1, <1>4, <1>10, <1>11 DEF TickedTo
<1>13. /\ d.acr = b.acr /\ d.ier = b.ier /\ d.latch = b.latch
       /\ d.counter = [b.counter EXCEPT ![1] = x1] /\ d.phase = [b.phase EXCEPT ![1] = p1]
       /\ d.fired = [b.fired EXCEPT ![1] = f1]
       /\ d.ifr = (IF r1 THEN b.ifr \cup {1} ELSE b.ifr) /\ d.pb7 = Pb7Next(b, 1)
  BY <1>1, <1>4, <1>10, <1>11 DEF TickedTo
<1>14. c.counter = d.counter /\ c.phase = d.phase /\ c.fired = d.fired
  BY <1>1, <1>6, <1>7, <1>8, <1>12, <1>13
<1>15. c.ifr = d.ifr
  <2>1. /\ c.ifr = IF r2 THEN (IF r1 THEN v.ifr \cup {1} ELSE v.ifr) \cup {2} ELSE (IF r1 THEN v.ifr \cup {1} ELSE v.ifr)
        /\ d.ifr = IF r1 THEN (IF r2 THEN v.ifr \cup {2} ELSE v.ifr) \cup {1} ELSE (IF r2 THEN v.ifr \cup {2} ELSE v.ifr)
    BY <1>6, <1>7, <1>12, <1>13
  <2>2. v.ifr \cup {1} \cup {2} = v.ifr \cup {2} \cup {1}
    OBVIOUS
  <2>. QED BY <2>1, <2>2
<1>16. c.pb7 = d.pb7 /\ c.acr = d.acr /\ c.ier = d.ier /\ c.latch = d.latch
  BY <1>6, <1>7, <1>10, <1>12, <1>13 DEF Pb7Next
<1>17. c = d
  BY <1>14, <1>15, <1>16, SameVia
<1>. QED BY <1>2, <1>3, <1>17

LEMMA OtherTicksFirst ==
  ASSUME NEW v \in Vias, NEW n \in Nat
  PROVE  StepTimer(Tick(v, 1), 2, n) = Tick(StepTimer(v, 2, n), 1)
<1>. DEFINE T == {k \in 0 .. n : StepTimer(Tick(v, 1), 2, k) = Tick(StepTimer(v, 2, k), 1)}
<1>1. Tick(v, 1) \in Vias /\ 1 \in Timers /\ 2 \in Timers
  BY TickedStays DEF Timers
<1>2. 0 \in T
  BY <1>1, StepTimerIs
<1>3. ASSUME NEW k \in 0 .. n, k < n, k \in T PROVE k + 1 \in T
  <2>1. k \in Nat /\ k + 1 \in 0 .. n
    BY <1>3
  <2>2. PICK w \in Vias : w = StepTimer(v, 2, k)
    BY <1>1, <2>1, StepTimerIs
  <2>3. StepTimer(Tick(v, 1), 2, k + 1) = Tick(StepTimer(Tick(v, 1), 2, k), 2)
    BY <1>1, <2>1, StepTimerIs
  <2>4. StepTimer(v, 2, k + 1) = Tick(w, 2)
    BY <1>1, <2>1, <2>2, StepTimerIs
  <2>5. StepTimer(Tick(v, 1), 2, k) = Tick(w, 1)
    BY <1>3, <2>2
  <2>. QED BY <2>1, <2>2, <2>3, <2>4, <2>5, TicksCommute
<1>. HIDE DEF T
<1>4. \A k \in 0 .. n : k \in T
  BY <1>2, <1>3, UpTo
<1>5. n \in T
  BY <1>4
<1>. QED BY <1>5 DEF T

(* The chip brought up to date by a number of cycles, and by one more. *)
LEMMA StepIs ==
  ASSUME NEW v \in Vias, NEW n \in Nat
  PROVE  /\ Step(v, n) \in Vias
         /\ Step(v, 0) = v
         /\ Step(v, n + 1) = Tick(Tick(Step(v, n), 1), 2)
<1>1. 1 \in Timers /\ 2 \in Timers
  BY DEF Timers
<1>2. PICK a \in Vias : a = StepTimer(v, 1, n)
  BY <1>1, StepTimerIs
<1>3. StepTimer(v, 1, n + 1) = Tick(a, 1) /\ Tick(a, 1) \in Vias
  BY <1>1, <1>2, StepTimerIs, TickedStays
<1>4. StepTimer(Tick(a, 1), 2, n + 1) = Tick(StepTimer(Tick(a, 1), 2, n), 2)
  BY <1>1, <1>3, StepTimerIs
<1>5. StepTimer(Tick(a, 1), 2, n) = Tick(StepTimer(a, 2, n), 1)
  BY <1>2, OtherTicksFirst
<1>6. StepTimer(a, 2, n) \in Vias
  BY <1>1, <1>2, StepTimerIs
<1>7. StepTimer(v, 1, 0) = v /\ StepTimer(v, 2, 0) = v
  BY <1>1, StepTimerIs
<1>. QED BY <1>2, <1>3, <1>4, <1>5, <1>6, <1>7 DEF Step

(* The registers keep the 6522s what they are. *)
LEMMA FromBytes ==
  ASSUME NEW b \in Nat \ {0}, NEW q \in 0 .. b - 1, NEW r \in 0 .. b - 1
  PROVE  b * q + r \in 0 .. b * b - 1
<1>1. PICK d \in Nat : q = b - 1 - d
  <2>1. b - 1 - q \in Nat /\ q = b - 1 - (b - 1 - q)
    OBVIOUS
  <2>. QED BY <2>1
<1>2. b * q = b * b - b - b * d /\ b * d >= 0 /\ b * q >= 0
  BY <1>1
<1>. QED BY <1>2

LEMMA Bytes ==
  ASSUME NEW b \in Nat \ {0}, NEW x \in 0 .. b * b - 1
  PROVE  x % b \in 0 .. b - 1 /\ x \div b \in 0 .. b - 1 /\ x = b * (x \div b) + (x % b)
<1>1. PICK q \in Int, r \in 0 .. b - 1 : q = x \div b /\ r = x % b
  OBVIOUS
<1>2. x \in Int /\ 0 <= x /\ x < b * b
  <2>1. b * b \in Int
    OBVIOUS
  <2>. QED BY <2>1
<1>3. x = b * q + r
  BY <1>1, <1>2
<1>4. q >= 0
  <2>1. SUFFICES ASSUME q <= -1 PROVE FALSE
    OBVIOUS
  <2>2. b * q <= -b
    BY <2>1
  <2>. QED BY <1>2, <1>3, <2>2
<1>5. q < b
  <2>1. SUFFICES ASSUME q >= b PROVE FALSE
    OBVIOUS
  <2>2. PICK d \in Nat : q = b + d
    <3>1. q - b \in Nat /\ q = b + (q - b)
      BY <2>1
    <3>. QED BY <3>1
  <2>3. b * q = b * b + b * d /\ b * d >= 0
    BY <2>2
  <2>. QED BY <1>2, <1>3, <2>3
<1>. QED BY <1>1, <1>3, <1>4, <1>5

LEMMA WithBytes ==
  ASSUME NEW x \in CounterValues, NEW b \in 0 .. ByteValues - 1
  PROVE  WithLo(x, b) \in CounterValues /\ WithHi(x, b) \in CounterValues
<1>1. PICK m \in Nat \ {0} : m = ByteValues
  BY MockingboardAssumption
<1>2. x \in 0 .. m * m - 1 /\ b \in 0 .. m - 1
  BY <1>1 DEF CounterValues, Modulus
<1>3. PICK q \in 0 .. m - 1, r \in 0 .. m - 1 : x % m = r /\ x = m * q + r
  BY <1>2, Bytes
<1>4. m * q + b \in 0 .. m * m - 1 /\ m * b + r \in 0 .. m * m - 1
  BY <1>2, <1>3, FromBytes
<1>5. WithLo(x, b) = m * q + b
  <2>1. WithLo(x, b) = m * q + r - r + b
    BY <1>1, <1>3 DEF WithLo, Lo
  <2>2. m * q \in Int
    OBVIOUS
  <2>. QED BY <2>1, <2>2
<1>6. WithHi(x, b) = m * b + r
  <2>1. WithHi(x, b) = r + b * m
    BY <1>1, <1>3 DEF WithHi, Lo
  <2>2. m \in Int /\ b \in Int /\ r \in Int
    BY <1>2
  <2>3. m * b \in Int /\ b * m = m * b
    BY <2>2
  <2>. QED BY <2>1, <2>2, <2>3
<1>. QED BY <1>1, <1>4, <1>5, <1>6 DEF CounterValues, Modulus

LEMMA LoadingStays ==
  ASSUME NEW v \in Vias, NEW t \in Timers
  PROVE  Loading(v, t) \in Vias
BY DEF Vias, Loading, Phases, Timers

LEMMA WrittenStays ==
  ASSUME NEW v \in Vias, NEW w \in Writes
  PROVE  Written(v, w[2], w[3]) \in Vias
<1>1. PICK reg, val : reg = w[2] /\ val = w[3]
  OBVIOUS
<1>2. v.latch[1] \in CounterValues /\ v.latch[2] \in CounterValues
  BY DEF Vias, Timers
<1>3. /\ reg \in ValueRegisters => val \in 0 .. ByteValues - 1
      /\ reg = "acr" => val \subseteq AcrBits
      /\ reg \in {"ifr", "ier_set", "ier_clear"} => val \subseteq Timers
      /\ reg \in ValueRegisters \cup {"acr", "ifr", "ier_set", "ier_clear"}
  BY <1>1, MockingboardAssumption DEF Timers
<1>4. CASE reg \in ValueRegisters
  <2>1. PICK a, b, c : a = WithLo(v.latch[1], val) /\ b = WithHi(v.latch[1], val) /\ c = WithLo(v.latch[2], val)
    OBVIOUS
  <2>2. PICK d : d = WithHi(v.latch[2], val)
    OBVIOUS
  <2>3. a \in CounterValues /\ b \in CounterValues /\ c \in CounterValues /\ d \in CounterValues
    BY <1>2, <1>3, <1>4, <2>1, <2>2, WithBytes
  <2>4. PICK l1 \in Vias, l2 \in Vias : l1 = Loading(v, 1) /\ l2 = Loading(v, 2)
    BY LoadingStays DEF Timers
  <2>5. CASE reg \in {"t1c_l", "t1l_l"}
    <3>1. Written(v, reg, val) = [v EXCEPT !.latch[1] = a]
      BY <2>1, <2>5 DEF Written
    <3>. QED BY <1>1, <2>3, <3>1 DEF Vias, Timers
  <2>6. CASE reg = "t1c_h"
    <3>1. PICK p : p = (l1.pb7 /\ "pb7" \notin v.acr)
      OBVIOUS
    <3>2. p \in BOOLEAN
      BY <3>1
    <3>3. Written(v, reg, val) = [l1 EXCEPT !.latch[1] = b, !.counter[1] = b, !.pb7 = p]
      BY <2>1, <2>4, <2>6, <3>1 DEF Written
    <3>4. [l1 EXCEPT !.latch[1] = b, !.counter[1] = b, !.pb7 = p] \in Vias
      BY <2>3, <3>2 DEF Vias, Timers
    <3>. QED BY <1>1, <3>3, <3>4
  <2>7. CASE reg = "t1l_h"
    <3>1. PICK i : i = v.ifr \ {1}
      OBVIOUS
    <3>2. i \in SUBSET Timers
      BY <3>1 DEF Vias
    <3>3. Written(v, reg, val) = [v EXCEPT !.latch[1] = b, !.ifr = i]
      BY <2>1, <2>7, <3>1 DEF Written
    <3>4. [v EXCEPT !.latch[1] = b, !.ifr = i] \in Vias
      BY <2>3, <3>2 DEF Vias, Timers
    <3>. QED BY <1>1, <3>3, <3>4
  <2>8. CASE reg = "t2c_l"
    <3>1. Written(v, reg, val) = [v EXCEPT !.latch[2] = c]
      BY <2>1, <2>8 DEF Written
    <3>. QED BY <1>1, <2>3, <3>1 DEF Vias, Timers
  <2>9. CASE reg = "t2c_h"
    <3>1. Written(v, reg, val) = [l2 EXCEPT !.counter[2] = d]
      BY <2>2, <2>4, <2>9 DEF Written
    <3>. QED BY <1>1, <2>3, <3>1 DEF Vias, Timers
  <2>. QED BY <1>4, <2>5, <2>6, <2>7, <2>8, <2>9 DEF ValueRegisters
<1>5. CASE reg = "acr"
  BY <1>1, <1>3, <1>5 DEF Written, Vias
<1>6. CASE reg = "ifr"
  BY <1>1, <1>3, <1>6 DEF Written, Vias
<1>7. CASE reg = "ier_set"
  BY <1>1, <1>3, <1>7 DEF Written, Vias
<1>8. CASE reg = "ier_clear"
  BY <1>1, <1>3, <1>8 DEF Written, Vias
<1>. QED BY <1>3, <1>4, <1>5, <1>6, <1>7, <1>8

LEMMA ReadStays ==
  ASSUME NEW v \in Vias, NEW reg
  PROVE  ReadFrom(v, reg) \in Vias
BY DEF ReadFrom, Vias

LEMMA ResetStays ==
  ASSUME NEW v \in Vias
  PROVE  ResetVia(v) \in Vias
BY DEF ResetVia, Vias, Timers, Phases

LEMMA PowerOnStays == PowerOnVia \in Vias
BY ModulusIs DEF PowerOnVia, Vias, Timers, Phases

(* The card and the card that ticks. *)
Phases8 == 0 .. CyclesPerTick - 1

CardTyped ==
  /\ via \in [Chips -> Vias] /\ exact \in [Chips -> Vias]
  /\ now \in Nat /\ synced \in Nat /\ synced <= now
  /\ remainder \in Phases8 /\ phase8 \in Phases8
  /\ \A s \in kept : s.via \in [Chips -> Vias] /\ s.remainder \in Phases8

LineAgrees ==
  /\ hostLine = ViaLine(via) /\ irqLine = hostLine
  /\ hostLine => ViaLine(exact)

TimersInv == CardTyped /\ CatchesUp /\ LineAgrees

LEMMA PhasesAre ==
  /\ 0 \in Phases8
  /\ \A x \in Nat : x % CyclesPerTick \in Phases8 /\ ((x % CyclesPerTick) + 1) % CyclesPerTick = (x + 1) % CyclesPerTick
  /\ \A x \in Phases8 : x \in Nat /\ x % CyclesPerTick = x
<1>1. PICK m \in Nat \ {0} : m = CyclesPerTick
  BY MockingboardAssumption
<1>2. ASSUME NEW x \in Nat PROVE x % m \in 0 .. m - 1 /\ ((x % m) + 1) % m = (x + 1) % m
  <2>1. PICK q \in Int, r \in 0 .. m - 1 : r = x % m /\ x = m * q + r
    <3>1. x \div m \in Int /\ x % m \in 0 .. m - 1 /\ x = m * (x \div m) + (x % m)
      OBVIOUS
    <3>. QED BY <3>1
  <2>2. PICK y \in Int, z \in Int, u \in Int, e \in 0 .. m - 1 : y = x + 1 /\ z = r + 1 /\ u = q + 1 /\ e = m - 1
    OBVIOUS
  <2>3. 0 \in 0 .. m - 1 /\ 0 \in Int /\ 1 \in Int
    OBVIOUS
  <2>4. CASE r = e
    <3>1. y = m * u + 0 /\ z = m * 1 + 0
      BY <2>1, <2>2, <2>4
    <3>2. y % m = 0
      BY <2>3, <3>1, RemainderIs
    <3>3. z % m = 0
      BY <2>3, <3>1, RemainderIs
    <3>. QED BY <2>1, <2>2, <3>2, <3>3
  <2>5. CASE r # e
    <3>1. z \in 0 .. m - 1
      BY <2>2, <2>5
    <3>2. y = m * q + z /\ z = m * 0 + z
      BY <2>1, <2>2
    <3>3. y % m = z
      BY <3>1, <3>2, RemainderIs
    <3>4. z % m = z
      BY <2>3, <3>1, <3>2, RemainderIs
    <3>. QED BY <2>1, <2>2, <3>3, <3>4
  <2>. QED BY <2>1, <2>4, <2>5
<1>3. ASSUME NEW x \in 0 .. m - 1 PROVE x \in Nat /\ x % m = x
  OBVIOUS
<1>. QED BY <1>1, <1>2, <1>3 DEF Phases8

(* What the card is once it has caught up. *)
LEMMA CaughtUp ==
  ASSUME TimersInv
  PROVE  /\ SyncTo(now) = exact
         /\ RemainderAfter(now) = phase8
         /\ (IF now > synced THEN now ELSE synced) = now
<1>1. \A c \in Chips : SyncTo(now)[c] = exact[c]
  BY DEF TimersInv, CatchesUp, SyncTo
<1>2. exact \in [Chips -> Vias]
  BY DEF TimersInv, CardTyped
<1>3. SyncTo(now) = [c \in Chips |-> exact[c]]
  BY <1>1 DEF SyncTo
<1>4. SyncTo(now) = exact
  BY <1>2, <1>3
<1>. QED BY <1>4 DEF TimersInv, CatchesUp, CardTyped

(* Nothing is owed when the card has been brought up to now. *)
LEMMA NothingOwed ==
  ASSUME via' = exact', exact' \in [Chips -> Vias], now' \in Nat, synced' = now',
         remainder' = phase8', phase8' \in Phases8
  PROVE  CatchesUp'
<1>1. Behind(now)' = 0
  <2>1. ~(now' > synced')
    OBVIOUS
  <2>. QED BY <2>1 DEF Behind
<1>2. \A c \in Chips : Step(exact'[c], 0) = exact'[c]
  BY StepIs
<1>3. RemainderAfter(now)' = phase8'
  <2>1. RemainderAfter(now)' = (phase8' + 0) % CyclesPerTick
    BY <1>1 DEF RemainderAfter
  <2>. QED BY <2>1, PhasesAre
<1>4. \A c \in Chips : Step(via'[c], Behind(now)') = exact'[c]
  BY <1>1, <1>2
<1>. QED BY <1>3, <1>4 DEF CatchesUp

LEMMA LineHeard ==
  ASSUME NEW chips, LineAgrees, UpdateIrq(chips), via' = chips, exact' = chips
  PROVE  LineAgrees'
<1>1. irqLine' = ViaLine(chips) /\ hostLine' = ViaLine(chips)
  BY DEF UpdateIrq, LineAgrees
<1>2. ViaLine(via)' = ViaLine(chips) /\ ViaLine(exact)' = ViaLine(chips)
  BY DEF ViaLine
<1>. QED BY <1>1, <1>2 DEF LineAgrees

(* A cycle takes no flag away. *)
LEMMA CardTickedTo ==
  ASSUME NEW v \in Vias
  PROVE  v.ifr \subseteq Tick(Tick(v, 1), 2).ifr /\ Tick(Tick(v, 1), 2).ier = v.ier
<1>1. 1 \in Timers /\ 2 \in Timers
  BY DEF Timers
<1>2. TickedTo(v, 1, Tick(v, 1)) /\ Tick(v, 1) \in Vias
  BY <1>1, TickIs DEF TickedTo
<1>3. TickedTo(Tick(v, 1), 2, Tick(Tick(v, 1), 2))
  BY <1>1, <1>2, TickIs
<1>. QED BY <1>2, <1>3 DEF TickedTo

LEMMA AccessKeeps ==
  ASSUME TimersInv, NEW chips \in [Chips -> Vias], Access(chips, chips)
  PROVE  TimersInv'
<1>1. /\ via' = chips /\ exact' = chips /\ now' = now /\ phase8' = phase8 /\ kept' = kept
      /\ synced' = now /\ remainder' = phase8
  BY CaughtUp DEF Access
<1>2. CardTyped'
  BY <1>1 DEF TimersInv, CardTyped
<1>3. CatchesUp'
  BY <1>1, <1>2, NothingOwed DEF CardTyped
<1>4. LineAgrees'
  BY <1>1, LineHeard DEF TimersInv, Access
<1>. QED BY <1>2, <1>3, <1>4 DEF TimersInv

LEMMA TimersKept ==
  ASSUME TimersInv, [ViaNext]_viaVars
  PROVE  TimersInv'
<1>. USE DEF TimersInv
<1>1. CASE CxWrite
  <2>1. PICK w \in Writes : Access([SyncTo(now) EXCEPT ![w[1]] = Written(@, w[2], w[3])],
                                    [exact EXCEPT ![w[1]] = Written(@, w[2], w[3])])
    BY <1>1 DEF CxWrite
  <2>2. PICK chips : chips = [exact EXCEPT ![w[1]] = Written(exact[w[1]], w[2], w[3])]
    OBVIOUS
  <2>3. \A c \in Chips : Written(exact[c], w[2], w[3]) \in Vias
    BY WrittenStays DEF CardTyped
  <2>4. chips \in [Chips -> Vias]
    BY <2>2, <2>3 DEF CardTyped
  <2>5. Access(chips, chips)
    BY <2>1, <2>2, CaughtUp
  <2>. QED BY <2>4, <2>5, AccessKeeps
<1>2. CASE CxRead
  <2>1. PICK r \in Reads : Access([SyncTo(now) EXCEPT ![r[1]] = ReadFrom(@, r[2])],
                                   [exact EXCEPT ![r[1]] = ReadFrom(@, r[2])])
    BY <1>2 DEF CxRead
  <2>2. PICK chips : chips = [exact EXCEPT ![r[1]] = ReadFrom(exact[r[1]], r[2])]
    OBVIOUS
  <2>3. \A c \in Chips : ReadFrom(exact[c], r[2]) \in Vias
    BY ReadStays DEF CardTyped
  <2>4. chips \in [Chips -> Vias]
    BY <2>2, <2>3 DEF CardTyped
  <2>5. Access(chips, chips)
    BY <2>1, <2>2, CaughtUp
  <2>. QED BY <2>4, <2>5, AccessKeeps
<1>3. CASE Cycle
  <2>1. /\ now' = now + 1 /\ phase8' = (phase8 + 1) % CyclesPerTick
        /\ exact' = [c \in Chips |-> Tick(Tick(exact[c], 1), 2)]
        /\ via' = via /\ synced' = synced /\ remainder' = remainder /\ irqLine' = irqLine
        /\ hostLine' = hostLine /\ kept' = kept
    BY <1>3 DEF Cycle
  <2>2. PICK n \in Nat : n = Behind(now)
    <3>1. now \in Nat /\ synced \in Nat /\ synced <= now
      BY DEF CardTyped
    <3>2. Behind(now) \in Nat
      BY <3>1 DEF Behind
    <3>. QED BY <3>2
  <2>3. Behind(now)' = n + 1
    BY <2>1, <2>2 DEF CardTyped, Behind
  <2>4. \A c \in Chips : Step(via[c], n + 1) = exact'[c] /\ exact'[c] \in Vias
    <3>1. \A c \in Chips : via[c] \in Vias /\ exact[c] \in Vias /\ Step(via[c], n) = exact[c]
      BY <2>2 DEF CardTyped, CatchesUp
    <3>2. \A c \in Chips : Tick(Tick(exact[c], 1), 2) \in Vias
      BY <3>1, TickedStays DEF Timers
    <3>. QED BY <2>1, <3>1, <3>2, StepIs
  <2>5. CardTyped'
    <3>1. exact' \in [Chips -> Vias]
      BY <2>1, <2>4
    <3>2. phase8' \in Phases8
      <4>1. phase8 \in Nat
        BY PhasesAre DEF CardTyped
      <4>. QED BY <2>1, <4>1, PhasesAre
    <3>. QED BY <2>1, <3>1, <3>2 DEF CardTyped
  <2>6. RemainderAfter(now)' = phase8'
    <3>1. remainder \in Nat /\ remainder + n \in Nat
      BY PhasesAre DEF CardTyped
    <3>2. RemainderAfter(now)' = (remainder + (n + 1)) % CyclesPerTick
      BY <2>1, <2>3 DEF RemainderAfter
    <3>3. phase8 = (remainder + n) % CyclesPerTick
      BY <2>2 DEF CatchesUp, RemainderAfter
    <3>4. remainder + (n + 1) = remainder + n + 1
      BY <3>1
    <3>. QED BY <2>1, <3>1, <3>2, <3>3, <3>4, PhasesAre
  <2>7. CatchesUp'
    BY <2>1, <2>3, <2>4, <2>6 DEF CatchesUp
  <2>8. LineAgrees'
    <3>1. \A c \in Chips : exact[c].ifr \subseteq exact'[c].ifr /\ exact'[c].ier = exact[c].ier
      BY <2>1, CardTickedTo DEF CardTyped
    <3>2. ViaLine(exact) => ViaLine(exact)'
      BY <3>1 DEF ViaLine, Irq
    <3>3. ViaLine(via)' = ViaLine(via)
      BY <2>1 DEF ViaLine
    <3>. QED BY <2>1, <3>2, <3>3 DEF LineAgrees
  <2>. QED BY <2>5, <2>7, <2>8
<1>4. CASE MbThink
  <2>1. /\ via' = exact /\ exact' = exact /\ phase8' = phase8 /\ remainder' = phase8 /\ synced' = 0 /\ now' = 0
        /\ kept' = kept /\ UpdateIrq(exact)
    BY <1>4, CaughtUp DEF MbThink
  <2>2. CardTyped'
    BY <2>1 DEF CardTyped
  <2>3. CatchesUp'
    BY <2>1, <2>2, NothingOwed DEF CardTyped
  <2>4. LineAgrees'
    BY <2>1, LineHeard
  <2>. QED BY <2>2, <2>3, <2>4
<1>5. CASE MbReset
  <2>1. now = 0 /\ via = exact
    <3>1. now = 0
      BY <1>5 DEF MbReset
    <3>2. Behind(now) = 0
      BY <3>1 DEF Behind, CardTyped
    <3>3. \A c \in Chips : via[c] = exact[c]
      BY <3>2, StepIs DEF CatchesUp, CardTyped
    <3>. QED BY <3>1, <3>3 DEF CardTyped
  <2>2. /\ via' = [c \in Chips |-> ResetVia(exact[c])] /\ exact' = [c \in Chips |-> ResetVia(exact[c])]
        /\ phase8' = 0 /\ remainder' = 0 /\ synced' = 0 /\ now' = 0 /\ kept' = kept
        /\ irqLine' = FALSE /\ hostLine' = FALSE
    BY <1>5, <2>1 DEF MbReset
  <2>3. \A c \in Chips : ResetVia(exact[c]) \in Vias
    BY ResetStays DEF CardTyped
  <2>4. CardTyped'
    BY <2>2, <2>3, PhasesAre DEF CardTyped
  <2>5. CatchesUp'
    BY <2>2, <2>4, NothingOwed DEF CardTyped
  <2>6. ViaLine(via)' = FALSE
    <3>1. \A c \in Chips : ResetVia(exact[c]).ifr = {}
      BY DEF ResetVia, CardTyped, Vias
    <3>2. \A c \in Chips : via'[c].ifr = {}
      BY <2>2, <3>1
    <3>. QED BY <3>2 DEF ViaLine, Irq
  <2>. QED BY <2>2, <2>4, <2>5, <2>6 DEF LineAgrees
<1>6. CASE MbSave
  <2>1. /\ via' = via /\ exact' = exact /\ now' = now /\ synced' = synced /\ remainder' = remainder
        /\ phase8' = phase8 /\ irqLine' = irqLine /\ hostLine' = hostLine
        /\ kept' = {[via |-> via, remainder |-> remainder]}
    BY <1>6 DEF MbSave
  <2>2. CardTyped'
    BY <2>1 DEF CardTyped
  <2>. QED BY <2>1, <2>2 DEF CatchesUp, LineAgrees, ViaLine, Behind, RemainderAfter
<1>7. CASE MbLoad
  <2>1. PICK s \in kept : /\ now = 0 /\ via' = s.via /\ exact' = s.via /\ remainder' = s.remainder
                          /\ phase8' = s.remainder /\ synced' = 0 /\ now' = now /\ kept' = {}
                          /\ irqLine' = ViaLine(s.via) /\ hostLine' = ViaLine(s.via)
    BY <1>7 DEF MbLoad
  <2>2. CardTyped'
    BY <2>1 DEF CardTyped
  <2>3. CatchesUp'
    BY <2>1, <2>2, NothingOwed DEF CardTyped
  <2>. QED BY <2>1, <2>2, <2>3 DEF LineAgrees, ViaLine
<1>8. CASE UNCHANGED viaVars
  BY <1>8 DEF viaVars, CardTyped, CatchesUp, LineAgrees, ViaLine, Behind, RemainderAfter
<1>. QED BY <1>1, <1>2, <1>3, <1>4, <1>5, <1>6, <1>7, <1>8 DEF ViaNext

LEMMA TimersStart ==
  ASSUME ViaInit
  PROVE  TimersInv
<1>1. /\ via = [c \in Chips |-> PowerOnVia] /\ exact = via /\ now = 0 /\ synced = 0 /\ remainder = 0 /\ phase8 = 0
      /\ irqLine = FALSE /\ hostLine = FALSE /\ kept = {}
  BY DEF ViaInit
<1>2. CardTyped
  BY <1>1, PowerOnStays, PhasesAre DEF CardTyped
<1>3. Behind(now) = 0
  BY <1>1 DEF Behind
<1>4. CatchesUp
  <2>1. RemainderAfter(now) = (0 + 0) % CyclesPerTick
    BY <1>1, <1>3 DEF RemainderAfter
  <2>2. RemainderAfter(now) = 0
    BY <2>1, PhasesAre
  <2>3. \A c \in Chips : Step(via[c], Behind(now)) = exact[c]
    BY <1>1, <1>2, <1>3, StepIs DEF CardTyped
  <2>. QED BY <1>1, <2>2, <2>3 DEF CatchesUp
<1>5. ViaLine(via) = FALSE
  <2>1. \A c \in Chips : via[c].ifr = {}
    BY <1>1 DEF PowerOnVia
  <2>. QED BY <2>1 DEF ViaLine, Irq
<1>. QED BY <1>1, <1>2, <1>4, <1>5 DEF TimersInv, LineAgrees

LEMMA TimersFollow ==
  ASSUME TimersInv
  PROVE  CatchesUp /\ LineFollowsChips
<1>1. now = synced => ViaLine(via) = ViaLine(exact)
  <2>1. SUFFICES ASSUME now = synced PROVE ViaLine(via) = ViaLine(exact)
    OBVIOUS
  <2>2. Behind(now) = 0
    BY <2>1 DEF Behind, TimersInv, CardTyped
  <2>3. \A c \in Chips : via[c] = exact[c]
    BY <2>2, StepIs DEF TimersInv, CatchesUp, CardTyped
  <2>4. via = exact
    BY <2>3 DEF TimersInv, CardTyped
  <2>. QED BY <2>4
<1>. QED BY <1>1 DEF TimersInv, LineAgrees, LineFollowsChips

(* The envelope, at level r of cycle q of its wave. *)
Envelopes == [shape : EnvelopeShapes, step : 0 .. Top, attack : BOOLEAN, holding : BOOLEAN]

Turning(shape, q) == q = 0 \/ (shape.cont /\ ~shape.hold)
RisesIn(shape, q) == IF shape.alt /\ q \in {1, 3} THEN ~shape.attack ELSE shape.attack
HeldLevel(shape) == IF shape.cont /\ shape.attack # shape.alt THEN Top ELSE 0

WaveAt(e, q, r) ==
  IF Turning(e.shape, q) THEN ~e.holding /\ e.step = r /\ e.attack = RisesIn(e.shape, q)
  ELSE e.holding /\ Level(e) = HeldLevel(e.shape)

EnvelopeInv ==
  /\ psg \in [latched : Nat, env : Envelopes]
  /\ intent \in [shape : EnvelopeShapes, steps : Nat]
  /\ psg.env.shape = intent.shape
  /\ \E q \in 0 .. 3, r \in 0 .. Top : intent.steps = (Top + 1) * q + r /\ WaveAt(psg.env, q, r)

LEMMA NewWave ==
  ASSUME NEW shape \in EnvelopeShapes
  PROVE  NewEnvelope(shape) \in Envelopes /\ NewEnvelope(shape).shape = shape /\ WaveAt(NewEnvelope(shape), 0, 0)
<1>1. Top \in Nat
  BY MockingboardAssumption
<1>2. shape.attack \in BOOLEAN
  BY DEF EnvelopeShapes
<1>3. PICK e : e = NewEnvelope(shape)
  OBVIOUS
<1>4. e.shape = shape /\ e.step = 0 /\ e.attack = shape.attack /\ e.holding = FALSE /\ e \in Envelopes
  BY <1>1, <1>2, <1>3 DEF NewEnvelope, Envelopes
<1>5. Turning(e.shape, 0) /\ RisesIn(e.shape, 0) = shape.attack
  BY <1>4 DEF Turning, RisesIn
<1>. QED BY <1>3, <1>4, <1>5 DEF WaveAt

LEMMA HeldIs ==
  ASSUME NEW e \in Envelopes, NEW amplitude \in {0, Top}, NEW f, f = HoldAt(e, amplitude)
  PROVE  f \in Envelopes /\ f.shape = e.shape /\ f.attack = e.attack /\ f.holding = TRUE /\ Level(f) = amplitude
<1>1. Top \in Nat
  BY MockingboardAssumption
<1>2. PICK x : x = IF e.attack THEN amplitude ELSE Top - amplitude
  OBVIOUS
<1>3. x \in 0 .. Top
  BY <1>1, <1>2
<1>4. f = [e EXCEPT !.holding = TRUE, !.step = x]
  BY <1>2 DEF HoldAt
<1>5. f \in Envelopes /\ f.shape = e.shape /\ f.attack = e.attack /\ f.holding = TRUE /\ f.step = x
  BY <1>3, <1>4 DEF Envelopes
<1>. QED BY <1>1, <1>2, <1>5 DEF Level

LEMMA WaveGoesOn ==
  ASSUME NEW e \in Envelopes, NEW q \in 0 .. 3, NEW r \in 0 .. Top, WaveAt(e, q, r),
         NEW f, f = StepEnvelope(e)
  PROVE  /\ f \in Envelopes /\ f.shape = e.shape
         /\ r # Top => WaveAt(f, q, r + 1)
         /\ r = Top => WaveAt(f, IF q = 3 THEN 2 ELSE q + 1, 0)
<1>1. Top \in Nat
  BY MockingboardAssumption
<1>2. PICK s \in EnvelopeShapes : s = e.shape
  BY DEF Envelopes
<1>3. /\ s.cont \in BOOLEAN /\ s.hold \in BOOLEAN /\ s.alt \in BOOLEAN /\ s.attack \in BOOLEAN
      /\ e.attack \in BOOLEAN /\ e.holding \in BOOLEAN /\ e.step \in 0 .. Top
  BY DEF EnvelopeShapes, Envelopes
<1>4. PICK n \in 1 .. 3 : n = IF q = 3 THEN 2 ELSE q + 1
  OBVIOUS
<1>5. CASE ~Turning(s, q)
  <2>1. e.holding /\ Level(e) = HeldLevel(s) /\ f = e
    BY <1>2, <1>5 DEF WaveAt, StepEnvelope
  <2>2. ~Turning(s, n)
    BY <1>5, <1>4 DEF Turning
  <2>3. WaveAt(f, q, r + 1) /\ WaveAt(f, n, 0)
    BY <1>2, <1>5, <2>1, <2>2 DEF WaveAt
  <2>. QED BY <1>4, <2>1, <2>3
<1>6. CASE Turning(s, q)
  <2>1. ~e.holding /\ e.step = r /\ e.attack = RisesIn(s, q)
    BY <1>2, <1>6 DEF WaveAt
  <2>2. CASE r # Top
    <3>1. r < Top /\ r + 1 \in 0 .. Top
      BY <1>1, <2>2
    <3>2. f = [e EXCEPT !.step = r + 1]
      BY <2>1, <3>1 DEF StepEnvelope
    <3>3. f \in Envelopes /\ f.shape = s /\ f.holding = e.holding /\ f.attack = e.attack /\ f.step = r + 1
      BY <1>2, <3>1, <3>2 DEF Envelopes
    <3>4. WaveAt(f, q, r + 1)
      BY <1>6, <2>1, <3>3 DEF WaveAt
    <3>. QED BY <1>2, <2>2, <3>3, <3>4
  <2>3. CASE r = Top
    <3>1. ~(e.step < Top) /\ e.step = Top
      BY <1>1, <2>1, <2>3
    <3>2. CASE s.cont /\ ~s.hold
      <4>1. PICK a : a = (e.attack # s.alt)
        OBVIOUS
      <4>2. a \in BOOLEAN
        BY <4>1
      <4>3. f = [e EXCEPT !.step = 0, !.attack = a]
        BY <1>2, <2>1, <3>1, <3>2, <4>1 DEF StepEnvelope
      <4>4. f \in Envelopes /\ f.shape = s /\ f.holding = e.holding /\ f.attack = a /\ f.step = 0
        <5>1. 0 \in 0 .. Top
          BY <1>1
        <5>. QED BY <1>2, <4>2, <4>3, <5>1 DEF Envelopes
      <4>5. a = RisesIn(s, n)
        <5>1. q \in {1, 3} <=> ~(n \in {1, 3})
          BY <1>4
        <5>. QED BY <1>3, <2>1, <4>1, <4>2, <5>1 DEF RisesIn
      <4>6. Turning(s, n)
        BY <3>2 DEF Turning
      <4>7. WaveAt(f, n, 0)
        BY <2>1, <4>4, <4>5, <4>6 DEF WaveAt
      <4>. QED BY <1>2, <1>4, <2>3, <4>4, <4>7
    <3>3. CASE ~s.cont \/ s.hold
      <4>1. q = 0 /\ n = 1 /\ ~Turning(s, n)
        BY <1>4, <1>6, <3>3 DEF Turning
      <4>2. e.attack = s.attack
        BY <2>1, <4>1 DEF RisesIn
      <4>3. PICK x \in {0, Top} : x = HeldLevel(s)
        BY DEF HeldLevel
      <4>4. f = HoldAt(e, x)
        <5>1. CASE ~s.cont
          <6>1. x = 0
            BY <4>3, <5>1 DEF HeldLevel
          <6>. QED BY <1>2, <2>1, <3>1, <5>1, <6>1 DEF StepEnvelope
        <5>2. CASE s.cont /\ s.hold
          <6>1. x = IF e.attack # s.alt THEN Top ELSE 0
            BY <4>2, <4>3, <5>2 DEF HeldLevel
          <6>. QED BY <1>2, <2>1, <3>1, <5>2, <6>1 DEF StepEnvelope
        <5>. QED BY <3>3, <5>1, <5>2
      <4>5. f \in Envelopes /\ f.shape = s /\ f.holding = TRUE /\ Level(f) = x
        BY <1>2, <4>4, HeldIs
      <4>6. WaveAt(f, n, 0)
        BY <4>1, <4>3, <4>5 DEF WaveAt
      <4>. QED BY <1>2, <1>4, <2>3, <4>5, <4>6
    <3>. QED BY <3>2, <3>3
  <2>. QED BY <2>2, <2>3
<1>. QED BY <1>5, <1>6

LEMMA PlaceIs ==
  ASSUME NEW m \in Nat \ {0}, NEW q \in Int, NEW r \in 0 .. m - 1, NEW x \in Int, x = m * q + r
  PROVE  x \div m = q
BY SMT

LEMMA EnvelopeStarts ==
  ASSUME NEW shape \in EnvelopeShapes, NEW at, at \in Nat,
         psg' = [latched |-> at, env |-> NewEnvelope(shape)], intent' = [shape |-> shape, steps |-> 0]
  PROVE  EnvelopeInv'
<1>1. Top \in Nat /\ 0 \in 0 .. 3 /\ 0 \in 0 .. Top /\ 0 = (Top + 1) * 0 + 0
  BY MockingboardAssumption
<1>2. psg'.env = NewEnvelope(shape) /\ intent'.steps = 0 /\ intent'.shape = shape
  OBVIOUS
<1>3. intent'.steps = (Top + 1) * 0 + 0 /\ WaveAt(psg'.env, 0, 0)
  BY <1>1, <1>2, NewWave
<1>4. \E q \in 0 .. 3, r \in 0 .. Top : intent'.steps = (Top + 1) * q + r /\ WaveAt(psg'.env, q, r)
  BY <1>1, <1>3
<1>. QED BY <1>2, <1>4, NewWave DEF EnvelopeInv

LEMMA EnvelopeKept ==
  ASSUME EnvelopeInv, [PsgNext]_psgVars
  PROVE  EnvelopeInv'
<1>1. NoShape \in EnvelopeShapes
  BY DEF NoShape, EnvelopeShapes
<1>2. CASE psg' = BusCycle("reset", 0) /\ intent' = [shape |-> NoShape, steps |-> 0]
  <2>1. psg' = [latched |-> 0, env |-> NewEnvelope(NoShape)]
    BY <1>2 DEF BusCycle, ResetPsg
  <2>. QED BY <1>1, <1>2, <2>1, EnvelopeStarts
<1>3. ASSUME NEW address \in {0, 13, 16}, psg' = BusCycle("latch", address), UNCHANGED intent
      PROVE  EnvelopeInv'
  <2>1. PICK at \in Nat : psg' = [psg EXCEPT !.latched = at]
    <3>1. psg.latched \in Nat
      BY DEF EnvelopeInv
    <3>2. (IF address < 16 THEN address ELSE psg.latched) \in Nat
      BY <3>1
    <3>. QED BY <1>3, <3>2 DEF BusCycle
  <2>2. psg' \in [latched : Nat, env : Envelopes] /\ psg'.env = psg.env /\ intent' = intent
    BY <1>3, <2>1 DEF EnvelopeInv
  <2>. QED BY <2>2 DEF EnvelopeInv
<1>4. ASSUME NEW shape \in Shapes, psg' = BusCycle("write", shape),
             intent' = IF psg.latched = 13 THEN [shape |-> shape, steps |-> 0] ELSE intent
      PROVE  EnvelopeInv'
  <2>1. CASE psg.latched = 13
    <3>1. psg' = [latched |-> 13, env |-> NewEnvelope(shape)]
      BY <1>4, <2>1 DEF BusCycle, EnvelopeInv
    <3>2. shape \in EnvelopeShapes
      BY MockingboardAssumption
    <3>. QED BY <1>4, <2>1, <3>1, <3>2, EnvelopeStarts
  <2>2. CASE psg.latched # 13
    <3>1. psg' = psg /\ intent' = intent
      BY <1>4, <2>2 DEF BusCycle
    <3>. QED BY <3>1 DEF EnvelopeInv
  <2>. QED BY <2>1, <2>2
<1>5. CASE EnvelopeStep
  <2>1. PICK q \in 0 .. 3, r \in 0 .. Top : intent.steps = (Top + 1) * q + r /\ WaveAt(psg.env, q, r)
    BY DEF EnvelopeInv
  <2>2. Top \in Nat /\ psg.env \in Envelopes
    BY MockingboardAssumption DEF EnvelopeInv
  <2>3. PICK f : f = StepEnvelope(psg.env)
    OBVIOUS
  <2>4. PICK n : n = IF intent.steps + 1 = 4 * (Top + 1) THEN 2 * (Top + 1) ELSE intent.steps + 1
    OBVIOUS
  <2>5. psg' = [psg EXCEPT !.env = f] /\ intent' = [intent EXCEPT !.steps = n]
    BY <1>5, <2>3, <2>4 DEF EnvelopeStep
  <2>6. n \in Nat
    BY <2>2, <2>4 DEF EnvelopeInv
  <2>7. PICK k \in 0 .. 3, j \in 0 .. Top :
          /\ k = IF r = Top THEN (IF q = 3 THEN 2 ELSE q + 1) ELSE q
          /\ j = IF r = Top THEN 0 ELSE r + 1
    BY <2>2
  <2>8. WaveAt(f, k, j) /\ f \in Envelopes /\ f.shape = psg.env.shape
    BY <2>1, <2>2, <2>3, <2>7, WaveGoesOn
  <2>9. n = (Top + 1) * k + j
    <3>1. CASE q = 0
      BY <2>1, <2>2, <2>4, <2>7, <3>1
    <3>2. CASE q = 1
      BY <2>1, <2>2, <2>4, <2>7, <3>2
    <3>3. CASE q = 2
      BY <2>1, <2>2, <2>4, <2>7, <3>3
    <3>4. CASE q = 3
      BY <2>1, <2>2, <2>4, <2>7, <3>4
    <3>. QED BY <3>1, <3>2, <3>3, <3>4
  <2>10. psg' \in [latched : Nat, env : Envelopes] /\ psg'.env = f
    BY <2>5, <2>8 DEF EnvelopeInv
  <2>11. intent' \in [shape : EnvelopeShapes, steps : Nat] /\ intent'.shape = intent.shape /\ intent'.steps = n
    BY <2>5, <2>6 DEF EnvelopeInv
  <2>. QED BY <2>8, <2>9, <2>10, <2>11 DEF EnvelopeInv
<1>6. CASE UNCHANGED psgVars
  BY <1>6 DEF psgVars, EnvelopeInv
<1>. QED BY <1>2, <1>3, <1>4, <1>5, <1>6 DEF PsgNext, WriteOrb

LEMMA EnvelopeFollows ==
  ASSUME EnvelopeInv
  PROVE  EnvelopeFollowsShape
<1>1. PICK q \in 0 .. 3, r \in 0 .. Top : intent.steps = (Top + 1) * q + r /\ WaveAt(psg.env, q, r)
  BY DEF EnvelopeInv
<1>2. Top \in Nat
  BY MockingboardAssumption
<1>3. PICK s \in EnvelopeShapes : s = intent.shape /\ s = psg.env.shape
  BY DEF EnvelopeInv
<1>4. /\ s.cont \in BOOLEAN /\ s.hold \in BOOLEAN /\ s.alt \in BOOLEAN /\ s.attack \in BOOLEAN
      /\ psg.env.attack \in BOOLEAN
  BY DEF EnvelopeShapes, Envelopes, EnvelopeInv
<1>5. intent.steps \div (Top + 1) = q /\ intent.steps % (Top + 1) = r
  <2>1. PICK m \in Nat \ {0} : m = Top + 1
    BY <1>2
  <2>2. r \in 0 .. m - 1 /\ intent.steps \in Int /\ intent.steps = m * q + r /\ q \in Int
    BY <1>1, <1>2, <2>1 DEF EnvelopeInv
  <2>. QED BY <2>1, <2>2, PlaceIs, RemainderIs
<1>6. q % 2 = 1 <=> q \in {1, 3}
  OBVIOUS
<1>7. PICK up : up = IF s.alt /\ q % 2 = 1 THEN ~s.attack ELSE s.attack
  OBVIOUS
<1>8. up = RisesIn(s, q)
  BY <1>6, <1>7 DEF RisesIn
<1>9. Wave(s, intent.steps) =
        CASE q = 0 \/ (s.cont /\ ~s.hold) -> IF up THEN r ELSE Top - r
          [] q > 0 /\ ~s.cont -> 0
          [] OTHER -> IF s.attack # s.alt THEN Top ELSE 0
  BY <1>5, <1>7 DEF Wave
<1>10. CASE Turning(s, q)
  <2>1. psg.env.step = r /\ psg.env.attack = up
    BY <1>1, <1>3, <1>8, <1>10 DEF WaveAt
  <2>2. Wave(s, intent.steps) = IF up THEN r ELSE Top - r
    BY <1>9, <1>10 DEF Turning
  <2>. QED BY <1>3, <2>1, <2>2 DEF EnvelopeFollowsShape, Level
<1>11. CASE ~Turning(s, q)
  <2>1. Level(psg.env) = HeldLevel(s)
    BY <1>1, <1>3, <1>11 DEF WaveAt
  <2>2. Wave(s, intent.steps) = HeldLevel(s)
    BY <1>9, <1>11 DEF Turning, HeldLevel
  <2>. QED BY <1>3, <2>1, <2>2 DEF EnvelopeFollowsShape
<1>. QED BY <1>10, <1>11

(* Both halves of the card, however their steps are interleaved. *)
MockingboardSpec == (ViaInit /\ PsgInit) /\ [][ViaNext]_viaVars /\ [][PsgNext]_psgVars

\* The timers keep their types, the chips brought up to now are those that ticked, and the
\* envelope is at a step of its wave (sync_to, update_irq, step_envelope).
THEOREM MockingboardIsInductive == MockingboardSpec => [](TimersInv /\ EnvelopeInv)
<1>1. ViaInit => TimersInv
  BY TimersStart
<1>2. PsgInit => EnvelopeInv
  <2>1. SUFFICES ASSUME PsgInit PROVE EnvelopeInv
    OBVIOUS
  <2>2. NoShape \in EnvelopeShapes
    BY DEF NoShape, EnvelopeShapes
  <2>3. psg = [latched |-> 0, env |-> NewEnvelope(NoShape)] /\ intent = [shape |-> NoShape, steps |-> 0]
    BY <2>1 DEF PsgInit, ResetPsg
  <2>4. Top \in Nat /\ 0 \in 0 .. 3 /\ 0 \in 0 .. Top /\ 0 = (Top + 1) * 0 + 0
    BY MockingboardAssumption
  <2>5. psg.env = NewEnvelope(NoShape) /\ intent.steps = 0 /\ intent.shape = NoShape
    BY <2>3
  <2>6. intent.steps = (Top + 1) * 0 + 0 /\ WaveAt(psg.env, 0, 0)
    BY <2>2, <2>4, <2>5, NewWave
  <2>7. \E q \in 0 .. 3, r \in 0 .. Top : intent.steps = (Top + 1) * q + r /\ WaveAt(psg.env, q, r)
    BY <2>4, <2>6
  <2>. QED BY <2>2, <2>3, <2>5, <2>7, NewWave DEF EnvelopeInv
<1>3. TimersInv /\ [ViaNext]_viaVars => TimersInv'
  BY TimersKept
<1>4. EnvelopeInv /\ [PsgNext]_psgVars => EnvelopeInv'
  BY EnvelopeKept
<1>. QED BY <1>1, <1>2, <1>3, <1>4, PTL DEF MockingboardSpec

\* The card that catches up only when it is looked at gives the answers of one that ticks: its
\* line is theirs whenever it has just been looked at or its frame is over, late in between and
\* never early; the envelope is the wave of its shape (sync_to, update_irq, mb_abi_think,
\* step_envelope).
THEOREM MockingboardKeepsTime == MockingboardSpec => []CardKeepsTime
<1>1. TimersInv /\ EnvelopeInv => CardKeepsTime
  BY TimersFollow, EnvelopeFollows DEF CardKeepsTime
<1>. QED BY <1>1, MockingboardIsInductive, PTL
==============================================================================
