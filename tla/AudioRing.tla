------------------------------ MODULE AudioRing ------------------------------
(***************************************************************************)
(* The ring buffer between the emulation thread, which uploads the samples *)
(* of an audio source, and the device's audio thread, which mixes them     *)
(* (frontends/common/AudioMixer.cpp).  It is lock-free: each thread works  *)
(* on what it loaded of the other's index, so every load and store of a    *)
(* shared field is a step of its own, and so is every frame copied.        *)
(*                                                                         *)
(* One mixer slot is modelled; of the others only whether they have        *)
(* samples matters, and that is left open.  A sample is its number in the  *)
(* order of upload: left samples are odd, right samples even.              *)
(***************************************************************************)
EXTENDS Integers

CONSTANTS
  Size,         \* capacity_samples
  Cushion,      \* cushion_samples
  Accumulator,  \* mix_accumulator_samples: the longest chunk mixed at once
  Requests,     \* samples the device may ask for in one callback
  Chunks,       \* samples one upload may carry
  MaxSent,      \* bound: samples uploaded in a behaviour
  MaxFlushes    \* bound: flushes asked for of one registration

Even(n) == n - (n % 2)

ASSUME SizesAssumption ==
  /\ Size \in Nat /\ Size > 2 /\ Size % 2 = 0
  /\ Cushion \in Nat
  /\ Accumulator \in Nat \ {0} /\ Accumulator % 2 = 0
  /\ MaxSent \in Nat /\ MaxFlushes \in Nat
ASSUME FramesAssumption ==
  \A n \in Requests \cup Chunks : n \in Nat \ {0} /\ n % 2 = 0

Silence == 0      \* a cell the reinitialisation filled
Torn == -1        \* a cell being written

VARIABLES
  \* The slot and its SampleBuffer, shared by the two threads:
  active, cells, read, write, flush_gen,
  acked, last,  \* audio thread's own: acked_flush_gen, last_left and last_right
  \* The emulation thread:
  upc,          \* where it is
  num,          \* samples this upload stores
  announcing,   \* the reinitialisation is a registration's
  \* The audio thread:
  apc,          \* where it is
  left,         \* samples of the callback still to mix
  ar, aw,       \* its copies of read_index and write_index
  todo,         \* samples of this chunk still to take
  \* History:
  sent,         \* samples uploaded
  heard,        \* the last sample taken for mixing
  mark,         \* sent at the request of each flush generation
  underfoot     \* a reinitialisation ran under a drain, and none since was clean

ring == <<cells, read, write>>
flush == <<flush_gen, acked>>
uploader == <<upc, num, announcing>>
mixer == <<apc, left, ar, aw, todo>>
history == <<sent, heard, mark, underfoot>>
vars == <<active, ring, flush, last, uploader, mixer, history>>

Smaller(a, b) == IF a <= b THEN a ELSE b

\* sample_buffer_get_filled
Filled(r, w) == IF r <= w THEN w - r ELSE Size + w - r

\* sample_buffer_get_free
Free(r, w) == IF Filled(r, w) >= Size - 1 THEN 0 ELSE Size - 1 - Filled(r, w)

\* What an upload stores and a drain takes: all of it, or whole frames.
Whole(len, room) == IF len < room THEN len ELSE Even(room)

\* The n cells from index from on, and the index after them
Span(from, n) == {(from + k) % Size : k \in 0 .. n - 1}
After(from, n) == IF from + n < Size THEN from + n ELSE n - (Size - from)

Init ==
  /\ active = FALSE /\ cells = [i \in 0 .. Size - 1 |-> Silence]
  /\ read = 0 /\ write = 0 /\ flush_gen = 0 /\ acked = 0
  /\ last = <<Silence, Silence>>
  /\ upc = "idle" /\ num = 0 /\ announcing = FALSE
  /\ apc = "idle" /\ left = 0 /\ ar = 0 /\ aw = 0 /\ todo = 0
  /\ sent = 0 /\ heard = 0 /\ mark = [g \in 0 .. MaxFlushes |-> 0]
  /\ underfoot = FALSE

-----------------------------------------------------------------------------
(* The emulation thread *)

\* sample_buffer_upload loads both indices; the cells it copies to are in
\* pieces until the copy is complete.
Upload(len) ==
  /\ upc = "idle"
  /\ active
  /\ num' = Whole(len, Free(read, write))
  /\ num' > 0
  /\ sent + num' <= MaxSent
  /\ cells' = [i \in DOMAIN cells |-> IF i \in Span(write, num') THEN Torn
                                      ELSE cells[i]]
  /\ upc' = "copy"
  /\ UNCHANGED <<active, read, write, flush, last, announcing, mixer, history>>

Copy ==
  /\ upc = "copy"
  /\ cells' = [i \in DOMAIN cells |->
                 IF i \in Span(write, num) THEN sent + 1 + ((i - write) % Size)
                 ELSE cells[i]]
  /\ upc' = "publish"
  /\ UNCHANGED <<active, read, write, flush, last, num, announcing, mixer, history>>

Publish ==
  /\ upc = "publish"
  /\ write' = After(write, num)
  /\ sent' = sent + num
  /\ num' = 0
  /\ upc' = "idle"
  /\ UNCHANGED <<active, cells, read, flush, last, announcing, mixer, heard,
                 mark, underfoot>>

\* Mutant: the backlog of a live slot is dropped from the emulation thread.
FlushUnderneath ==
  /\ upc = "idle"
  /\ active
  /\ read' = write
  /\ mark' = [mark EXCEPT ![flush_gen] = sent]
  /\ UNCHANGED <<active, cells, write, flush, last, uploader, mixer, sent, heard,
                 underfoot>>

\* audio_mixer_register_source with another layout for a live source, and
\* audio_mixer_clear_buffers: the backlog is to be dropped.
RequestFlush ==
  /\ upc = "idle"
  /\ active
  /\ flush_gen < MaxFlushes
  /\ flush_gen' = flush_gen + 1
  /\ mark' = [mark EXCEPT ![flush_gen + 1] = sent]
  /\ UNCHANGED <<active, ring, acked, last, uploader, mixer, sent, heard, underfoot>>

\* audio_mixer_register_source of a source that is not live
Register ==
  /\ upc = "idle"
  /\ ~active
  /\ announcing' = TRUE
  /\ upc' = "clear"
  /\ UNCHANGED <<active, ring, flush, last, num, mixer, history>>

\* audio_mixer_unregister_source
Unregister ==
  /\ upc = "idle"
  /\ active' = FALSE
  /\ announcing' = FALSE
  /\ upc' = "clear"
  /\ UNCHANGED <<ring, flush, last, num, mixer, history>>

\* The audio thread is past its test of active and has not left the slot.
InSlot == apc \in {"flush", "seek", "drop", "backlog", "skip",
                   "measure", "take", "publish", "recall", "fade"}

\* sample_buffer_reinit, store by store
Clear ==
  /\ upc = "clear"
  /\ cells' = [i \in DOMAIN cells |-> Silence]
  /\ underfoot' = InSlot
  /\ upc' = "rewind read"
  /\ UNCHANGED <<active, read, write, flush, last, num, announcing, mixer, sent,
                 heard, mark>>

RewindRead ==
  /\ upc = "rewind read"
  /\ read' = 0
  /\ upc' = "rewind write"
  /\ UNCHANGED <<active, cells, write, flush, last, num, announcing, mixer, history>>

RewindWrite ==
  /\ upc = "rewind write"
  /\ write' = 0
  /\ upc' = "forget"
  /\ UNCHANGED <<active, cells, read, flush, last, num, announcing, mixer, history>>

Forget ==
  /\ upc = "forget"
  /\ flush_gen' = 0
  /\ mark' = [mark EXCEPT ![0] = sent]
  /\ upc' = "unack"
  /\ UNCHANGED <<active, ring, acked, last, num, announcing, mixer, sent, heard,
                 underfoot>>

Unack ==
  /\ upc = "unack"
  /\ acked' = 0
  /\ last' = <<Silence, Silence>>
  /\ upc' = IF announcing THEN "activate" ELSE "idle"
  /\ UNCHANGED <<active, ring, flush_gen, num, announcing, mixer, history>>

Activate ==
  /\ upc = "activate"
  /\ active' = TRUE
  /\ upc' = "idle"
  /\ UNCHANGED <<ring, flush, last, num, announcing, mixer, history>>

-----------------------------------------------------------------------------
(* The audio thread: audio_mixer_get_samples *)

Callback(n) ==
  /\ apc = "idle"
  /\ left' = n
  /\ apc' = "poll"
  /\ UNCHANGED <<active, ring, flush, last, uploader, ar, aw, todo, history>>

\* No slot has a sample: silence, and nothing to fade from.
PollSilent ==
  /\ apc = "poll"
  /\ active => read = write
  /\ last' = <<Silence, Silence>>
  /\ left' = 0
  /\ apc' = "idle"
  /\ UNCHANGED <<active, ring, flush, uploader, ar, aw, todo, history>>

\* This slot or another one has.
PollFilled ==
  /\ apc = "poll"
  /\ apc' = IF active THEN "flush" ELSE "chunk"
  /\ UNCHANGED <<active, ring, flush, last, uploader, left, ar, aw, todo, history>>

\* sample_buffer_check_flush
CheckFlush ==
  /\ apc = "flush"
  /\ acked' = flush_gen
  /\ apc' = IF acked = flush_gen THEN "backlog" ELSE "seek"
  /\ UNCHANGED <<active, ring, flush_gen, last, uploader, left, ar, aw, todo, history>>

Seek ==
  /\ apc = "seek"
  /\ aw' = write
  /\ apc' = "drop"
  /\ UNCHANGED <<active, ring, flush, last, uploader, left, ar, todo, history>>

Drop ==
  /\ apc = "drop"
  /\ read' = aw
  /\ last' = <<Silence, Silence>>
  /\ apc' = "backlog"
  /\ UNCHANGED <<active, cells, write, flush, uploader, left, ar, aw, todo, history>>

\* The backlog that is too long to catch up with is skipped.
Target == Smaller(left + Cushion, Size - 2)

Measure ==
  /\ apc = "backlog"
  /\ aw' = write
  /\ LET filled == Filled(read, write)
         excess == IF filled > Target THEN Even(filled - Target) ELSE 0
     IN  ar' = (read + excess) % Size
  /\ apc' = IF ar' = read THEN "chunk" ELSE "skip"
  /\ UNCHANGED <<active, ring, flush, last, uploader, left, todo, history>>

Skip ==
  /\ apc = "skip"
  /\ read' = ar
  /\ apc' = "chunk"
  /\ UNCHANGED <<active, cells, write, flush, last, uploader, left, ar, aw, todo,
                 history>>

\* One chunk of the accumulator, if the slot is still live
ChunkSize == Smaller(left, Accumulator)

LeaveSlot ==
  /\ left' = left - ChunkSize
  /\ apc' = IF left' = 0 THEN "idle" ELSE "chunk"

SkipChunk ==
  /\ apc = "chunk"
  /\ ~active
  /\ LeaveSlot
  /\ UNCHANGED <<active, ring, flush, last, uploader, ar, aw, todo, history>>

EnterChunk ==
  /\ apc = "chunk"
  /\ active
  /\ apc' = "measure"
  /\ UNCHANGED <<active, ring, flush, last, uploader, left, ar, aw, todo, history>>

\* Mutant: a drain waits until it can fill its chunk.
DrainFullChunks ==
  /\ apc = "measure"
  /\ ar' = read /\ aw' = write
  /\ todo' = IF Filled(read, write) < ChunkSize THEN 0 ELSE ChunkSize
  /\ apc' = IF todo' = 0 THEN "fade" ELSE "take"
  /\ UNCHANGED <<active, ring, flush, last, uploader, left, history>>

\* sample_buffer_drain_to: the indices, the samples, the new read_index
Drain ==
  /\ apc = "measure"
  /\ ar' = read /\ aw' = write
  /\ todo' = Whole(ChunkSize, Filled(read, write))
  /\ apc' = IF todo' = 0 THEN "fade" ELSE "take"
  /\ UNCHANGED <<active, ring, flush, last, uploader, left, history>>

Take ==
  /\ apc = "take"
  /\ heard' = cells[(ar + 1) % Size]
  /\ ar' = (ar + 2) % Size
  /\ todo' = todo - 2
  /\ apc' = IF todo' = 0 THEN "publish" ELSE "take"
  /\ UNCHANGED <<active, ring, flush, last, uploader, left, aw, sent, mark, underfoot>>

PublishRead ==
  /\ apc = "publish"
  /\ read' = ar
  /\ apc' = "recall"
  /\ UNCHANGED <<active, cells, write, flush, last, uploader, left, ar, aw, todo,
                 history>>

\* last_left and last_right are fetched from the ring after its cells were
\* given back.
Recall ==
  /\ apc = "recall"
  /\ last' = <<cells[(ar - 2) % Size], cells[(ar - 1) % Size]>>
  /\ apc' = "fade"
  /\ UNCHANGED <<active, ring, flush, uploader, left, ar, aw, todo, history>>

\* What is missing of the chunk fades from the last frame, in the end to zero.
Fade ==
  /\ apc = "fade"
  /\ last' \in {last, <<Silence, Silence>>}
  /\ LeaveSlot
  /\ UNCHANGED <<active, ring, flush, uploader, ar, aw, todo, history>>

-----------------------------------------------------------------------------

EmulationStep ==
  \/ Copy \/ Publish \/ Clear \/ RewindRead \/ RewindWrite \/ Forget \/ Unack
  \/ Activate

HostStep ==
  \/ RequestFlush \/ Register \/ Unregister
  \/ \E len \in Chunks : Upload(len)

AudioStep ==
  \/ PollSilent \/ PollFilled \/ CheckFlush \/ Seek \/ Drop \/ Measure \/ Skip
  \/ SkipChunk \/ EnterChunk \/ Drain \/ Take \/ PublishRead \/ Recall \/ Fade
  \/ \E n \in Requests : Callback(n)

Next == EmulationStep \/ HostStep \/ AudioStep

Spec == Init /\ [][Next]_vars

\* An operation of the mixer runs to its end, and the device keeps asking.
FairSpec == Spec /\ WF_vars(EmulationStep) /\ WF_vars(AudioStep)

-----------------------------------------------------------------------------
(* Properties *)

Indices == {i \in 0 .. Size - 1 : i % 2 = 0}

\* Every index either thread holds is one of the ring's, also while a
\* reinitialisation runs under a drain, and always at a left sample: no copy
\* leaves the ring and the two sides never change places.
TypeOK ==
  /\ active \in BOOLEAN /\ announcing \in BOOLEAN /\ underfoot \in BOOLEAN
  /\ cells \in [0 .. Size - 1 -> Torn .. MaxSent]
  /\ read \in Indices /\ write \in Indices /\ ar \in Indices /\ aw \in Indices
  /\ flush_gen \in 0 .. MaxFlushes /\ acked \in 0 .. MaxFlushes
  /\ last \in (Torn .. MaxSent) \X (Torn .. MaxSent)
  /\ num \in 0 .. Size - 2 /\ todo \in 0 .. Size - 2 /\ left \in Nat
  /\ sent \in 0 .. MaxSent /\ heard \in Torn .. MaxSent

\* The frame a drain takes is a whole one, left then right, newer than every
\* frame taken before it: nothing is heard twice, out of order, or half written,
\* although neither thread ever waits for the other (AudioMixer.cpp 73-75).
WholeFramesInOrder ==
  apc = "take" /\ ~underfoot =>
    /\ cells[ar] > heard
    /\ cells[ar] % 2 = 1
    /\ cells[ar + 1] = cells[ar] + 1

\* Once a flush is acknowledged, nothing uploaded before it was asked for is
\* heard again, neither as a sample nor as the frame a fade starts from.
FlushDropsTheBacklog ==
  /\ apc = "take" /\ ~underfoot => cells[ar] > mark[acked]
  /\ InSlot /\ apc \notin {"flush", "seek", "drop"} /\ ~underfoot =>
       last[2] \in {Silence} \cup (mark[acked] + 1 .. sent)

\* A fade starts from the last frame heard: the cells of that frame still hold
\* it when they are read again, after they were given back to the uploader.
FadeStartsFromTheLastFrame ==
  apc = "fade" /\ ~underfoot => last \in {<<Silence, Silence>>, <<heard - 1, heard>>}

\* What was uploaded leaves the ring, heard or dropped: the device drains the
\* last odd chunk too, and no flush or unregistration strands it.
InRing(k) == \E i \in Span(read, Filled(read, write)) : cells[i] = k
EverySampleLeaves == \A k \in 1 .. MaxSent : InRing(k) ~> ~InRing(k)

\* What is heard is what was uploaded, in whole frames and once, and after a flush
\* nothing older.
RingKeepsTheSound ==
  /\ TypeOK
  /\ WholeFramesInOrder
  /\ FlushDropsTheBacklog
  /\ FadeStartsFromTheLastFrame
=============================================================================
