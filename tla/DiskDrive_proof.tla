--------------------------- MODULE DiskDrive_proof ---------------------------
(***************************************************************************)
(* HeadAndTrackAgree and KeepsTheMedium, for all images, tracks, contents   *)
(* and motor delays, where no driver refuses a track and no drive that owes *)
(* cells is protected.  What the handlers are made of is treated once, for  *)
(* disks w part way through a handler; the actions are built from that.     *)
(***************************************************************************)
EXTENDS DiskDrive, TLAPS

NoFaults == Faults = {}

----------------------------------------------------------------------------
(* The inductive invariant *)

\* One file is in one drive.
Apart(drive) == drive[0].image = NoImage \/ drive[0].image # drive[1].image

\* Cells that are not in the image are in the drive that turns.
Owing(drive, a) == \A d \in Drives : drive[d].dirty => d = a /\ drive[d].timer > 0

\* They are the head's: the drive may write.
Writing(drive) ==
  \A d \in Drives : drive[d].dirty \/ drive[d].unread => drive[d].image \in Images \ ReadOnly /\ ~ drive[d].guarded

\* Disks part way through a handler: a buffer in use is the track under its
\* head, or what the head laid on it.
Fits(w) ==
  /\ w \in Disks
  /\ Apart(w.drive) /\ Writing(w.drive)
  /\ \A d \in Drives :
       /\ w.drive[d].loaded => w.drive[d].image \in Images
       /\ w.drive[d].loaded /\ ~ w.drive[d].dirty =>
            w.drive[d].buffer = w.file[w.drive[d].image][w.drive[d].track]
       /\ w.drive[d].dirty => w.drive[d].loaded
       /\ w.drive[d].unread => ~ w.drive[d].loaded

SavedFits ==
  /\ saved.drive \in [Drives -> Drive]
  /\ saved.active \in Drives /\ saved.motorOn \in BOOLEAN /\ saved.writing \in BOOLEAN
  /\ Apart(saved.drive) /\ Writing(saved.drive) /\ Owing(saved.drive, saved.active)
  /\ \A d \in Drives : saved.drive[d].unread => ~ saved.drive[d].dirty

DiskInv ==
  /\ TypeOK
  /\ Fits(disks) /\ Owing(disks.drive, active)
  /\ SavedFits

----------------------------------------------------------------------------
(* What a track holds *)

LEMMA BlankIs == Blank \in Contents
BY DiskDriveAssumption DEF Blank, Contents

LEMMA NoCellsAre == NoCells \notin Contents
BY DiskDriveAssumption DEF NoCells, Contents

LEMMA AsBytesIs ==
  ASSUME NEW c \in Contents
  PROVE  AsBytes(c) \in Contents
BY DiskDriveAssumption DEF AsBytes, Contents

----------------------------------------------------------------------------
(* What the handlers are made of *)

\* The drives once drive d owes nothing
Cleaned(drive, d) == [drive EXCEPT ![d] = [@ EXCEPT !.dirty = FALSE]]


\* A flush puts what is owed into the image, and nothing else moves.
LEMMA FlushIs ==
  ASSUME NEW w, Fits(w), NEW d \in Drives
  PROVE  /\ Flush(w, d, TRUE) \in Disks
         /\ Flush(w, d, TRUE).drive = Cleaned(w.drive, d)
         /\ w.drive[d].dirty => Flush(w, d, TRUE).file[w.drive[d].image][w.drive[d].track] = w.drive[d].buffer
         /\ \A i \in Images, t \in Tracks :
              ~ w.drive[d].dirty \/ i # w.drive[d].image \/ t # w.drive[d].track =>
                Flush(w, d, TRUE).file[i][t] = w.file[i][t]
<1>0. w \in Disks /\ w.drive \in [Drives -> Drive] /\ w.drive[d] \in Drive
  BY DEF Fits, Disks
<1>1. CASE ~ w.drive[d].dirty
  <2>1. Flush(w, d, TRUE) = w
    BY <1>1 DEF Flush
  <2>2. [w.drive[d] EXCEPT !.dirty = FALSE] = w.drive[d]
    BY <1>0, <1>1 DEF Drive
  <2>. QED BY <1>0, <1>1, <2>1, <2>2 DEF Disks, Cleaned
<1>2. CASE w.drive[d].dirty
  <2>1. w.drive[d].image \in Images /\ ~ Protected(w, d) /\ w.drive[d].image # NoImage
    BY <1>2, DiskDriveAssumption DEF Fits, Writing, Protected
  <2>2. Flush(w, d, TRUE) =
          [w EXCEPT !.drive[d].dirty = FALSE, !.file[w.drive[d].image][w.drive[d].track] = w.drive[d].buffer]
    BY <1>2, <2>1 DEF Flush, WriteTrack
  <2>. DEFINE f == Flush(w, d, TRUE)
  <2>3. /\ f.drive = Cleaned(w.drive, d)
        /\ f.file = [w.file EXCEPT ![w.drive[d].image] = [@ EXCEPT ![w.drive[d].track] = w.drive[d].buffer]]
        /\ f = [drive |-> f.drive, file |-> f.file]
    BY <1>0, <2>2 DEF Disks, Cleaned
  <2>. HIDE DEF f
  <2>4. w.file \in [Images -> [Tracks -> Contents]] /\ w.drive[d].track \in Tracks /\ w.drive[d].buffer \in Contents
    BY <1>0 DEF Disks, Drive
  <2>5. f.drive \in [Drives -> Drive]
    <3>1. [w.drive[d] EXCEPT !.dirty = FALSE] \in Drive
      BY <1>0 DEF Drive
    <3>. QED BY <1>0, <2>3, <3>1 DEF Cleaned
  <2>6. f.file \in [Images -> [Tracks -> Contents]]
    BY <2>1, <2>3, <2>4
  <2>7. f \in Disks
    BY <2>3, <2>5, <2>6 DEF Disks
  <2>8. f.file[w.drive[d].image][w.drive[d].track] = w.drive[d].buffer
    BY <2>1, <2>3, <2>4
  <2>9. \A i \in Images, t \in Tracks :
          i # w.drive[d].image \/ t # w.drive[d].track => f.file[i][t] = w.file[i][t]
    BY <2>1, <2>3, <2>4
  <2>. QED BY <1>2, <2>3, <2>7, <2>8, <2>9 DEF f
<1>. QED BY <1>1, <1>2

LEMMA FlushFits ==
  ASSUME NEW w, Fits(w), NEW d \in Drives
  PROVE  /\ Fits(Flush(w, d, TRUE))
         /\ Flush(w, d, TRUE).drive = Cleaned(w.drive, d)
<1>. DEFINE f == Flush(w, d, TRUE)
<1>1. /\ f \in Disks /\ f.drive = Cleaned(w.drive, d)
      /\ w.drive[d].dirty => f.file[w.drive[d].image][w.drive[d].track] = w.drive[d].buffer
      /\ \A i \in Images, t \in Tracks :
           ~ w.drive[d].dirty \/ i # w.drive[d].image \/ t # w.drive[d].track => f.file[i][t] = w.file[i][t]
  BY FlushIs DEF f
<1>. HIDE DEF f
<1>2. w.drive \in [Drives -> Drive]
  BY DEF Fits, Disks
<1>3. Apart(f.drive) /\ Writing(f.drive)
  BY <1>1, <1>2 DEF Cleaned, Apart, Writing, Drives, Drive, Fits
<1>4. ASSUME NEW e \in Drives
      PROVE  /\ f.drive[e].loaded => f.drive[e].image \in Images
             /\ f.drive[e].loaded /\ ~ f.drive[e].dirty =>
                  f.drive[e].buffer = f.file[f.drive[e].image][f.drive[e].track]
             /\ f.drive[e].dirty => f.drive[e].loaded
             /\ f.drive[e].unread => ~ f.drive[e].loaded
  <2>1. /\ f.drive[e].image = w.drive[e].image /\ f.drive[e].track = w.drive[e].track
        /\ f.drive[e].buffer = w.drive[e].buffer /\ f.drive[e].loaded = w.drive[e].loaded
        /\ f.drive[e].unread = w.drive[e].unread
        /\ f.drive[e].track \in Tracks /\ (f.drive[e].dirty <=> w.drive[e].dirty /\ e # d)
    BY <1>1, <1>2 DEF Cleaned, Drive
  <2>2. e # d /\ w.drive[e].image \in Images => w.drive[e].image # w.drive[d].image
    BY DiskDriveAssumption DEF Fits, Apart, Drives
  <2>. QED BY <1>1, <2>1, <2>2 DEF Fits
<1>5. Fits(f)
  BY <1>1, <1>3, <1>4 DEF Fits
<1>. QED BY <1>1, <1>3, <1>5 DEF f

\* The tracks as the guest sees them, part way through a handler
MediumOf(w) == [i \in Images |-> [t \in Tracks |->
  LET over == {d \in Drives : w.drive[d].dirty /\ w.drive[d].image = i /\ w.drive[d].track = t}
  IN  IF over = {} THEN w.file[i][t] ELSE w.drive[CHOOSE d \in over : TRUE].buffer]]

LEMMA MediumIs ==
  ASSUME NEW w, Fits(w), NEW i \in Images, NEW t \in Tracks
  PROVE  /\ \A d \in Drives : w.drive[d].dirty /\ w.drive[d].image = i /\ w.drive[d].track = t =>
              MediumOf(w)[i][t] = w.drive[d].buffer
         /\ (\A d \in Drives : ~ (w.drive[d].dirty /\ w.drive[d].image = i /\ w.drive[d].track = t)) =>
              MediumOf(w)[i][t] = w.file[i][t]
<1>. DEFINE over == {d \in Drives : w.drive[d].dirty /\ w.drive[d].image = i /\ w.drive[d].track = t}
<1>1. MediumOf(w)[i][t] = IF over = {} THEN w.file[i][t] ELSE w.drive[CHOOSE d \in over : TRUE].buffer
  BY DEF MediumOf
<1>2. ASSUME NEW d \in over PROVE over = {d}
  BY DiskDriveAssumption DEF Fits, Apart, Drives
<1>3. ASSUME NEW d \in Drives, w.drive[d].dirty, w.drive[d].image = i, w.drive[d].track = t
      PROVE  MediumOf(w)[i][t] = w.drive[d].buffer
  <2>1. d \in over
    BY <1>3
  <2>2. over = {d}
    BY <1>2, <2>1
  <2>3. (CHOOSE e \in over : TRUE) = d
    BY <2>2
  <2>. QED BY <1>1, <2>1, <2>3
<1>4. ASSUME \A d \in Drives : ~ (w.drive[d].dirty /\ w.drive[d].image = i /\ w.drive[d].track = t)
      PROVE  MediumOf(w)[i][t] = w.file[i][t]
  <2>1. over = {}
    BY <1>4
  <2>. QED BY <1>1, <2>1
<1>. QED BY <1>3, <1>4

LEMMA MediumHasContents ==
  ASSUME NEW w, Fits(w)
  PROVE  MediumOf(w) \in [Images -> [Tracks -> Contents]]
<1>1. \A i \in Images, t \in Tracks : MediumOf(w)[i][t] \in Contents
  <2>. SUFFICES ASSUME NEW i \in Images, NEW t \in Tracks PROVE MediumOf(w)[i][t] \in Contents
    OBVIOUS
  <2>1. \A d \in Drives : w.drive[d].buffer \in Contents
    BY DEF Fits, Disks, Drive
  <2>2. w.file[i][t] \in Contents
    BY DEF Fits, Disks
  <2>. QED BY <2>1, <2>2, MediumIs
<1>. QED BY <1>1 DEF MediumOf

LEMMA MediumsAreEqual ==
  ASSUME NEW w, NEW v, \A i \in Images, t \in Tracks : MediumOf(v)[i][t] = MediumOf(w)[i][t]
  PROVE  MediumOf(v) = MediumOf(w)
BY DEF MediumOf

\* The disks and their protection stay with the drives.
SameDisks(w, v) == \A e \in Drives : v.drive[e].image = w.drive[e].image /\ v.drive[e].guarded = w.drive[e].guarded

LEMMA FlushKeeps ==
  ASSUME NEW w, Fits(w), NEW d \in Drives
  PROVE  /\ MediumOf(Flush(w, d, TRUE)) = MediumOf(w)
         /\ SameDisks(w, Flush(w, d, TRUE))
         /\ \A a : Owing(w.drive, a) => Owing(Flush(w, d, TRUE).drive, a)
<1>. DEFINE f == Flush(w, d, TRUE)
<1>1. /\ f \in Disks /\ f.drive = Cleaned(w.drive, d)
      /\ w.drive[d].dirty => f.file[w.drive[d].image][w.drive[d].track] = w.drive[d].buffer
      /\ \A i \in Images, t \in Tracks :
           ~ w.drive[d].dirty \/ i # w.drive[d].image \/ t # w.drive[d].track => f.file[i][t] = w.file[i][t]
  BY FlushIs
<1>2. Fits(f)
  BY FlushFits
<1>. HIDE DEF f
<1>3. w.drive \in [Drives -> Drive]
  BY DEF Fits, Disks
<1>4. \A e \in Drives :
        /\ f.drive[e].image = w.drive[e].image /\ f.drive[e].track = w.drive[e].track
        /\ f.drive[e].buffer = w.drive[e].buffer /\ f.drive[e].timer = w.drive[e].timer
        /\ f.drive[e].guarded = w.drive[e].guarded
        /\ (f.drive[e].dirty <=> w.drive[e].dirty /\ e # d)
  BY <1>1, <1>3 DEF Cleaned, Drive
<1>5. ASSUME NEW i \in Images, NEW t \in Tracks PROVE MediumOf(f)[i][t] = MediumOf(w)[i][t]
  <2>1. CASE \E e \in Drives : w.drive[e].dirty /\ w.drive[e].image = i /\ w.drive[e].track = t
    <3>1. PICK e \in Drives : w.drive[e].dirty /\ w.drive[e].image = i /\ w.drive[e].track = t
      BY <2>1
    <3>2. MediumOf(w)[i][t] = w.drive[e].buffer
      BY <3>1, MediumIs
    <3>3. CASE e = d
      <4>1. f.file[i][t] = w.drive[d].buffer
        BY <1>1, <3>1, <3>3
      <4>2. \A g \in Drives : ~ (f.drive[g].dirty /\ f.drive[g].image = i /\ f.drive[g].track = t)
        BY <1>4, <3>1, <3>3, DiskDriveAssumption DEF Fits, Apart, Drives
      <4>. QED BY <1>2, <3>2, <3>3, <4>1, <4>2, MediumIs
    <3>4. CASE e # d
      BY <1>2, <1>4, <3>1, <3>2, <3>4, MediumIs
    <3>. QED BY <3>3, <3>4
  <2>2. CASE \A e \in Drives : ~ (w.drive[e].dirty /\ w.drive[e].image = i /\ w.drive[e].track = t)
    <3>1. MediumOf(w)[i][t] = w.file[i][t]
      BY <2>2, MediumIs
    <3>2. f.file[i][t] = w.file[i][t]
      BY <1>1, <2>2
    <3>. QED BY <1>2, <1>4, <2>2, <3>1, <3>2, MediumIs
  <2>. QED BY <2>1, <2>2
<1>6. MediumOf(f) = MediumOf(w)
  BY <1>5, MediumsAreEqual
<1>7. SameDisks(w, f) /\ \A a : Owing(w.drive, a) => Owing(f.drive, a)
  BY <1>4 DEF SameDisks, Owing
<1>. QED BY <1>6, <1>7 DEF f

\* One drive replaced, and nothing owed by it before or after
Placed(w, d, dr) == [w EXCEPT !.drive[d] = dr]

LEMMA PlacedIs ==
  ASSUME NEW w, w \in Disks, NEW d \in Drives, NEW dr \in Drive
  PROVE  /\ Placed(w, d, dr) \in Disks /\ Placed(w, d, dr).file = w.file
         /\ Placed(w, d, dr).drive[d] = dr
         /\ \A e \in Drives : e # d => Placed(w, d, dr).drive[e] = w.drive[e]
<1>1. Placed(w, d, dr) = [drive |-> [w.drive EXCEPT ![d] = dr], file |-> w.file]
  BY DEF Placed, Disks
<1>2. [w.drive EXCEPT ![d] = dr] \in [Drives -> Drive]
  BY DEF Disks
<1>. QED BY <1>1, <1>2 DEF Disks

LEMMA PlacedFits ==
  ASSUME NEW w, Fits(w), NEW d \in Drives, NEW dr \in Drive, ~ w.drive[d].dirty, ~ dr.dirty,
         dr.unread => ~ dr.loaded /\ dr.image \in Images \ ReadOnly /\ ~ dr.guarded,
         dr.image = NoImage \/ \A e \in Drives : e # d => dr.image # w.drive[e].image,
         dr.loaded => dr.image \in Images /\ dr.buffer = w.file[dr.image][dr.track]
  PROVE  /\ Fits(Placed(w, d, dr))
         /\ MediumOf(Placed(w, d, dr)) = MediumOf(w)
         /\ \A a : Owing(w.drive, a) => Owing(Placed(w, d, dr).drive, a)
<1>. DEFINE p == Placed(w, d, dr)
<1>0. w \in Disks
  BY DEF Fits
<1>1. /\ p \in Disks /\ p.file = w.file /\ p.drive[d] = dr
      /\ \A e \in Drives : e # d => p.drive[e] = w.drive[e]
  BY <1>0, PlacedIs
<1>. HIDE DEF p
<1>2. Apart(p.drive)
  BY <1>1, DiskDriveAssumption DEF Fits, Apart, Drives
<1>3. Writing(p.drive) /\ \A a : Owing(w.drive, a) => Owing(p.drive, a)
  BY <1>1 DEF Fits, Writing, Owing
<1>4. Fits(p)
  BY <1>1, <1>2, <1>3 DEF Fits
<1>5. ASSUME NEW i \in Images, NEW t \in Tracks PROVE MediumOf(p)[i][t] = MediumOf(w)[i][t]
  <2>1. \A e \in Drives : p.drive[e].dirty <=> w.drive[e].dirty
    BY <1>1
  <2>2. CASE \E e \in Drives : w.drive[e].dirty /\ w.drive[e].image = i /\ w.drive[e].track = t
    <3>1. PICK e \in Drives : w.drive[e].dirty /\ w.drive[e].image = i /\ w.drive[e].track = t
      BY <2>2
    <3>2. p.drive[e] = w.drive[e]
      BY <1>1, <3>1
    <3>. QED BY <1>4, <3>1, <3>2, MediumIs
  <2>3. CASE \A e \in Drives : ~ (w.drive[e].dirty /\ w.drive[e].image = i /\ w.drive[e].track = t)
    <3>1. \A e \in Drives : ~ (p.drive[e].dirty /\ p.drive[e].image = i /\ p.drive[e].track = t)
      BY <1>1, <2>3
    <3>. QED BY <1>1, <1>4, <2>3, <3>1, MediumIs
  <2>. QED BY <2>2, <2>3
<1>6. MediumOf(p) = MediumOf(w)
  BY <1>5, MediumsAreEqual
<1>. QED BY <1>3, <1>4, <1>6 DEF p

\* The drive as the head leaves it for track t
Moved(dr, t) ==
  [dr EXCEPT !.track = t, !.loaded = FALSE, !.buffer = IF dr.dirty THEN @ ELSE Blank]

LEMMA MoveKeeps ==
  ASSUME NEW w, Fits(w), NEW d \in Drives, NEW t \in Tracks
  PROVE  /\ Fits(Move(w, d, t, TRUE)) /\ MediumOf(Move(w, d, t, TRUE)) = MediumOf(w)
         /\ SameDisks(w, Move(w, d, t, TRUE))
         /\ \A a : Owing(w.drive, a) => Owing(Move(w, d, t, TRUE).drive, a)
<1>1. CASE t = w.drive[d].track
  <2>1. Move(w, d, t, TRUE) = w
    BY <1>1 DEF Move
  <2>. QED BY <2>1 DEF SameDisks
<1>2. CASE t # w.drive[d].track
  <2>. DEFINE f == Flush(w, d, TRUE)
              dr == Moved(f.drive[d], t)
  <2>1. Fits(f) /\ f.drive = Cleaned(w.drive, d) /\ MediumOf(f) = MediumOf(w) /\ SameDisks(w, f)
        /\ \A a : Owing(w.drive, a) => Owing(f.drive, a)
    BY FlushFits, FlushKeeps
  <2>2. Move(w, d, t, TRUE) = [f EXCEPT !.drive[d] = dr]
    BY <1>2 DEF Move, Moved
  <2>. HIDE DEF f
  <2>3. f.drive[d] \in Drive /\ ~ f.drive[d].dirty
    <3>1. w.drive \in [Drives -> Drive] /\ f.drive \in [Drives -> Drive]
      BY <2>1 DEF Fits, Disks
    <3>. QED BY <2>1, <3>1 DEF Cleaned, Drive
  <2>4. /\ dr \in Drive /\ ~ dr.dirty /\ ~ dr.loaded /\ dr.unread = f.drive[d].unread
        /\ dr.image = f.drive[d].image /\ dr.guarded = f.drive[d].guarded
    BY <2>3, BlankIs DEF Moved, Drive
  <2>. HIDE DEF dr
  <2>5. dr.image = NoImage \/ \A e \in Drives : e # d => dr.image # f.drive[e].image
    BY <2>1, <2>4 DEF Fits, Apart, Drives
  <2>9. dr.unread => ~ dr.loaded /\ dr.image \in Images \ ReadOnly /\ ~ dr.guarded
    BY <2>1, <2>4 DEF Fits, Writing
  <2>6. /\ Fits(Placed(f, d, dr)) /\ MediumOf(Placed(f, d, dr)) = MediumOf(f)
        /\ \A a : Owing(f.drive, a) => Owing(Placed(f, d, dr).drive, a)
    BY <2>1, <2>3, <2>4, <2>5, <2>9, PlacedFits
  <2>7. SameDisks(w, Placed(f, d, dr))
    BY <2>1, <2>4, PlacedIs DEF SameDisks, Fits
  <2>8. Move(w, d, t, TRUE) = Placed(f, d, dr)
    BY <2>2 DEF Placed
  <2>. QED BY <2>1, <2>6, <2>7, <2>8
<1>. QED BY <1>1, <1>2

\* The medium with cells c on one track, and the drive that laid them there
LaidOn(m, i, t, c) == [m EXCEPT ![i][t] = c]
Laid(dr, c) == [dr EXCEPT !.buffer = c, !.dirty = TRUE]

LEMMA LaidOnIs ==
  ASSUME NEW m \in [Images -> [Tracks -> Contents]], NEW i0 \in Images, NEW t0 \in Tracks, NEW c \in Contents
  PROVE  /\ LaidOn(m, i0, t0, c) \in [Images -> [Tracks -> Contents]]
         /\ LaidOn(m, i0, t0, c)[i0][t0] = c
         /\ \A i \in Images, t \in Tracks : i # i0 \/ t # t0 => LaidOn(m, i0, t0, c)[i][t] = m[i][t]
BY DEF LaidOn

LEMMA LaidElsewhere ==
  ASSUME NEW m \in [Images -> [Tracks -> Contents]], NEW i0 \in Images, NEW t0 \in Tracks, NEW c \in Contents,
         NEW i \in Images, NEW t \in Tracks, ~ (i = i0 /\ t = t0)
  PROVE  LaidOn(m, i0, t0, c)[i][t] = m[i][t]
<1>1. m[i0] \in [Tracks -> Contents] /\ m[i] \in [Tracks -> Contents]
  OBVIOUS
<1>2. LaidOn(m, i0, t0, c)[i] = IF i = i0 THEN [m[i0] EXCEPT ![t0] = c] ELSE m[i]
  BY DEF LaidOn
<1>3. CASE i = i0
  BY <1>1, <1>2, <1>3
<1>4. CASE i # i0
  BY <1>2, <1>4
<1>. QED BY <1>3, <1>4

LEMMA MediumsMeet ==
  ASSUME NEW m \in [Images -> [Tracks -> Contents]], NEW n \in [Images -> [Tracks -> Contents]],
         \A i \in Images, t \in Tracks : m[i][t] = n[i][t]
  PROVE  m = n
<1>1. ASSUME NEW i \in Images PROVE m[i] = n[i]
  <2>1. m[i] \in [Tracks -> Contents] /\ n[i] \in [Tracks -> Contents]
    OBVIOUS
  <2>. QED BY <2>1
<1>. QED BY <1>1

LEMMA LaidFits ==
  ASSUME NEW w, Fits(w), NEW d \in Drives, NEW c \in Contents,
         w.drive[d].loaded, w.drive[d].image \in Images \ ReadOnly, ~ w.drive[d].guarded
  PROVE  /\ Fits(Placed(w, d, Laid(w.drive[d], c)))
         /\ SameDisks(w, Placed(w, d, Laid(w.drive[d], c)))
         /\ Owing(w.drive, d) /\ w.drive[d].timer > 0 => Owing(Placed(w, d, Laid(w.drive[d], c)).drive, d)
         /\ MediumOf(Placed(w, d, Laid(w.drive[d], c))) =
              LaidOn(MediumOf(w), w.drive[d].image, w.drive[d].track, c)
<1>. DEFINE dr == Laid(w.drive[d], c)
            p == Placed(w, d, dr)
<1>0. w \in Disks /\ w.drive[d] \in Drive
  BY DEF Fits, Disks
<1>1. /\ dr \in Drive /\ dr.dirty /\ dr.loaded /\ dr.buffer = c /\ dr.image = w.drive[d].image
      /\ dr.unread = w.drive[d].unread
      /\ dr.track = w.drive[d].track /\ dr.timer = w.drive[d].timer /\ dr.guarded = w.drive[d].guarded
  BY <1>0 DEF Laid, Drive
<1>. HIDE DEF dr
<1>2. /\ p \in Disks /\ p.file = w.file /\ p.drive[d] = dr
      /\ \A e \in Drives : e # d => p.drive[e] = w.drive[e]
  BY <1>0, <1>1, PlacedIs
<1>. HIDE DEF p
<1>3. Apart(p.drive) /\ Writing(p.drive)
  BY <1>1, <1>2 DEF Fits, Apart, Writing, Drives
<1>4. Fits(p)
  BY <1>1, <1>2, <1>3 DEF Fits
<1>5. SameDisks(w, p) /\ (Owing(w.drive, d) /\ w.drive[d].timer > 0 => Owing(p.drive, d))
  BY <1>1, <1>2 DEF SameDisks, Owing
<1>. DEFINE i0 == w.drive[d].image
            t0 == w.drive[d].track
<1>8. i0 \in Images /\ t0 \in Tracks /\ MediumOf(w) \in [Images -> [Tracks -> Contents]]
  BY <1>0, MediumHasContents DEF Drive
<1>9. /\ dr.image = i0 /\ dr.track = t0
      /\ \A e \in Drives : e # d => w.drive[e].image # i0
  BY <1>1, <1>8, DiskDriveAssumption DEF Fits, Apart, Drives
<1>10. w.drive[d].image = i0 /\ w.drive[d].track = t0
  OBVIOUS
<1>. HIDE DEF i0, t0
<1>6. ASSUME NEW i \in Images, NEW t \in Tracks
      PROVE  MediumOf(p)[i][t] = LaidOn(MediumOf(w), i0, t0, c)[i][t]
  <2>2. CASE i = i0 /\ t = t0
    <3>1. LaidOn(MediumOf(w), i0, t0, c)[i][t] = c
      BY <1>8, <2>2, LaidOnIs
    <3>. QED BY <1>1, <1>2, <1>4, <1>9, <2>2, <3>1, MediumIs
  <2>3. CASE ~ (i = i0 /\ t = t0)
    <3>0. LaidOn(MediumOf(w), i0, t0, c)[i][t] = MediumOf(w)[i][t]
      BY <1>8, <2>3, LaidElsewhere
    <3>1. CASE \E e \in Drives : w.drive[e].dirty /\ w.drive[e].image = i /\ w.drive[e].track = t
      <4>1. PICK e \in Drives : w.drive[e].dirty /\ w.drive[e].image = i /\ w.drive[e].track = t
        BY <3>1
      <4>2. p.drive[e] = w.drive[e]
        BY <1>2, <1>10, <2>3, <4>1
      <4>. QED BY <1>4, <3>0, <4>1, <4>2, MediumIs
    <3>2. CASE \A e \in Drives : ~ (w.drive[e].dirty /\ w.drive[e].image = i /\ w.drive[e].track = t)
      <4>1. \A e \in Drives : ~ (p.drive[e].dirty /\ p.drive[e].image = i /\ p.drive[e].track = t)
        BY <1>1, <1>2, <1>9, <2>3, <3>2
      <4>. QED BY <1>2, <1>4, <3>0, <3>2, <4>1, MediumIs
    <3>. QED BY <3>1, <3>2
  <2>. QED BY <2>2, <2>3
<1>7. MediumOf(p) = LaidOn(MediumOf(w), i0, t0, c)
  <2>1. LaidOn(MediumOf(w), i0, t0, c) \in [Images -> [Tracks -> Contents]]
    BY <1>8, LaidOnIs
  <2>2. MediumOf(p) \in [Images -> [Tracks -> Contents]]
    BY <1>4, MediumHasContents
  <2>. QED BY <1>6, <2>1, <2>2, MediumsMeet
<1>. QED BY <1>4, <1>5, <1>7, <1>10 DEF p, dr

\* The drive once its track is under the head: cells that a load owed the track and
\* did not find are owed as the track has them.
Read(w, dr) == [dr EXCEPT !.loaded = TRUE, !.buffer = w.file[dr.image][dr.track],
                          !.dirty = dr.dirty \/ dr.unread, !.unread = FALSE]

\* The track comes in and the medium stays what it was.
LEMMA ReadKeeps ==
  ASSUME NEW w, Fits(w), NEW d \in Drives, w.drive[d].image # NoImage, ~ w.drive[d].loaded,
         w.drive[d].timer > 0, Owing(w.drive, d)
  PROVE  /\ Fits(Placed(w, d, Read(w, w.drive[d]))) /\ SameDisks(w, Placed(w, d, Read(w, w.drive[d])))
         /\ Owing(Placed(w, d, Read(w, w.drive[d])).drive, d)
         /\ MediumOf(Placed(w, d, Read(w, w.drive[d]))) = MediumOf(w)
         /\ Placed(w, d, Read(w, w.drive[d])).drive[d] = Read(w, w.drive[d])
<1>. DEFINE dr == w.drive[d]
            cells == w.file[dr.image][dr.track]
            in == [dr EXCEPT !.loaded = TRUE, !.buffer = cells, !.dirty = FALSE, !.unread = FALSE]
            p == Placed(w, d, in)
<1>0. w \in Disks /\ dr \in Drive
  BY DEF Fits, Disks
<1>1. dr.image \in Images /\ dr.track \in Tracks /\ ~ dr.dirty
  BY <1>0 DEF Drive, Fits
<1>2. cells \in Contents
  BY <1>0, <1>1 DEF Disks
<1>3. /\ in \in Drive /\ ~ in.dirty /\ in.loaded /\ ~ in.unread /\ in.image = dr.image /\ in.track = dr.track
      /\ in.timer = dr.timer /\ in.guarded = dr.guarded /\ in.buffer = cells
  <2>. HIDE DEF cells
  <2>. QED BY <1>0, <1>2 DEF Drive
<1>4. \A e \in Drives : e # d => in.image # w.drive[e].image
  BY <1>1, <1>3, DiskDriveAssumption DEF Fits, Apart, Drives
<1>5. /\ Fits(p) /\ MediumOf(p) = MediumOf(w) /\ Owing(p.drive, d)
  BY <1>1, <1>3, <1>4, PlacedFits
<1>6. p.drive[d] = in /\ p.file = w.file /\ \A e \in Drives : e # d => p.drive[e] = w.drive[e]
  <2>. HIDE DEF in
  <2>. QED BY <1>0, <1>3, PlacedIs
<1>7. SameDisks(w, p)
  BY <1>3, <1>6 DEF SameDisks
<1>8. CASE ~ dr.unread
  <2>1. Read(w, dr) = in
    <3>1. dr.dirty = FALSE /\ dr.unread = FALSE
      BY <1>0, <1>1, <1>8 DEF Drive
    <3>. QED BY <3>1 DEF Read
  <2>. QED BY <1>5, <1>6, <1>7, <2>1
<1>9. CASE dr.unread
  <2>. DEFINE q == Placed(p, d, Laid(p.drive[d], cells))
  <2>1. dr.image \in Images \ ReadOnly /\ ~ dr.guarded
    BY <1>9 DEF Fits, Writing
  <2>2. /\ Fits(q) /\ SameDisks(p, q) /\ Owing(q.drive, d)
        /\ MediumOf(q) = LaidOn(MediumOf(p), dr.image, dr.track, cells)
    <3>. HIDE DEF p, in, cells
    <3>. QED BY <1>2, <1>3, <1>5, <1>6, <2>1, LaidFits
  <2>3. Read(w, dr) = Laid(in, cells)
    <3>1. dr.dirty = FALSE /\ dr.unread = TRUE
      BY <1>0, <1>1, <1>9 DEF Drive
    <3>. QED BY <1>0, <3>1 DEF Read, Laid, Drive
  <2>4. q = Placed(w, d, Read(w, dr))
    <3>1. q = Placed(p, d, Read(w, dr))
      BY <1>6, <2>3
    <3>. QED BY <1>0, <3>1 DEF Placed, Disks
  <2>5. Read(w, dr) \in Drive
    BY <1>2, <1>3, <2>3 DEF Laid, Drive
  <2>6. Placed(w, d, Read(w, dr)).drive[d] = Read(w, dr)
    BY <1>0, <2>5, PlacedIs
  <2>7. MediumOf(p)[dr.image][dr.track] = cells
    <3>1. \A e \in Drives : ~ (p.drive[e].dirty /\ p.drive[e].image = dr.image /\ p.drive[e].track = dr.track)
      BY <1>3, <1>4, <1>6
    <3>. HIDE DEF p
    <3>. QED BY <1>1, <1>5, <1>6, <3>1, MediumIs
  <2>8. LaidOn(MediumOf(p), dr.image, dr.track, cells) = MediumOf(p)
    <3>1. MediumOf(p) \in [Images -> [Tracks -> Contents]]
      BY <1>5, MediumHasContents
    <3>. HIDE DEF p, cells
    <3>. QED BY <1>1, <2>7, <3>1 DEF LaidOn
  <2>9. SameDisks(w, q)
    BY <1>7, <2>2 DEF SameDisks
  <2>. HIDE DEF q, p
  <2>. QED BY <1>5, <2>2, <2>4, <2>6, <2>8, <2>9
<1>. QED BY <1>8, <1>9

\* The sequencer reads a track in and may write it: all that is owed is owed by
\* the drive that turns.
LEMMA TurnKeeps ==
  ASSUME Fits(disks), active \in Drives, Owing(disks.drive, active), NEW c \in Contents \cup {NoCells}
  PROVE  /\ Fits(Turn(c)) /\ Owing(Turn(c).drive, active) /\ SameDisks(disks, Turn(c))
         /\ \/ MediumOf(Turn(c)) = MediumOf(disks)
            \/ /\ c \in Contents
               /\ disks.drive[active].image \in Images \ ReadOnly /\ ~ disks.drive[active].guarded
               /\ MediumOf(Turn(c)) = LaidOn(MediumOf(disks), disks.drive[active].image, disks.drive[active].track, c)
<1>. DEFINE dr == disks.drive[active]
            in == Read(disks, dr)
            read == IF dr.image = NoImage \/ dr.loaded THEN disks ELSE ReadTrack(disks, active)
<1>0. dr \in Drive /\ disks \in Disks
  BY DEF Fits, Disks
<1>1. dr.timer # 0 =>
      /\ Fits(read) /\ SameDisks(disks, read) /\ Owing(read.drive, active) /\ MediumOf(read) = MediumOf(disks)
      /\ read.drive[active].timer = dr.timer /\ read.drive[active].track = dr.track
      /\ read.drive[active].image = dr.image /\ read.drive[active].guarded = dr.guarded
      /\ dr.image # NoImage => read.drive[active].loaded
  <2>1. CASE dr.image = NoImage \/ dr.loaded
    BY <2>1 DEF SameDisks
  <2>2. CASE ~ (dr.image = NoImage \/ dr.loaded)
    <3>1. read = Placed(disks, active, in)
      BY <1>0, <2>2 DEF ReadTrack, Read, Placed, Disks
    <3>2. /\ in.loaded /\ in.image = dr.image /\ in.track = dr.track
          /\ in.timer = dr.timer /\ in.guarded = dr.guarded
      BY <1>0 DEF Read, Drive
    <3>3. dr.timer # 0 => dr.timer > 0
      BY <1>0 DEF Drive
    <3>. QED BY <2>2, <3>1, <3>2, <3>3, ReadKeeps
  <2>. QED BY <2>1, <2>2
<1>. HIDE DEF read
<1>2. Turn(c) = IF dr.timer = 0 THEN disks
                ELSE IF c = NoCells \/ ~ (writing /\ ~ Protected(read, active) /\ read.drive[active].image # NoImage)
                     THEN read ELSE Placed(read, active, Laid(read.drive[active], c))
  BY DEF Turn, read, Placed, Laid
<1>3. CASE dr.timer = 0
  BY <1>2, <1>3 DEF SameDisks
<1>4. CASE dr.timer # 0 /\ (c = NoCells \/ ~ (writing /\ ~ Protected(read, active) /\ read.drive[active].image # NoImage))
  BY <1>1, <1>2, <1>4
<1>5. CASE dr.timer # 0 /\ ~ (c = NoCells \/ ~ (writing /\ ~ Protected(read, active) /\ read.drive[active].image # NoImage))
  <2>1. Turn(c) = Placed(read, active, Laid(read.drive[active], c)) /\ c \in Contents
    BY <1>2, <1>5
  <2>2. dr.image \in Images \ ReadOnly /\ ~ dr.guarded /\ dr.timer > 0 /\ read.drive[active].loaded
    BY <1>0, <1>1, <1>5 DEF Protected, Drive
  <2>3. /\ Fits(Turn(c)) /\ SameDisks(read, Turn(c)) /\ Owing(Turn(c).drive, active)
        /\ MediumOf(Turn(c)) = LaidOn(MediumOf(read), dr.image, dr.track, c)
    BY <1>1, <2>1, <2>2, LaidFits
  <2>. QED BY <1>1, <2>1, <2>2, <2>3 DEF SameDisks
<1>. QED BY <1>3, <1>4, <1>5

\* Settings of a drive that move no cell
Timed(dr, n) == [dr EXCEPT !.timer = n]

LEMMA TimedFits ==
  ASSUME NEW w, Fits(w), NEW d \in Drives, NEW n \in 0 .. Delay
  PROVE  /\ Fits(Placed(w, d, Timed(w.drive[d], n)))
         /\ SameDisks(w, Placed(w, d, Timed(w.drive[d], n)))
         /\ MediumOf(Placed(w, d, Timed(w.drive[d], n))) = MediumOf(w)
         /\ Placed(w, d, Timed(w.drive[d], n)).drive[d].timer = n
         /\ Placed(w, d, Timed(w.drive[d], n)).drive[d].dirty = w.drive[d].dirty
         /\ \A e \in Drives : e # d => Placed(w, d, Timed(w.drive[d], n)).drive[e] = w.drive[e]
         /\ \A a : Owing(w.drive, a) /\ (w.drive[d].dirty => n > 0) => Owing(Placed(w, d, Timed(w.drive[d], n)).drive, a)
<1>. DEFINE dr == Timed(w.drive[d], n)
            p == Placed(w, d, dr)
<1>0. w \in Disks /\ w.drive[d] \in Drive
  BY DEF Fits, Disks
<1>1. /\ dr \in Drive /\ dr.dirty = w.drive[d].dirty /\ dr.loaded = w.drive[d].loaded
      /\ dr.unread = w.drive[d].unread
      /\ dr.buffer = w.drive[d].buffer /\ dr.image = w.drive[d].image
      /\ dr.track = w.drive[d].track /\ dr.timer = n /\ dr.guarded = w.drive[d].guarded
  BY <1>0 DEF Timed, Drive
<1>. HIDE DEF dr
<1>2. /\ p \in Disks /\ p.file = w.file /\ p.drive[d] = dr
      /\ \A e \in Drives : e # d => p.drive[e] = w.drive[e]
  BY <1>0, <1>1, PlacedIs
<1>. HIDE DEF p
<1>3. \A e \in Drives : /\ p.drive[e].image = w.drive[e].image /\ p.drive[e].track = w.drive[e].track
                        /\ p.drive[e].buffer = w.drive[e].buffer /\ p.drive[e].dirty = w.drive[e].dirty
                        /\ p.drive[e].loaded = w.drive[e].loaded /\ p.drive[e].guarded = w.drive[e].guarded
                        /\ p.drive[e].unread = w.drive[e].unread
  BY <1>1, <1>2
<1>4. Apart(p.drive) /\ Writing(p.drive)
  BY <1>3 DEF Fits, Apart, Writing, Drives
<1>5. Fits(p)
  BY <1>2, <1>3, <1>4 DEF Fits
<1>6. MediumOf(p) = MediumOf(w)
  <2>1. ASSUME NEW i \in Images, NEW t \in Tracks PROVE MediumOf(p)[i][t] = MediumOf(w)[i][t]
    <3>1. CASE \E e \in Drives : w.drive[e].dirty /\ w.drive[e].image = i /\ w.drive[e].track = t
      <4>1. PICK e \in Drives : w.drive[e].dirty /\ w.drive[e].image = i /\ w.drive[e].track = t
        BY <3>1
      <4>2. p.drive[e].dirty /\ p.drive[e].image = i /\ p.drive[e].track = t /\ p.drive[e].buffer = w.drive[e].buffer
        BY <1>3, <4>1
      <4>. QED BY <1>5, <4>1, <4>2, MediumIs
    <3>2. CASE \A e \in Drives : ~ (w.drive[e].dirty /\ w.drive[e].image = i /\ w.drive[e].track = t)
      <4>1. \A e \in Drives : ~ (p.drive[e].dirty /\ p.drive[e].image = i /\ p.drive[e].track = t)
        BY <1>3, <3>2
      <4>. QED BY <1>2, <1>5, <3>2, <4>1, MediumIs
    <3>. QED BY <3>1, <3>2
  <2>. QED BY <2>1, MediumsAreEqual
<1>7. SameDisks(w, p)
  BY <1>3 DEF SameDisks
<1>8. \A a : Owing(w.drive, a) /\ (w.drive[d].dirty => n > 0) => Owing(p.drive, a)
  BY <1>1, <1>2 DEF Owing
<1>. QED BY <1>1, <1>2, <1>5, <1>6, <1>7, <1>8 DEF p, dr

LEMMA SameDisksChain ==
  ASSUME NEW u, NEW v, NEW w, SameDisks(u, v), SameDisks(v, w)
  PROVE  SameDisks(u, w)
BY DEF SameDisks

LEMMA PowerUpKeeps ==
  ASSUME NEW w, Fits(w), NEW d \in Drives, NEW on \in BOOLEAN, NEW t \in Tracks
  PROVE  /\ Fits(PowerUp(w, d, on, t, TRUE)) /\ MediumOf(PowerUp(w, d, on, t, TRUE)) = MediumOf(w)
         /\ SameDisks(w, PowerUp(w, d, on, t, TRUE))
         /\ \A a : Owing(w.drive, a) => Owing(PowerUp(w, d, on, t, TRUE).drive, a)
<1>. DEFINE up == Placed(w, d, Timed(w.drive[d], Delay))
<1>1. /\ Fits(up) /\ SameDisks(w, up) /\ MediumOf(up) = MediumOf(w)
      /\ \A a : Owing(w.drive, a) => Owing(up.drive, a)
  <2>1. Delay \in 0 .. Delay /\ Delay > 0
    BY DiskDriveAssumption
  <2>. QED BY <2>1, TimedFits
<1>2. PowerUp(w, d, on, t, TRUE) =
        IF ~ on THEN w ELSE IF w.drive[d].timer = 0 THEN Move(up, d, t, TRUE) ELSE up
  BY DEF PowerUp, Placed, Timed
<1>. HIDE DEF up
<1>3. /\ Fits(Move(up, d, t, TRUE)) /\ MediumOf(Move(up, d, t, TRUE)) = MediumOf(up)
      /\ SameDisks(w, Move(up, d, t, TRUE))
      /\ \A a : Owing(up.drive, a) => Owing(Move(up, d, t, TRUE).drive, a)
  BY <1>1, MoveKeeps, SameDisksChain
<1>4. SameDisks(w, w)
  BY DEF SameDisks
<1>. QED BY <1>1, <1>2, <1>3, <1>4

LEMMA DeselectKeeps ==
  ASSUME NEW w, Fits(w), active \in Drives, Owing(w.drive, active)
  PROVE  /\ Fits(Deselect(w, TRUE)) /\ MediumOf(Deselect(w, TRUE)) = MediumOf(w)
         /\ SameDisks(w, Deselect(w, TRUE)) /\ \A a : Owing(Deselect(w, TRUE).drive, a)
<1>. DEFINE f == Flush(w, active, TRUE)
<1>1. Fits(f) /\ f.drive = Cleaned(w.drive, active) /\ MediumOf(f) = MediumOf(w) /\ SameDisks(w, f)
      /\ Owing(f.drive, active)
  BY FlushFits, FlushKeeps
<1>2. Deselect(w, TRUE) = Placed(f, active, Timed(f.drive[active], 0))
  BY DEF Deselect, Placed, Timed
<1>3. ~ f.drive[active].dirty
  <2>1. w.drive \in [Drives -> Drive]
    BY DEF Fits, Disks
  <2>. QED BY <1>1, <2>1 DEF Cleaned, Drive
<1>. HIDE DEF f
<1>4. 0 \in 0 .. Delay
  BY DiskDriveAssumption
<1>. DEFINE p == Placed(f, active, Timed(f.drive[active], 0))
<1>5. /\ Fits(p) /\ MediumOf(p) = MediumOf(f) /\ SameDisks(f, p)
      /\ p.drive[active].dirty = f.drive[active].dirty
      /\ \A e \in Drives : e # active => p.drive[e] = f.drive[e]
  BY <1>1, <1>4, TimedFits
<1>. HIDE DEF p
<1>6. \A a : Owing(p.drive, a)
  BY <1>1, <1>3, <1>5 DEF Owing
<1>7. SameDisks(w, p)
  BY <1>1, <1>5, SameDisksChain
<1>8. Deselect(w, TRUE) = p
  BY <1>2 DEF p
<1>. QED BY <1>1, <1>5, <1>6, <1>7, <1>8

LEMMA CountDownKeeps ==
  ASSUME NEW w, Fits(w), NEW d \in Drives
  PROVE  /\ Fits(CountDown(w, d, TRUE)) /\ MediumOf(CountDown(w, d, TRUE)) = MediumOf(w)
         /\ SameDisks(w, CountDown(w, d, TRUE))
         /\ \A a : Owing(w.drive, a) => Owing(CountDown(w, d, TRUE).drive, a)
<1>. DEFINE n == w.drive[d].timer
            later == Placed(w, d, Timed(w.drive[d], n - 1))
<1>0. n \in 0 .. Delay /\ Delay \in Nat
  BY DiskDriveAssumption DEF Fits, Disks, Drive
<1>1. CountDown(w, d, TRUE) =
        IF motorOn \/ n = 0 THEN w ELSE IF Lapses(w, d) THEN Flush(later, d, TRUE) ELSE later
  BY DEF CountDown, Placed, Timed
<1>2. CASE motorOn \/ n = 0
  BY <1>1, <1>2 DEF SameDisks
<1>3. CASE ~ (motorOn \/ n = 0)
  <2>1. n - 1 \in 0 .. Delay
    BY <1>0, <1>3
  <2>. HIDE DEF n
  <2>2. /\ Fits(later) /\ SameDisks(w, later) /\ MediumOf(later) = MediumOf(w)
        /\ later.drive[d].timer = n - 1 /\ later.drive[d].dirty = w.drive[d].dirty
        /\ \A e \in Drives : e # d => later.drive[e] = w.drive[e]
        /\ \A a : Owing(w.drive, a) /\ (w.drive[d].dirty => n - 1 > 0) => Owing(later.drive, a)
    BY <2>1, TimedFits, SMTT(20)
  <2>. HIDE DEF later
  <2>3. CASE Lapses(w, d)
    <3>1. /\ Fits(Flush(later, d, TRUE)) /\ Flush(later, d, TRUE).drive = Cleaned(later.drive, d)
          /\ MediumOf(Flush(later, d, TRUE)) = MediumOf(later) /\ SameDisks(later, Flush(later, d, TRUE))
      BY <2>2, FlushFits, FlushKeeps
    <3>2. /\ ~ Flush(later, d, TRUE).drive[d].dirty
          /\ \A e \in Drives : e # d => Flush(later, d, TRUE).drive[e] = w.drive[e]
      <4>1. later.drive \in [Drives -> Drive]
        BY <2>2 DEF Fits, Disks
      <4>. QED BY <2>2, <3>1, <4>1 DEF Cleaned, Drive
    <3>3. \A a : Owing(w.drive, a) => Owing(Flush(later, d, TRUE).drive, a)
      BY <3>2 DEF Owing
    <3>4. SameDisks(w, Flush(later, d, TRUE))
      BY <2>2, <3>1, SameDisksChain
    <3>5. CountDown(w, d, TRUE) = Flush(later, d, TRUE)
      BY <1>1, <1>3, <2>3
    <3>. QED BY <2>2, <3>1, <3>3, <3>4, <3>5
  <2>4. CASE ~ Lapses(w, d)
    <3>1. n - 1 > 0
      BY <1>0, <1>3, <2>4 DEF Lapses, n
    <3>. QED BY <1>1, <1>3, <2>2, <2>4, <3>1
  <2>. QED BY <2>3, <2>4
<1>. QED BY <1>2, <1>3

LEMMA EjectedKeeps ==
  ASSUME NEW w, Fits(w), NEW d \in Drives
  PROVE  /\ Fits(Ejected(w, d, TRUE)) /\ MediumOf(Ejected(w, d, TRUE)) = MediumOf(w)
         /\ \A a : Owing(w.drive, a) => Owing(Ejected(w, d, TRUE).drive, a)
         /\ Ejected(w, d, TRUE).drive[d] = Empty
         /\ \A e \in Drives : e # d => Ejected(w, d, TRUE).drive[e] = w.drive[e]
<1>. DEFINE f == Flush(w, d, TRUE)
<1>1. Fits(f) /\ f.drive = Cleaned(w.drive, d) /\ MediumOf(f) = MediumOf(w)
      /\ \A a : Owing(w.drive, a) => Owing(f.drive, a)
  BY FlushFits, FlushKeeps
<1>2. Ejected(w, d, TRUE) = Placed(f, d, Empty)
  BY DEF Ejected, Placed
<1>3. ~ f.drive[d].dirty /\ \A e \in Drives : e # d => f.drive[e] = w.drive[e]
  <2>1. w.drive \in [Drives -> Drive]
    BY DEF Fits, Disks
  <2>. QED BY <1>1, <2>1 DEF Cleaned, Drive
<1>. HIDE DEF f
<1>4. Empty \in Drive /\ ~ Empty.dirty /\ ~ Empty.loaded /\ Empty.image = NoImage /\ ~ Empty.unread
  BY DiskDriveAssumption, BlankIs DEF Empty, Drive
<1>5. f \in Disks
  BY <1>1 DEF Fits
<1>. DEFINE p == Placed(f, d, Empty)
<1>6. /\ p.drive[d] = Empty
      /\ \A e \in Drives : e # d => p.drive[e] = f.drive[e]
  BY <1>4, <1>5, PlacedIs
<1>7. /\ Fits(p) /\ MediumOf(p) = MediumOf(f)
      /\ \A a : Owing(f.drive, a) => Owing(p.drive, a)
  BY <1>1, <1>3, <1>4, PlacedFits
<1>. HIDE DEF p
<1>8. Ejected(w, d, TRUE) = p
  BY <1>2 DEF p
<1>. QED BY <1>1, <1>3, <1>6, <1>7, <1>8

\* A disk as it is put in
Put(image, guard) == [Empty EXCEPT !.guarded = guard, !.image = image]

LEMMA InsertKeeps ==
  ASSUME NEW w, Fits(w), NEW d \in Drives, NEW i \in Images, NEW image \in {i, NoImage}, NEW guard \in Guards,
         \A e \in Drives \ {d} : w.drive[e].image # i
  PROVE  /\ Fits(Placed(Ejected(w, d, TRUE), d, Put(image, guard)))
         /\ MediumOf(Placed(Ejected(w, d, TRUE), d, Put(image, guard))) = MediumOf(w)
         /\ \A a : Owing(w.drive, a) => Owing(Placed(Ejected(w, d, TRUE), d, Put(image, guard)).drive, a)
<1>. DEFINE out == Ejected(w, d, TRUE)
            dr == Put(image, guard)
<1>1. /\ Fits(out) /\ MediumOf(out) = MediumOf(w)
      /\ \A a : Owing(w.drive, a) => Owing(out.drive, a)
      /\ out.drive[d] = Empty
      /\ \A e \in Drives : e # d => out.drive[e] = w.drive[e]
  BY EjectedKeeps
<1>2. /\ dr \in Drive /\ ~ dr.dirty /\ ~ dr.loaded /\ dr.image = image /\ ~ dr.unread
      /\ ~ Empty.dirty
  <2>1. image \in Images \cup {NoImage}
    OBVIOUS
  <2>2. Empty \in Drive /\ ~ Empty.dirty /\ ~ Empty.loaded /\ ~ Empty.unread
    BY DiskDriveAssumption, BlankIs DEF Empty, Drive
  <2>3. guard \in BOOLEAN
    BY DiskDriveAssumption
  <2>. HIDE DEF out
  <2>. QED BY <2>1, <2>2, <2>3 DEF Put, Drive
<1>. HIDE DEF out, dr
<1>3. dr.image = NoImage \/ \A e \in Drives : e # d => dr.image # out.drive[e].image
  BY <1>1, <1>2
<1>4. /\ Fits(Placed(out, d, dr)) /\ MediumOf(Placed(out, d, dr)) = MediumOf(out)
      /\ \A a : Owing(out.drive, a) => Owing(Placed(out, d, dr).drive, a)
  BY <1>1, <1>2, <1>3, PlacedFits
<1>. QED BY <1>1, <1>4 DEF out, dr

\* Two states of the disks in which nothing is owed and the files agree
LEMMA CleanMedium ==
  ASSUME NEW w, Fits(w), NEW v, Fits(v), v.file = w.file,
         \A d \in Drives : ~ w.drive[d].dirty /\ ~ v.drive[d].dirty
  PROVE  MediumOf(v) = MediumOf(w)
<1>1. ASSUME NEW i \in Images, NEW t \in Tracks PROVE MediumOf(v)[i][t] = MediumOf(w)[i][t]
  <2>1. MediumOf(v)[i][t] = v.file[i][t]
    BY MediumIs
  <2>2. MediumOf(w)[i][t] = w.file[i][t]
    BY MediumIs
  <2>. QED BY <2>1, <2>2
<1>. QED BY <1>1, MediumsAreEqual

Swapped(w) == [w EXCEPT !.drive = [d \in Drives |-> w.drive[1 - d]]]

LEMMA SwapKeeps ==
  ASSUME NEW w, Fits(w), \A d \in Drives : ~ w.drive[d].dirty
  PROVE  /\ Fits(Swapped(w)) /\ MediumOf(Swapped(w)) = MediumOf(w)
         /\ \A a : Owing(Swapped(w).drive, a)
<1>. DEFINE v == Swapped(w)
<1>0. w \in Disks
  BY DEF Fits
<1>1. v.file = w.file /\ v.drive = [d \in Drives |-> w.drive[1 - d]] /\ v = [drive |-> v.drive, file |-> v.file]
  BY <1>0 DEF Swapped, Disks
<1>. HIDE DEF v
<1>2. v.drive[0] = w.drive[1] /\ v.drive[1] = w.drive[0]
  BY <1>1 DEF Drives
<1>3. v.drive \in [Drives -> Drive]
  BY <1>0, <1>1 DEF Disks, Drives
<1>4. v \in Disks
  BY <1>0, <1>1, <1>3 DEF Disks
<1>5. Apart(v.drive)
  BY <1>2 DEF Fits, Apart
<1>6. Fits(v)
  BY <1>1, <1>2, <1>4, <1>5 DEF Fits, Writing, Drives
<1>7. \A d \in Drives : ~ v.drive[d].dirty
  BY <1>2 DEF Drives
<1>8. MediumOf(v) = MediumOf(w)
  BY <1>1, <1>6, <1>7, CleanMedium
<1>9. \A a : Owing(v.drive, a)
  BY <1>7 DEF Owing
<1>. QED BY <1>6, <1>8, <1>9 DEF v

\* The drive with its protection as the user sets it
Barred(dr, guard) == [dr EXCEPT !.guarded = guard]

LEMMA ProtectKeeps ==
  ASSUME NEW w, Fits(w), NEW d \in Drives, NEW guard \in BOOLEAN, ~ guard \/ ~ (w.drive[d].dirty \/ w.drive[d].unread)
  PROVE  /\ Fits(Placed(w, d, Barred(w.drive[d], guard)))
         /\ MediumOf(Placed(w, d, Barred(w.drive[d], guard))) = MediumOf(w)
         /\ \A a : Owing(w.drive, a) => Owing(Placed(w, d, Barred(w.drive[d], guard)).drive, a)
<1>. DEFINE dr == Barred(w.drive[d], guard)
<1>0. w \in Disks /\ w.drive \in [Drives -> Drive] /\ w.drive[d] \in Drive
  BY DEF Fits, Disks
<1>1. CASE w.drive[d].dirty
  <2>1. guard = FALSE /\ w.drive[d].guarded = FALSE
    BY <1>0, <1>1 DEF Fits, Writing, Drive
  <2>2. dr = w.drive[d]
    BY <1>0, <2>1 DEF Barred, Drive
  <2>3. Placed(w, d, w.drive[d]) = w
    BY <1>0 DEF Placed, Disks
  <2>. QED BY <2>2, <2>3
<1>2. CASE ~ w.drive[d].dirty
  <2>1. /\ dr \in Drive /\ ~ dr.dirty /\ dr.image = w.drive[d].image /\ dr.loaded = w.drive[d].loaded
        /\ dr.buffer = w.drive[d].buffer /\ dr.track = w.drive[d].track
        /\ dr.unread = w.drive[d].unread /\ dr.guarded = guard
    BY <1>0, <1>2 DEF Barred, Drive
  <2>. HIDE DEF dr
  <2>2. dr.image = NoImage \/ \A e \in Drives : e # d => dr.image # w.drive[e].image
    BY <2>1 DEF Fits, Apart, Drives
  <2>3. dr.loaded => dr.image \in Images /\ dr.buffer = w.file[dr.image][dr.track]
    BY <1>2, <2>1 DEF Fits
  <2>5. dr.unread => ~ dr.loaded /\ dr.image \in Images \ ReadOnly /\ ~ dr.guarded
    BY <2>1 DEF Fits, Writing
  <2>4. /\ Fits(Placed(w, d, dr)) /\ MediumOf(Placed(w, d, dr)) = MediumOf(w)
        /\ \A a : Owing(w.drive, a) => Owing(Placed(w, d, dr).drive, a)
    BY <1>2, <2>1, <2>2, <2>3, <2>5, PlacedFits
  <2>. QED BY <2>4 DEF dr
<1>. QED BY <1>1, <1>2


\* The motors stop.
Stopped(w) == [w EXCEPT !.drive = [d \in Drives |-> [w.drive[d] EXCEPT !.timer = 0]]]

LEMMA StoppedKeeps ==
  ASSUME NEW w, Fits(w), \A d \in Drives : ~ w.drive[d].dirty
  PROVE  /\ Fits(Stopped(w)) /\ MediumOf(Stopped(w)) = MediumOf(w)
         /\ SameDisks(w, Stopped(w)) /\ \A d \in Drives : ~ Stopped(w).drive[d].dirty
<1>. DEFINE v == Stopped(w)
<1>0. w \in Disks /\ w.drive \in [Drives -> Drive]
  BY DEF Fits, Disks
<1>1. /\ v.file = w.file /\ v = [drive |-> v.drive, file |-> v.file]
      /\ v.drive = [d \in Drives |-> [w.drive[d] EXCEPT !.timer = 0]]
  BY <1>0 DEF Stopped, Disks
<1>. HIDE DEF v
<1>2. ASSUME NEW d \in Drives
      PROVE  /\ v.drive[d] \in Drive /\ v.drive[d].image = w.drive[d].image /\ v.drive[d].track = w.drive[d].track
             /\ v.drive[d].buffer = w.drive[d].buffer /\ v.drive[d].loaded = w.drive[d].loaded
             /\ v.drive[d].guarded = w.drive[d].guarded /\ ~ v.drive[d].dirty
             /\ v.drive[d].unread = w.drive[d].unread
  <2>1. w.drive[d] \in Drive /\ v.drive[d] = [w.drive[d] EXCEPT !.timer = 0] /\ ~ w.drive[d].dirty
    BY <1>0, <1>1
  <2>. QED BY <2>1, DiskDriveAssumption DEF Drive
<1>3. v \in Disks
  BY <1>0, <1>1, <1>2 DEF Disks
<1>4. Apart(v.drive) /\ Writing(v.drive)
  BY <1>2 DEF Fits, Apart, Writing, Drives
<1>5. Fits(v)
  BY <1>1, <1>2, <1>3, <1>4 DEF Fits
<1>6. MediumOf(v) = MediumOf(w)
  BY <1>1, <1>2, <1>5, CleanMedium
<1>. QED BY <1>2, <1>5, <1>6 DEF v, SameDisks

LEMMA ResetKeeps ==
  ASSUME Fits(disks)
  PROVE  /\ Fits(AfterReset(TRUE)) /\ MediumOf(AfterReset(TRUE)) = MediumOf(disks)
         /\ SameDisks(disks, AfterReset(TRUE))
         /\ \A d \in Drives : ~ AfterReset(TRUE).drive[d].dirty
<1>. DEFINE f == Flush(disks, 0, TRUE)
            g == Flush(f, 1, TRUE)
<1>0. 0 \in Drives /\ 1 \in Drives
  BY DEF Drives
<1>1. Fits(f) /\ f.drive = Cleaned(disks.drive, 0) /\ MediumOf(f) = MediumOf(disks) /\ SameDisks(disks, f)
  BY <1>0, FlushFits, FlushKeeps
<1>2. ~ f.drive[0].dirty
  <2>1. disks.drive \in [Drives -> Drive]
    BY DEF Fits, Disks
  <2>. QED BY <1>0, <1>1, <2>1 DEF Cleaned, Drive
<1>. HIDE DEF f
<1>3. Fits(g) /\ g.drive = Cleaned(f.drive, 1) /\ MediumOf(g) = MediumOf(f) /\ SameDisks(f, g)
  BY <1>0, <1>1, FlushFits, FlushKeeps
<1>4. \A d \in Drives : ~ g.drive[d].dirty
  <2>1. f.drive \in [Drives -> Drive]
    BY <1>1 DEF Fits, Disks
  <2>. QED BY <1>0, <1>2, <1>3, <2>1 DEF Cleaned, Drive, Drives
<1>5. AfterReset(TRUE) = Stopped(g)
  BY DEF AfterReset, Stopped, f
<1>. HIDE DEF g
<1>6. /\ Fits(Stopped(g)) /\ MediumOf(Stopped(g)) = MediumOf(g)
      /\ SameDisks(g, Stopped(g)) /\ \A d \in Drives : ~ Stopped(g).drive[d].dirty
  BY <1>3, <1>4, StoppedKeeps
<1>7. SameDisks(disks, Stopped(g))
  BY <1>1, <1>3, <1>6, SameDisksChain
<1>. QED BY <1>1, <1>3, <1>5, <1>6, <1>7

----------------------------------------------------------------------------
(* Save states *)

\* The bytes of a part-written track are in it, if it has any.
Reads(dr) == dr.dirty /\ dr.buffer.bytes # Silent

LEMMA SavedDriveIs ==
  ASSUME NEW dr \in Drive
  PROVE  /\ SavedDrive(dr) \in Drive /\ SavedDrive(dr).image = dr.image
         /\ SavedDrive(dr).timer = dr.timer /\ SavedDrive(dr).guarded = dr.guarded
         /\ SavedDrive(dr).track = 2 * (dr.track \div 2)
         /\ SavedDrive(dr).dirty <=> Reads(dr)
         /\ SavedDrive(dr).unread <=> dr.unread \/ (dr.dirty /\ ~ Reads(dr))
         /\ Reads(dr) => SavedDrive(dr).buffer = AsBytes(dr.buffer)
<1>1. dr.track \in Tracks /\ dr.buffer \in Contents /\ dr.dirty \in BOOLEAN /\ dr.unread \in BOOLEAN
  BY DEF Drive
<1>2. 2 * (dr.track \div 2) \in Tracks
  BY <1>1, DiskDriveAssumption
<1>. DEFINE n == 2 * (dr.track \div 2)
            reads == dr.dirty /\ dr.buffer.bytes # Silent
            b == IF reads THEN AsBytes(dr.buffer) ELSE Blank
            u == dr.unread \/ (dr.dirty /\ ~ reads)
<1>3. n \in Tracks /\ reads \in BOOLEAN /\ u \in BOOLEAN /\ b \in Contents
  BY <1>1, <1>2, AsBytesIs, BlankIs
<1>4. (reads <=> Reads(dr)) /\ (u <=> dr.unread \/ (dr.dirty /\ ~ Reads(dr)))
      /\ (Reads(dr) => b = AsBytes(dr.buffer)) /\ n = 2 * (dr.track \div 2)
  BY DEF Reads
<1>5. SavedDrive(dr) = [dr EXCEPT !.track = n, !.loaded = FALSE, !.dirty = reads, !.unread = u, !.buffer = b]
  BY DEF SavedDrive
<1>. HIDE DEF n, reads, u, b
<1>6. /\ SavedDrive(dr) \in Drive /\ SavedDrive(dr).image = dr.image
      /\ SavedDrive(dr).timer = dr.timer /\ SavedDrive(dr).guarded = dr.guarded /\ SavedDrive(dr).track = n
      /\ SavedDrive(dr).dirty = reads /\ SavedDrive(dr).unread = u /\ SavedDrive(dr).buffer = b
  BY <1>3, <1>5 DEF Drive
<1>. QED BY <1>4, <1>6

\* The drives whose disks may open, and one as a load leaves it
Openable == SUBSET {d \in Drives : saved.drive[d].image # NoImage}

Restored(dr, file, opens) ==
  IF ~ opens THEN [Empty EXCEPT !.guarded = dr.guarded]
  ELSE [dr EXCEPT !.loaded = ~ dr.unread,
                  !.buffer = IF dr.dirty THEN dr.buffer
                             ELSE IF dr.unread THEN Blank ELSE file[dr.image][dr.track]]

LEMMA RestoredIs ==
  ASSUME NEW dr \in Drive, NEW file \in [Images -> [Tracks -> Contents]], NEW opens \in BOOLEAN,
         opens => dr.image # NoImage, dr.unread => ~ dr.dirty
  PROVE  /\ Restored(dr, file, opens) \in Drive
         /\ Restored(dr, file, opens).image = IF opens THEN dr.image ELSE NoImage
         /\ Restored(dr, file, opens).guarded = dr.guarded
         /\ Restored(dr, file, opens).dirty <=> dr.dirty /\ opens
         /\ Restored(dr, file, opens).unread <=> dr.unread /\ opens
         /\ Restored(dr, file, opens).dirty =>
              /\ Restored(dr, file, opens).timer = dr.timer /\ Restored(dr, file, opens).buffer = dr.buffer
              /\ Restored(dr, file, opens).track = dr.track /\ Restored(dr, file, opens).loaded
         /\ Restored(dr, file, opens).unread => ~ Restored(dr, file, opens).loaded
         /\ Restored(dr, file, opens).loaded => Restored(dr, file, opens).image \in Images
         /\ Restored(dr, file, opens).loaded /\ ~ Restored(dr, file, opens).dirty =>
              Restored(dr, file, opens).buffer = file[Restored(dr, file, opens).image][Restored(dr, file, opens).track]
<1>. DEFINE r == Restored(dr, file, opens)
<1>1. CASE ~ opens
  <2>1. r = [Empty EXCEPT !.guarded = dr.guarded]
    BY <1>1 DEF Restored
  <2>2. Empty \in Drive /\ dr.guarded \in BOOLEAN
    BY DiskDriveAssumption, BlankIs DEF Empty, Drive
  <2>3. r \in Drive
    BY <2>1, <2>2 DEF Drive
  <2>4. /\ r.image = NoImage /\ r.dirty = FALSE /\ r.loaded = FALSE /\ r.unread = FALSE
        /\ r.guarded = dr.guarded
    BY <2>1 DEF Empty
  <2>. HIDE DEF r
  <2>5. /\ r \in Drive /\ r.image = (IF opens THEN dr.image ELSE NoImage) /\ r.guarded = dr.guarded
        /\ (r.dirty <=> dr.dirty /\ opens) /\ (r.unread <=> dr.unread /\ opens)
        /\ ~ r.dirty /\ ~ r.unread /\ ~ r.loaded
    BY <1>1, <2>3, <2>4
  <2>. QED BY <2>5 DEF r
<1>2. CASE opens
  <2>1. /\ dr.image \in Images /\ dr.track \in Tracks /\ dr.buffer \in Contents
        /\ dr.dirty \in BOOLEAN /\ dr.unread \in BOOLEAN
    BY <1>2 DEF Drive
  <2>. DEFINE b == IF dr.dirty THEN dr.buffer ELSE IF dr.unread THEN Blank ELSE file[dr.image][dr.track]
              l == ~ dr.unread
  <2>2. b \in Contents /\ l \in BOOLEAN
    BY <2>1, BlankIs
  <2>3. (dr.dirty => b = dr.buffer /\ l) /\ (~ dr.dirty /\ l => b = file[dr.image][dr.track]) /\ (dr.unread => ~ l)
    OBVIOUS
  <2>4. r = [dr EXCEPT !.loaded = l, !.buffer = b]
    BY <1>2 DEF Restored
  <2>. HIDE DEF b, l, r
  <2>5. /\ r \in Drive /\ r.image = dr.image /\ r.dirty = dr.dirty /\ r.timer = dr.timer /\ r.unread = dr.unread
        /\ r.guarded = dr.guarded /\ r.buffer = b /\ r.track = dr.track /\ r.loaded = l
    BY <2>2, <2>4 DEF Drive
  <2>6. r.image = (IF opens THEN dr.image ELSE NoImage) /\ (r.dirty <=> dr.dirty /\ opens)
        /\ (r.unread <=> dr.unread /\ opens) /\ (r.unread => ~ r.loaded) /\ (r.loaded => r.image \in Images)
    BY <1>2, <2>1, <2>3, <2>5
  <2>7. r.dirty => r.timer = dr.timer /\ r.buffer = dr.buffer /\ r.track = dr.track /\ r.loaded
    BY <2>3, <2>5
  <2>8. r.loaded /\ ~ r.dirty => r.buffer = file[r.image][r.track]
    BY <2>3, <2>5
  <2>9. r \in Drive /\ r.guarded = dr.guarded
    BY <2>5
  <2>. QED BY <2>6, <2>7, <2>8, <2>9 DEF r
<1>. QED BY <1>1, <1>2

\* One drive loaded: only that drive changes.
LEMMA LoadDriveIs ==
  ASSUME NEW w, w \in Disks, NEW d \in Drives, ~ w.drive[d].dirty, SavedFits, NEW opened \in Openable
  PROVE  /\ LoadDrive(w, d, TRUE, opened) \in Disks /\ LoadDrive(w, d, TRUE, opened).file = w.file
         /\ LoadDrive(w, d, TRUE, opened).drive[d] = Restored(saved.drive[d], w.file, d \in opened)
         /\ \A e \in Drives : e # d => LoadDrive(w, d, TRUE, opened).drive[e] = w.drive[e]
<1>. DEFINE dr == saved.drive[d]
            out == Placed(w, d, Empty)
<1>1. dr \in Drive /\ (dr.unread => ~ dr.dirty) /\ (d \in opened => dr.image # NoImage)
  BY DEF SavedFits, Openable
<1>2. w.file \in [Images -> [Tracks -> Contents]]
  BY DEF Disks
<1>3. Ejected(w, d, TRUE) = out
  BY DEF Ejected, Flush, Placed
<1>4. Empty \in Drive
  BY DiskDriveAssumption, BlankIs DEF Empty, Drive
<1>5. /\ out \in Disks /\ out.file = w.file
      /\ \A e \in Drives : e # d => out.drive[e] = w.drive[e]
  BY <1>4, PlacedIs
<1>. HIDE DEF out
<1>6. LoadDrive(w, d, TRUE, opened) = Placed(out, d, Restored(dr, w.file, d \in opened))
  BY <1>3, <1>5 DEF LoadDrive, Placed, Restored
<1>. HIDE DEF dr
<1>. DEFINE r == Restored(dr, w.file, d \in opened)
<1>7. r \in Drive
  <2>1. (d \in opened) \in BOOLEAN
    OBVIOUS
  <2>. QED BY <1>1, <1>2, <2>1, RestoredIs
<1>. HIDE DEF r
<1>9. /\ Placed(out, d, r) \in Disks /\ Placed(out, d, r).file = out.file
      /\ Placed(out, d, r).drive[d] = r
      /\ \A e \in Drives : e # d => Placed(out, d, r).drive[e] = out.drive[e]
  BY <1>5, <1>7, PlacedIs
<1>. QED BY <1>5, <1>6, <1>9 DEF r, dr

\* What both drives hold once loaded, over the files as the reset left them
Loaded(opened) == LoadDrive(LoadDrive(AfterReset(TRUE), 0, TRUE, opened), 1, TRUE, opened)

LEMMA LoadKeeps ==
  ASSUME Fits(disks), SavedFits, NEW opened \in Openable
  PROVE  /\ Fits(Loaded(opened)) /\ Owing(Loaded(opened).drive, saved.active)
         /\ Loaded(opened).file = AfterReset(TRUE).file
         /\ \A d \in Drives :
              /\ Loaded(opened).drive[d].image = IF d \in opened THEN saved.drive[d].image ELSE NoImage
              /\ Loaded(opened).drive[d].dirty <=> saved.drive[d].dirty /\ d \in opened
              /\ Loaded(opened).drive[d].dirty => /\ Loaded(opened).drive[d].track = saved.drive[d].track
                                                  /\ Loaded(opened).drive[d].buffer = saved.drive[d].buffer
<1>. DEFINE w == AfterReset(TRUE)
            u == LoadDrive(w, 0, TRUE, opened)
            v == LoadDrive(u, 1, TRUE, opened)
<1>0. 0 \in Drives /\ 1 \in Drives /\ 0 # 1
  BY DEF Drives
<1>1. w \in Disks /\ ~ w.drive[0].dirty /\ ~ w.drive[1].dirty
  BY <1>0, ResetKeeps DEF Fits
<1>. HIDE DEF w
<1>2. /\ u \in Disks /\ u.file = w.file /\ u.drive[1] = w.drive[1]
      /\ u.drive[0] = Restored(saved.drive[0], w.file, 0 \in opened)
  BY <1>0, <1>1, LoadDriveIs
<1>. HIDE DEF u
<1>3. ~ u.drive[1].dirty
  BY <1>1, <1>2
<1>4. /\ v \in Disks /\ v.file = u.file /\ v.drive[0] = u.drive[0]
      /\ v.drive[1] = Restored(saved.drive[1], u.file, 1 \in opened)
  BY <1>0, <1>2, <1>3, LoadDriveIs
<1>5. Loaded(opened) = v
  BY DEF Loaded, u, w
<1>. HIDE DEF v
<1>6. \A d \in Drives : v.drive[d] = Restored(saved.drive[d], v.file, d \in opened)
  BY <1>2, <1>4 DEF Drives
<1>7. v.file \in [Images -> [Tracks -> Contents]]
  BY <1>4 DEF Disks
<1>8. ASSUME NEW d \in Drives
      PROVE  /\ v.drive[d].image = IF d \in opened THEN saved.drive[d].image ELSE NoImage
             /\ v.drive[d].dirty <=> saved.drive[d].dirty /\ d \in opened
             /\ v.drive[d].unread <=> saved.drive[d].unread /\ d \in opened
             /\ v.drive[d].guarded = saved.drive[d].guarded
             /\ v.drive[d].dirty => /\ v.drive[d].timer = saved.drive[d].timer /\ v.drive[d].buffer = saved.drive[d].buffer
                                    /\ v.drive[d].track = saved.drive[d].track /\ v.drive[d].loaded
             /\ v.drive[d].unread => ~ v.drive[d].loaded
             /\ v.drive[d].loaded => v.drive[d].image \in Images
             /\ v.drive[d].loaded /\ ~ v.drive[d].dirty => v.drive[d].buffer = v.file[v.drive[d].image][v.drive[d].track]
  <2>1. saved.drive[d] \in Drive /\ (saved.drive[d].unread => ~ saved.drive[d].dirty)
        /\ (d \in opened => saved.drive[d].image # NoImage)
    BY DEF SavedFits, Openable
  <2>2. (d \in opened) \in BOOLEAN /\ v.drive[d] = Restored(saved.drive[d], v.file, d \in opened)
    BY <1>6
  <2>. DEFINE o == d \in opened
              dr == saved.drive[d]
  <2>3. v.drive[d] = Restored(dr, v.file, o) /\ dr \in Drive /\ (dr.unread => ~ dr.dirty)
        /\ (o => dr.image # NoImage) /\ o \in BOOLEAN
    BY <2>1, <2>2
  <2>4. o <=> d \in opened
    OBVIOUS
  <2>. HIDE DEF o
  <2>. QED BY <1>7, <2>3, <2>4, RestoredIs
<1>9. Apart(v.drive) /\ Writing(v.drive) /\ Owing(v.drive, saved.active)
  BY <1>8 DEF SavedFits, Apart, Writing, Owing, Drives
<1>10. Fits(v)
  BY <1>4, <1>8, <1>9 DEF Fits
<1>. QED BY <1>2, <1>4, <1>5, <1>8, <1>9, <1>10 DEF w

----------------------------------------------------------------------------
(* The actions: what is on the disks stays there *)

\* What every handler of the drives keeps
Keeps(w) == Fits(w) /\ MediumOf(w) = MediumOf(disks)

\* A handler that first lets the sequencer run
Turning(w, c) == Fits(w) /\ SameDisks(disks, w) /\ MediumOf(w) = MediumOf(Turn(c))

LEMMA AnswersAreTrue ==
  ASSUME NoFaults
  PROVE  Answers = {TRUE}
BY DEF NoFaults, Answers

LEMMA MotorSwitchKeeps ==
  ASSUME DiskInv, NEW on \in BOOLEAN, NEW c \in Contents \cup {NoCells}, NEW t \in Tracks,
         MotorSwitch(on, c, t, TRUE)
  PROVE  Turning(disks', c) /\ Owing(disks'.drive, active') /\ TypeOK' /\ UNCHANGED <<active, states>>
<1>. DEFINE turned == Turn(c)
<1>1. Fits(turned) /\ Owing(turned.drive, active) /\ SameDisks(disks, turned)
  BY TurnKeeps DEF DiskInv, TypeOK
<1>2. /\ disks' = PowerUp(turned, active, on, t, TRUE) /\ motorOn' = on
      /\ activity' \in BOOLEAN /\ active' = active /\ writing' = writing /\ saved' = saved /\ carried' = carried
  BY DEF MotorSwitch, states, DiskInv, TypeOK
<1>. HIDE DEF turned
<1>3. active \in Drives /\ writing \in BOOLEAN
  BY DEF DiskInv, TypeOK
<1>4. /\ Fits(disks') /\ MediumOf(disks') = MediumOf(turned) /\ SameDisks(turned, disks')
      /\ Owing(disks'.drive, active)
  BY <1>1, <1>2, <1>3, PowerUpKeeps
<1>5. SameDisks(disks, disks')
  BY <1>1, <1>4, SameDisksChain
<1>6. TypeOK'
  BY <1>2, <1>3, <1>4 DEF TypeOK, Fits
<1>. QED BY <1>2, <1>4, <1>5, <1>6 DEF Turning, turned, states

LEMMA StrobeKeeps ==
  ASSUME DiskInv, NEW c \in Contents \cup {NoCells}, NEW t \in Tracks, NEW back \in Tracks,
         Strobe(c, t, back, TRUE)
  PROVE  Turning(disks', c) /\ Owing(disks'.drive, active') /\ TypeOK' /\ UNCHANGED <<active, states>>
<1>. DEFINE turned == Turn(c)
            out == Move(turned, active, t, TRUE)
            in == Move(out, active, back, TRUE)
<1>1. Fits(turned) /\ Owing(turned.drive, active) /\ SameDisks(disks, turned)
  BY TurnKeeps DEF DiskInv, TypeOK
<1>2. /\ disks' = IF turned.drive[active].timer = 0 THEN turned ELSE in
      /\ active' = active /\ motorOn' = motorOn /\ writing' = writing /\ activity' = activity
      /\ saved' = saved /\ carried' = carried
  BY DEF Strobe, states, switches
<1>. HIDE DEF turned
<1>3. active \in Drives /\ motorOn \in BOOLEAN /\ writing \in BOOLEAN /\ activity \in BOOLEAN
  BY DEF DiskInv, TypeOK
<1>4. /\ Fits(out) /\ MediumOf(out) = MediumOf(turned) /\ SameDisks(turned, out)
      /\ Owing(out.drive, active)
  BY <1>1, <1>3, MoveKeeps
<1>. HIDE DEF out
<1>5. /\ Fits(in) /\ MediumOf(in) = MediumOf(out) /\ SameDisks(out, in)
      /\ Owing(in.drive, active)
  BY <1>3, <1>4, MoveKeeps
<1>. HIDE DEF in
<1>6. SameDisks(disks, out)
  BY <1>1, <1>4, SameDisksChain
<1>7. SameDisks(disks, in)
  BY <1>5, <1>6, SameDisksChain
<1>8. /\ Fits(disks') /\ MediumOf(disks') = MediumOf(turned) /\ SameDisks(disks, disks')
      /\ Owing(disks'.drive, active)
  BY <1>1, <1>2, <1>4, <1>5, <1>7
<1>9. TypeOK'
  BY <1>2, <1>3, <1>8 DEF TypeOK, Fits
<1>. QED BY <1>2, <1>8, <1>9 DEF Turning, turned, states

LEMMA SelectDriveKeeps ==
  ASSUME DiskInv, NEW d \in Drives, NEW c \in Contents \cup {NoCells}, NEW t \in Tracks,
         SelectDrive(d, c, t, TRUE)
  PROVE  Turning(disks', c) /\ Owing(disks'.drive, active') /\ TypeOK' /\ UNCHANGED states
<1>. DEFINE turned == Turn(c)
            left == IF d = active THEN turned ELSE Deselect(turned, TRUE)
<1>0. /\ active \in Drives /\ motorOn \in BOOLEAN /\ writing \in BOOLEAN
  BY DEF DiskInv, TypeOK
<1>1. Fits(turned) /\ Owing(turned.drive, active) /\ SameDisks(disks, turned)
  BY TurnKeeps DEF DiskInv, TypeOK
<1>2. /\ disks' = PowerUp(left, d, motorOn, t, TRUE) /\ active' = d
      /\ activity' \in BOOLEAN /\ motorOn' = motorOn /\ writing' = writing /\ saved' = saved /\ carried' = carried
  BY DEF SelectDrive, states, DiskInv, TypeOK
<1>. HIDE DEF turned
<1>3. /\ Fits(left) /\ MediumOf(left) = MediumOf(turned) /\ SameDisks(disks, left)
      /\ Owing(left.drive, d)
  <2>1. CASE d = active
    BY <1>1, <2>1
  <2>2. CASE d # active
    <3>1. /\ Fits(Deselect(turned, TRUE)) /\ MediumOf(Deselect(turned, TRUE)) = MediumOf(turned)
          /\ SameDisks(turned, Deselect(turned, TRUE)) /\ \A a : Owing(Deselect(turned, TRUE).drive, a)
      BY <1>0, <1>1, DeselectKeeps
    <3>2. SameDisks(disks, Deselect(turned, TRUE))
      BY <1>1, <3>1, SameDisksChain
    <3>. QED BY <2>2, <3>1, <3>2
  <2>. QED BY <2>1, <2>2
<1>. HIDE DEF left
<1>4. /\ Fits(disks') /\ MediumOf(disks') = MediumOf(left) /\ SameDisks(left, disks')
      /\ Owing(disks'.drive, d)
  BY <1>0, <1>2, <1>3, PowerUpKeeps
<1>5. SameDisks(disks, disks')
  BY <1>3, <1>4, SameDisksChain
<1>6. TypeOK'
  BY <1>0, <1>2, <1>4 DEF TypeOK, Fits
<1>. QED BY <1>2, <1>3, <1>4, <1>5, <1>6 DEF Turning, turned, states

LEMMA WriteModeKeeps ==
  ASSUME DiskInv, NEW on \in BOOLEAN, NEW c \in Contents \cup {NoCells}, WriteMode(on, c)
  PROVE  Turning(disks', c) /\ Owing(disks'.drive, active') /\ TypeOK' /\ UNCHANGED <<active, states>>
<1>1. Fits(Turn(c)) /\ Owing(Turn(c).drive, active) /\ SameDisks(disks, Turn(c))
  BY TurnKeeps DEF DiskInv, TypeOK
<1>2. /\ disks' = Turn(c) /\ writing' = on /\ active' = active /\ motorOn' = motorOn
      /\ activity' = activity /\ saved' = saved /\ carried' = carried
  BY DEF WriteMode, states
<1>3. TypeOK'
  BY <1>1, <1>2 DEF TypeOK, Fits, DiskInv
<1>. QED BY <1>1, <1>2, <1>3 DEF Turning, states

LEMMA ThinkKeeps ==
  ASSUME DiskInv, NoFaults, Think
  PROVE  \E c \in Contents \cup {NoCells} :
           Turning(disks', c) /\ Owing(disks'.drive, active') /\ TypeOK' /\ UNCHANGED <<active, states>>
<1>1. PICK c \in Contents \cup {NoCells} :
        /\ disks' = CountDown(CountDown(Turn(c), 0, TRUE), 1, TRUE)
        /\ activity' \in BOOLEAN
        /\ active' = active /\ motorOn' = motorOn /\ writing' = writing /\ saved' = saved /\ carried' = carried
  <2>1. PICK c \in Contents \cup {NoCells}, takes \in Answers :
          /\ disks' = CountDown(CountDown(Turn(c), 0, takes), 1, takes)
          /\ activity' = (activity /\ \A d \in Drives : ~ Lapses(Turn(c), d))
          /\ UNCHANGED <<switches, states>>
    BY DEF Think, Cells
  <2>2. takes = TRUE
    BY AnswersAreTrue
  <2>. QED BY <2>1, <2>2 DEF switches, states
<1>. DEFINE turned == Turn(c)
            u == CountDown(turned, 0, TRUE)
<1>0. /\ 0 \in Drives /\ 1 \in Drives /\ active \in Drives /\ motorOn \in BOOLEAN /\ writing \in BOOLEAN
  BY DEF Drives, DiskInv, TypeOK
<1>2. Fits(turned) /\ Owing(turned.drive, active) /\ SameDisks(disks, turned)
  BY TurnKeeps DEF DiskInv, TypeOK
<1>3. disks' = CountDown(u, 1, TRUE)
  BY <1>1
<1>. HIDE DEF turned
<1>4. /\ Fits(u) /\ MediumOf(u) = MediumOf(turned) /\ SameDisks(turned, u)
      /\ Owing(u.drive, active)
  BY <1>0, <1>2, CountDownKeeps
<1>. HIDE DEF u
<1>5. /\ Fits(disks') /\ MediumOf(disks') = MediumOf(u) /\ SameDisks(u, disks')
      /\ Owing(disks'.drive, active)
  BY <1>0, <1>3, <1>4, CountDownKeeps
<1>6. SameDisks(disks, u)
  BY <1>2, <1>4, SameDisksChain
<1>7. SameDisks(disks, disks')
  BY <1>5, <1>6, SameDisksChain
<1>8. TypeOK'
  BY <1>0, <1>1, <1>5 DEF TypeOK, Fits
<1>9. Turning(disks', c)
  BY <1>4, <1>5, <1>7 DEF Turning, turned
<1>. QED BY <1>1, <1>5, <1>8, <1>9 DEF states

LEMMA AccessKeeps ==
  ASSUME DiskInv, NoFaults, Access
  PROVE  \E c \in Contents \cup {NoCells} :
           Turning(disks', c) /\ Owing(disks'.drive, active') /\ TypeOK' /\ UNCHANGED states
<1>1. PICK c \in Contents \cup {NoCells}, takes \in Answers :
        \/ \E on \in BOOLEAN, t \in Tracks : MotorSwitch(on, c, t, takes)
        \/ \E t, back \in Tracks : Strobe(c, t, back, takes)
        \/ \E d \in Drives, t \in Tracks : SelectDrive(d, c, t, takes)
        \/ \E on \in BOOLEAN : WriteMode(on, c)
  <2>1. Cells \subseteq Contents \cup {NoCells} /\ (IF Turns THEN Tracks ELSE {0}) \subseteq Tracks
    BY DiskDriveAssumption DEF Cells
  <2>. QED BY <2>1 DEF Access
<1>2. takes = TRUE
  BY AnswersAreTrue
<1>. DEFINE Done == Turning(disks', c) /\ Owing(disks'.drive, active') /\ TypeOK' /\ UNCHANGED states
<1>3. CASE \E on \in BOOLEAN, t \in Tracks : MotorSwitch(on, c, t, takes)
  <2>1. PICK on \in BOOLEAN, t \in Tracks : MotorSwitch(on, c, t, TRUE)
    BY <1>2, <1>3
  <2>2. Done
    BY <2>1, MotorSwitchKeeps
  <2>. QED BY <2>2
<1>4. CASE \E t, back \in Tracks : Strobe(c, t, back, takes)
  <2>1. PICK t \in Tracks, back \in Tracks : Strobe(c, t, back, TRUE)
    BY <1>2, <1>4
  <2>2. Done
    BY <2>1, StrobeKeeps
  <2>. QED BY <2>2
<1>5. CASE \E d \in Drives, t \in Tracks : SelectDrive(d, c, t, takes)
  <2>1. PICK d \in Drives, t \in Tracks : SelectDrive(d, c, t, TRUE)
    BY <1>2, <1>5
  <2>2. Done
    BY <2>1, SelectDriveKeeps
  <2>. QED BY <2>2
<1>6. CASE \E on \in BOOLEAN : WriteMode(on, c)
  <2>1. PICK on \in BOOLEAN : WriteMode(on, c)
    BY <1>6
  <2>2. Done
    BY <2>1, WriteModeKeeps
  <2>. QED BY <2>2
<1>. QED BY <1>1, <1>3, <1>4, <1>5, <1>6

LEMMA InsertActKeeps ==
  ASSUME DiskInv, NoFaults, NEW d \in Drives, NEW i \in Images, NEW guard \in Guards, Insert(d, i, guard)
  PROVE  Keeps(disks') /\ Owing(disks'.drive, active') /\ TypeOK' /\ UNCHANGED <<switches, activity, states>>
<1>1. PICK image \in {i, NoImage} : disks' = Placed(Ejected(disks, d, TRUE), d, Put(image, guard))
  <2>1. PICK takes \in Answers, image \in {i, NoImage} :
          disks' = [Ejected(disks, d, takes) EXCEPT
                      !.drive[d] = [Empty EXCEPT !.guarded = guard, !.image = image]]
    BY DEF Insert
  <2>2. takes = TRUE
    BY AnswersAreTrue
  <2>. QED BY <2>1, <2>2 DEF Placed, Put
<1>2. /\ \A e \in Drives \ {d} : disks.drive[e].image # i
      /\ UNCHANGED <<switches, activity, states>>
  BY DEF Insert
<1>3. guard \in BOOLEAN /\ Fits(disks) /\ Owing(disks.drive, active)
  BY DiskDriveAssumption DEF DiskInv
<1>4. /\ Fits(Placed(Ejected(disks, d, TRUE), d, Put(image, guard)))
      /\ MediumOf(Placed(Ejected(disks, d, TRUE), d, Put(image, guard))) = MediumOf(disks)
      /\ \A a : Owing(disks.drive, a) =>
               Owing(Placed(Ejected(disks, d, TRUE), d, Put(image, guard)).drive, a)
  <2>1. \A e \in Drives \ {d} : disks.drive[e].image # i
    BY <1>2
  <2>2. image \in {i, NoImage}
    BY <1>1
  <2>3. Fits(disks)
    BY <1>3
  <2>. QED BY <2>1, <2>2, <2>3, InsertKeeps
<1>5. Keeps(disks') /\ Owing(disks'.drive, active)
  BY <1>1, <1>3, <1>4 DEF Keeps
<1>. QED BY <1>2, <1>5 DEF Keeps, Fits, TypeOK, DiskInv, switches

LEMMA EjectActKeeps ==
  ASSUME DiskInv, NoFaults, NEW d \in Drives, Eject(d)
  PROVE  Keeps(disks') /\ Owing(disks'.drive, active') /\ TypeOK' /\ UNCHANGED <<switches, activity, states>>
<1>1. disks' = Ejected(disks, d, TRUE) /\ UNCHANGED <<switches, activity, states>>
  BY AnswersAreTrue DEF Eject
<1>2. Fits(disks) /\ Owing(disks.drive, active)
  BY DEF DiskInv
<1>3. Keeps(disks') /\ Owing(disks'.drive, active)
  BY <1>1, <1>2, EjectedKeeps DEF Keeps
<1>. QED BY <1>1, <1>3 DEF Keeps, Fits, TypeOK, DiskInv, switches

LEMMA SwapActKeeps ==
  ASSUME DiskInv, SwapDrives
  PROVE  Keeps(disks') /\ Owing(disks'.drive, active') /\ TypeOK' /\ UNCHANGED <<switches, activity, states>>
<1>1. /\ \A d \in Drives : disks.drive[d].timer = 0
      /\ disks' = Swapped(disks) /\ UNCHANGED <<switches, activity, states>>
  BY DEF SwapDrives, Swapped
<1>2. Fits(disks) /\ \A d \in Drives : ~ disks.drive[d].dirty
  <2>1. Fits(disks) /\ \A d \in Drives : disks.drive[d].dirty => disks.drive[d].timer > 0
    BY DEF DiskInv, Owing
  <2>2. ~ (0 > 0)
    OBVIOUS
  <2>. QED BY <1>1, <2>1, <2>2
<1>3. Keeps(disks') /\ Owing(disks'.drive, active)
  BY <1>1, <1>2, SwapKeeps DEF Keeps
<1>. QED BY <1>1, <1>3 DEF Keeps, Fits, TypeOK, DiskInv, switches

LEMMA ProtectActKeeps ==
  ASSUME DiskInv, NoFaults, NEW d \in Drives, NEW guard \in Guards, SetProtect(d, guard)
  PROVE  Keeps(disks') /\ Owing(disks'.drive, active') /\ TypeOK' /\ UNCHANGED <<switches, activity, states>>
<1>1. /\ ~ guard \/ ~ (disks.drive[d].dirty \/ disks.drive[d].unread)
      /\ UNCHANGED <<switches, activity, states>>
  BY DEF SetProtect, NoFaults
<1>2. disks' = Placed(disks, d, Barred(disks.drive[d], guard))
  BY DEF SetProtect, Placed, Barred
<1>3. guard \in BOOLEAN /\ Fits(disks) /\ Owing(disks.drive, active)
  BY DiskDriveAssumption DEF DiskInv
<1>4. Keeps(disks') /\ Owing(disks'.drive, active)
  BY <1>1, <1>2, <1>3, ProtectKeeps DEF Keeps
<1>. QED BY <1>1, <1>4 DEF Keeps, Fits, TypeOK, DiskInv, switches

LEMMA ResetActKeeps ==
  ASSUME DiskInv, NoFaults, Reset
  PROVE  Keeps(disks') /\ Owing(disks'.drive, active') /\ TypeOK' /\ UNCHANGED states
<1>1. /\ disks' = AfterReset(TRUE) /\ active' = 0 /\ motorOn' = FALSE /\ writing' = FALSE
      /\ activity' = activity /\ UNCHANGED states
  BY AnswersAreTrue DEF Reset
<1>2. Fits(disks)
  BY DEF DiskInv
<1>3. Keeps(disks') /\ Owing(disks'.drive, active')
  BY <1>1, <1>2, ResetKeeps DEF Keeps, Owing
<1>. QED BY <1>1, <1>3 DEF Keeps, Fits, TypeOK, DiskInv, Drives

LEMMA SaveKeeps ==
  ASSUME DiskInv, SaveState
  PROVE  DiskInv'
<1>1. /\ saved' = [drive |-> [d \in Drives |-> SavedDrive(disks.drive[d])],
                   active |-> active, motorOn |-> motorOn, writing |-> writing]
      /\ disks' = disks /\ active' = active /\ motorOn' = motorOn /\ writing' = writing /\ activity' = activity
  BY DEF SaveState, switches
<1>2. ASSUME NEW d \in Drives
      PROVE  /\ saved'.drive[d] \in Drive /\ saved'.drive[d].image = disks.drive[d].image
             /\ saved'.drive[d].dirty <=> Reads(disks.drive[d])
             /\ saved'.drive[d].unread <=>
                  disks.drive[d].unread \/ (disks.drive[d].dirty /\ ~ Reads(disks.drive[d]))
             /\ saved'.drive[d].timer = disks.drive[d].timer
             /\ saved'.drive[d].guarded = disks.drive[d].guarded
  <2>1. disks.drive[d] \in Drive
    BY DEF DiskInv, Fits, Disks
  <2>2. saved'.drive[d] = SavedDrive(disks.drive[d])
    BY <1>1
  <2>. QED BY <2>1, <2>2, SavedDriveIs
<1>3. saved'.drive \in [Drives -> Drive]
  <2>1. saved'.drive = [d \in Drives |-> SavedDrive(disks.drive[d])]
    BY <1>1
  <2>. QED BY <1>2, <2>1
<1>4. Apart(saved'.drive) /\ Writing(saved'.drive) /\ Owing(saved'.drive, active)
  BY <1>2 DEF DiskInv, Fits, Apart, Writing, Owing, Drives, Reads
<1>7. \A d \in Drives : saved'.drive[d].unread => ~ saved'.drive[d].dirty
  BY <1>2 DEF DiskInv, Fits, Reads
<1>5. saved'.active = active /\ saved'.motorOn = motorOn /\ saved'.writing = writing
  BY <1>1
<1>6. SavedFits'
  BY <1>3, <1>4, <1>5, <1>7 DEF SavedFits, DiskInv, TypeOK
<1>. QED BY <1>1, <1>6 DEF DiskInv, TypeOK

LEMMA LoadActKeeps ==
  ASSUME DiskInv, NoFaults, LoadState
  PROVE  /\ DiskInv' /\ UNCHANGED states
         /\ \E opened \in Openable : disks' = Loaded(opened)
<1>1. PICK opened \in Openable :
      /\ disks' = Loaded(opened) /\ active' = saved.active /\ motorOn' = saved.motorOn /\ writing' = saved.writing
      /\ activity' = activity /\ UNCHANGED states
  BY AnswersAreTrue DEF LoadState, Loaded, Openable
<1>2. Fits(disks') /\ Owing(disks'.drive, active')
  BY <1>1, LoadKeeps DEF DiskInv
<1>3. SavedFits'
  BY <1>1 DEF DiskInv, SavedFits, states
<1>4. TypeOK'
  BY <1>1, <1>2 DEF DiskInv, SavedFits, TypeOK, Fits
<1>. QED BY <1>1, <1>2, <1>3, <1>4 DEF DiskInv

----------------------------------------------------------------------------
(* The invariant *)

LEMMA DisksAtFirst ==
  ASSUME Init
  PROVE  DiskInv
<1>1. Empty \in Drive /\ Empty.dirty = FALSE /\ Empty.loaded = FALSE /\ Empty.image = NoImage
      /\ Empty.unread = FALSE
  BY DiskDriveAssumption, BlankIs DEF Empty, Drive
<1>2. /\ disks = [drive |-> [d \in Drives |-> Empty], file |-> [i \in Images |-> [t \in Tracks |-> Blank]]]
      /\ saved = Fresh /\ active = 0 /\ motorOn = FALSE /\ writing = FALSE /\ activity = FALSE
  BY DEF Init
<1>3. disks \in Disks
  BY <1>1, <1>2, BlankIs DEF Disks
<1>4. \A d \in Drives : disks.drive[d] = Empty
  BY <1>2
<1>5. Apart(disks.drive) /\ Writing(disks.drive) /\ Owing(disks.drive, active)
  BY <1>1, <1>4 DEF Apart, Writing, Owing, Drives
<1>6. Fits(disks)
  BY <1>1, <1>3, <1>4, <1>5 DEF Fits
<1>7. SavedFits
  <2>1. saved.drive = disks.drive /\ saved.active = active
    BY <1>2 DEF Fresh
  <2>2. saved.motorOn = FALSE /\ saved.writing = FALSE
    BY <1>2 DEF Fresh
  <2>3. saved.drive \in [Drives -> Drive]
    BY <1>3, <2>1 DEF Disks
  <2>4. \A d \in Drives : saved.drive[d].unread => ~ saved.drive[d].dirty
    BY <1>1, <1>4, <2>1
  <2>. QED BY <1>2, <1>5, <2>1, <2>2, <2>3, <2>4 DEF SavedFits, Drives
<1>. QED BY <1>2, <1>3, <1>5, <1>6, <1>7 DEF DiskInv, TypeOK, Drives

LEMMA SavedStays ==
  ASSUME DiskInv, UNCHANGED states
  PROVE  SavedFits'
BY DEF DiskInv, SavedFits, states

LEMMA NextKeepsDisks ==
  ASSUME DiskInv, NoFaults, Next
  PROVE  DiskInv'
<1>. SUFFICES Fits(disks') /\ Owing(disks'.drive, active') /\ TypeOK' /\ UNCHANGED states
  BY SavedStays DEF DiskInv
<1>1. CASE Access
  BY <1>1, AccessKeeps DEF Turning
<1>2. CASE Think
  BY <1>2, ThinkKeeps DEF Turning
<1>3. CASE \E d \in Drives, i \in Images, guard \in Guards : Insert(d, i, guard)
  BY <1>3, InsertActKeeps DEF Keeps
<1>4. CASE \E d \in Drives : Eject(d)
  BY <1>4, EjectActKeeps DEF Keeps
<1>5. CASE SwapDrives
  BY <1>5, SwapActKeeps DEF Keeps
<1>6. CASE \E d \in Drives, guard \in Guards : SetProtect(d, guard)
  BY <1>6, ProtectActKeeps DEF Keeps
<1>7. CASE Reset
  BY <1>7, ResetActKeeps DEF Keeps
<1>. QED BY <1>1, <1>2, <1>3, <1>4, <1>5, <1>6, <1>7 DEF Next

LEMMA DisksStay ==
  ASSUME DiskInv, UNCHANGED vars
  PROVE  DiskInv'
BY DEF DiskInv, TypeOK, SavedFits, vars, switches, states

\* The drives' invariant, through save states and loads too.
THEOREM DisksAreInductive ==
  ASSUME NoFaults
  PROVE  SavingSpec => []DiskInv
<1>1. Init => DiskInv
  BY DisksAtFirst
<1>2. DiskInv /\ [Next \/ SaveState \/ LoadState]_vars => DiskInv'
  BY NextKeepsDisks, SaveKeeps, LoadActKeeps, DisksStay
<1>. QED BY <1>1, <1>2, PTL DEF SavingSpec

LEMMA InvariantIsAgreement ==
  ASSUME DiskInv
  PROVE  HeadAndTrackAgree
<1>1. UnwrittenOnlyWhileTurning
  BY DEF DiskInv, Owing, UnwrittenOnlyWhileTurning
<1>2. HeadReadsItsTrack
  BY DiskDriveAssumption DEF DiskInv, Fits, HeadReadsItsTrack
<1>. QED BY <1>1, <1>2 DEF HeadAndTrackAgree, DiskInv

\* HeadAndTrackAgree holds for all images, tracks, contents and delays, under the
\* accesses, frames and host of a run in which no track is refused.
THEOREM HeadsAndTracksAgree ==
  ASSUME NoFaults
  PROVE  Spec => []HeadAndTrackAgree
<1>1. Init => DiskInv
  BY DisksAtFirst
<1>2. DiskInv /\ [Next]_vars => DiskInv'
  BY NextKeepsDisks, DisksStay
<1>3. DiskInv => HeadAndTrackAgree
  BY InvariantIsAgreement
<1>. QED BY <1>1, <1>2, <1>3, PTL DEF Spec

\* The same where the user saves and loads too: a load never leaves a head over
\* another track's cells, nor cells owed by a drive that stands.
THEOREM SavedHeadsAndTracksAgree ==
  ASSUME NoFaults
  PROVE  SavingSpec => []HeadAndTrackAgree
<1>1. DiskInv => HeadAndTrackAgree
  BY InvariantIsAgreement
<1>. QED BY <1>1, DisksAreInductive, PTL

----------------------------------------------------------------------------
(* The refinement of FloppyMedium *)

LEMMA MediumIsMediumOf == Medium = MediumOf(disks)
BY DEF Medium, MediumOf

LEMMA MapsHaveTypes ==
  ASSUME Fits(disks)
  PROVE  /\ Medium \in [Images -> [Tracks -> Contents]]
         /\ [d \in Drives |-> disks.drive[d].image] \in [Drives -> Images \cup {NoImage}]
         /\ [d \in Drives |-> disks.drive[d].track] \in [Drives -> Tracks]
         /\ {d \in Drives : disks.drive[d].guarded} \in SUBSET Drives
<1>1. \A d \in Drives : disks.drive[d] \in Drive
  BY DEF Fits, Disks
<1>2. \A d \in Drives : disks.drive[d].image \in Images \cup {NoImage} /\ disks.drive[d].track \in Tracks
  BY <1>1 DEF Drive
<1>3. Medium \in [Images -> [Tracks -> Contents]]
  BY MediumHasContents, MediumIsMediumOf
<1>. QED BY <1>2, <1>3

LEMMA InitMaps ==
  ASSUME Init
  PROVE  Floppies!Init
<1>1. Fits(disks)
  BY DisksAtFirst DEF DiskInv
<1>2. \A d \in Drives : disks.drive[d].guarded = FALSE
  BY DEF Init, Empty
<1>3. carried = {}
  BY DEF Init
<1>. QED BY <1>1, <1>2, <1>3, MapsHaveTypes DEF Floppies!Init

\* A handler in which the sequencer ran is a run of the program.
LEMMA TurningMaps ==
  ASSUME DiskInv, DiskInv', NEW c \in Contents \cup {NoCells}, Turning(disks', c), UNCHANGED states,
         NEW a \in Drives, a = active
  PROVE  Floppies!Run(a)
<1>0. active \in Drives
  OBVIOUS
<1>1. /\ Fits(Turn(c))
      /\ \/ MediumOf(Turn(c)) = MediumOf(disks)
         \/ /\ c \in Contents
            /\ disks.drive[active].image \in Images \ ReadOnly /\ ~ disks.drive[active].guarded
            /\ MediumOf(Turn(c)) = LaidOn(MediumOf(disks), disks.drive[active].image, disks.drive[active].track, c)
  BY <1>0, TurnKeeps DEF DiskInv
<1>. DEFINE held == [d \in Drives |-> disks.drive[d].image]
            head == [d \in Drives |-> disks.drive[d].track]
            guarded == {d \in Drives : disks.drive[d].guarded}
<1>2. Medium' = MediumOf(Turn(c)) /\ Medium = MediumOf(disks)
  BY MediumIsMediumOf DEF Turning, Medium, MediumOf
<1>3. held[a] = disks.drive[active].image /\ head[a] = disks.drive[active].track
      /\ (a \in guarded <=> disks.drive[active].guarded)
  BY <1>0
<1>4. \/ Medium' = Medium
      \/ /\ Floppies!Writable(a)
         /\ \E b \in Contents : Medium' = [Medium EXCEPT ![held[a]][head[a]] = b]
  BY <1>1, <1>2, <1>3 DEF LaidOn, Floppies!Writable
<1>5. head' \in [Drives -> Tracks]
  <2>1. \A d \in Drives : disks'.drive[d].track \in Tracks
    BY DEF Turning, Fits, Disks, Drive
  <2>. QED BY <2>1
<1>6. held' = held /\ guarded' = guarded
  BY DEF Turning, SameDisks
<1>. QED BY <1>4, <1>5, <1>6 DEF Floppies!Run, states

\* A handler of the host is disks changing hands.
LEMMA KeepingMaps ==
  ASSUME Keeps(disks'), UNCHANGED states
  PROVE  Floppies!Handle
<1>1. Medium' = Medium
  BY MediumIsMediumOf DEF Keeps, Medium, MediumOf
<1>2. \A d \in Drives : disks'.drive[d].image \in Images \cup {NoImage} /\ disks'.drive[d].track \in Tracks
  BY DEF Keeps, Fits, Disks, Drive
<1>. QED BY <1>1, <1>2 DEF Floppies!Handle, states

LEMMA NextMaps ==
  ASSUME DiskInv, DiskInv', NoFaults, Next
  PROVE  Floppies!Next
<1>0. PICK a \in Drives : a = active
  BY DEF DiskInv, TypeOK
<1>1. CASE Access
  <2>1. PICK c \in Contents \cup {NoCells} : Turning(disks', c) /\ UNCHANGED states
    BY <1>1, AccessKeeps
  <2>2. Floppies!Run(a)
    BY <1>0, <2>1, TurningMaps
  <2>. QED BY <1>0, <2>2 DEF Floppies!Next
<1>2. CASE Think
  <2>1. PICK c \in Contents \cup {NoCells} : Turning(disks', c) /\ UNCHANGED states
    BY <1>2, ThinkKeeps
  <2>2. Floppies!Run(a)
    BY <1>0, <2>1, TurningMaps
  <2>. QED BY <1>0, <2>2 DEF Floppies!Next
<1>3. CASE \/ \E d \in Drives, i \in Images, guard \in Guards : Insert(d, i, guard)
           \/ \E d \in Drives : Eject(d)
           \/ SwapDrives
           \/ \E d \in Drives, guard \in Guards : SetProtect(d, guard)
           \/ Reset
  <2>1. Keeps(disks') /\ UNCHANGED states
    BY <1>3, InsertActKeeps, EjectActKeeps, SwapActKeeps, ProtectActKeeps, ResetActKeeps
  <2>. QED BY <2>1, KeepingMaps DEF Floppies!Next
<1>. QED BY <1>1, <1>2, <1>3 DEF Next

LEMMA StutterMaps ==
  ASSUME UNCHANGED vars
  PROVE  UNCHANGED Floppies!vars
BY DEF vars, states, switches, Floppies!vars, Medium

\* Two drives over one-track buffers implement disks that keep what was written,
\* for all disks, tracks, contents and motor delays.
THEOREM DrivesKeepTheMedium ==
  ASSUME NoFaults
  PROVE  Spec => KeepsTheMedium
<1>1. Init => DiskInv /\ Floppies!Init
  BY DisksAtFirst, InitMaps
<1>2. DiskInv /\ [Next]_vars => DiskInv'
  BY NextKeepsDisks, DisksStay
<1>3. DiskInv /\ DiskInv' /\ [Next]_vars => [Floppies!Next]_Floppies!vars
  BY NextMaps, StutterMaps
<1>. QED BY <1>1, <1>2, <1>3, PTL DEF Spec, KeepsTheMedium, Floppies!Spec

----------------------------------------------------------------------------
(* Save states of half tracks, which is all that they can name *)

HalfTracks == \A t \in Tracks : 2 * (t \div 2) = t

\* What the save state carries is what its drives owed.
CarriedFits ==
  carried = {[image |-> saved.drive[d].image, track |-> saved.drive[d].track, cells |-> saved.drive[d].buffer] :
              d \in {e \in Drives : saved.drive[e].dirty}}

LEMMA CarriedAtFirst ==
  ASSUME Init
  PROVE  CarriedFits
<1>1. carried = {} /\ \A d \in Drives : saved.drive[d].dirty = FALSE
  BY DEF Init, Fresh, Empty
<1>. QED BY <1>1 DEF CarriedFits

LEMMA SaveCarries ==
  ASSUME DiskInv, HalfTracks, SaveState
  PROVE  CarriedFits'
<1>1. /\ carried' = {[image |-> disks.drive[d].image, track |-> disks.drive[d].track,
                      cells |-> AsBytes(disks.drive[d].buffer)] : d \in {e \in Drives : Reads(disks.drive[e])}}
      /\ \A d \in Drives : saved'.drive[d] = SavedDrive(disks.drive[d])
  BY DEF SaveState, Reads
<1>2. ASSUME NEW d \in Drives
      PROVE  /\ saved'.drive[d].image = disks.drive[d].image /\ saved'.drive[d].track = disks.drive[d].track
             /\ saved'.drive[d].dirty <=> Reads(disks.drive[d])
             /\ saved'.drive[d].dirty => saved'.drive[d].buffer = AsBytes(disks.drive[d].buffer)
  <2>1. disks.drive[d] \in Drive
    BY DEF DiskInv, Fits, Disks
  <2>2. 2 * (disks.drive[d].track \div 2) = disks.drive[d].track
    BY <2>1 DEF HalfTracks, Drive
  <2>. QED BY <1>1, <2>1, <2>2, SavedDriveIs
<1>. QED BY <1>1, <1>2 DEF CarriedFits

LEMMA CarriedKept ==
  ASSUME CarriedFits, UNCHANGED states
  PROVE  CarriedFits'
BY DEF CarriedFits, states

LEMMA NextKeepsStates ==
  ASSUME DiskInv, NoFaults, Next
  PROVE  UNCHANGED states
<1>1. CASE Access
  BY <1>1, AccessKeeps
<1>2. CASE Think
  BY <1>2, ThinkKeeps
<1>3. CASE \/ \E d \in Drives, i \in Images, guard \in Guards : Insert(d, i, guard)
           \/ \E d \in Drives : Eject(d)
           \/ SwapDrives
           \/ \E d \in Drives, guard \in Guards : SetProtect(d, guard)
           \/ Reset
  BY <1>3, InsertActKeeps, EjectActKeeps, SwapActKeeps, ProtectActKeeps, ResetActKeeps
<1>. QED BY <1>1, <1>2, <1>3 DEF Next

LEMMA SavingKeepsCarried ==
  ASSUME DiskInv, CarriedFits, NoFaults, HalfTracks, [Next \/ SaveState \/ LoadState]_vars
  PROVE  CarriedFits'
<1>1. CASE Next
  BY <1>1, NextKeepsStates, CarriedKept
<1>2. CASE SaveState
  BY <1>2, SaveCarries
<1>3. CASE LoadState
  BY <1>3, LoadActKeeps, CarriedKept
<1>4. CASE UNCHANGED vars
  BY <1>4, CarriedKept DEF vars
<1>. QED BY <1>1, <1>2, <1>3, <1>4

\* The drives of a save state owe one track between them.
LEMMA OneIsOwed ==
  ASSUME SavedFits, NEW d \in Drives, NEW e \in Drives, saved.drive[d].dirty, saved.drive[e].dirty
  PROVE  d = e
BY DEF SavedFits, Owing

\* After a load, a track is what the save state carries of it, or what it was.
LEMMA LoadedMediumIs ==
  ASSUME DiskInv, NEW opened \in Openable, NEW i \in Images, NEW t \in Tracks
  PROVE  /\ \A d \in opened : saved.drive[d].dirty /\ saved.drive[d].image = i /\ saved.drive[d].track = t =>
              MediumOf(Loaded(opened))[i][t] = saved.drive[d].buffer
         /\ (\A d \in opened : ~ (saved.drive[d].dirty /\ saved.drive[d].image = i /\ saved.drive[d].track = t)) =>
              MediumOf(Loaded(opened))[i][t] = MediumOf(disks)[i][t]
<1>. DEFINE v == Loaded(opened)
<1>1. /\ Fits(v) /\ v.file = AfterReset(TRUE).file
      /\ \A d \in Drives : /\ v.drive[d].image = IF d \in opened THEN saved.drive[d].image ELSE NoImage
                           /\ v.drive[d].dirty <=> saved.drive[d].dirty /\ d \in opened
                           /\ v.drive[d].dirty => /\ v.drive[d].track = saved.drive[d].track
                                                  /\ v.drive[d].buffer = saved.drive[d].buffer
  BY LoadKeeps DEF DiskInv
<1>. HIDE DEF v
<1>4. opened \subseteq Drives
  BY DEF Openable
<1>2. ASSUME NEW d \in opened, saved.drive[d].dirty, saved.drive[d].image = i, saved.drive[d].track = t
      PROVE  MediumOf(v)[i][t] = saved.drive[d].buffer
  <2>1. d \in Drives /\ v.drive[d].dirty /\ v.drive[d].image = i /\ v.drive[d].track = t
        /\ v.drive[d].buffer = saved.drive[d].buffer
    BY <1>1, <1>2, <1>4
  <2>. QED BY <1>1, <2>1, MediumIs
<1>3. ASSUME \A d \in opened : ~ (saved.drive[d].dirty /\ saved.drive[d].image = i /\ saved.drive[d].track = t)
      PROVE  MediumOf(v)[i][t] = MediumOf(disks)[i][t]
  <2>1. \A d \in Drives : ~ (v.drive[d].dirty /\ v.drive[d].image = i /\ v.drive[d].track = t)
    BY <1>1, <1>3
  <2>2. MediumOf(v)[i][t] = v.file[i][t]
    BY <1>1, <2>1, MediumIs
  <2>3. /\ Fits(AfterReset(TRUE)) /\ MediumOf(AfterReset(TRUE)) = MediumOf(disks)
        /\ \A d \in Drives : ~ AfterReset(TRUE).drive[d].dirty
    BY ResetKeeps DEF DiskInv
  <2>4. MediumOf(AfterReset(TRUE))[i][t] = AfterReset(TRUE).file[i][t]
    BY <2>3, MediumIs
  <2>. QED BY <1>1, <2>2, <2>3, <2>4
<1>. QED BY <1>2, <1>3 DEF v

\* What comes back of a track: what the save state carries of it, if a drive holds
\* its disk after the load
Back(i, t) == {c \in carried : c.image = i /\ c.track = t /\ \E d \in Drives : disks'.drive[d].image = i}

LEMMA BackIsBack ==
  ASSUME DiskInv, CarriedFits, NoFaults, LoadState, NEW i \in Images, NEW t \in Tracks
  PROVE  /\ \A c \in Back(i, t) : Medium'[i][t] = c.cells
         /\ Back(i, t) = {} => Medium'[i][t] = Medium[i][t]
<1>1. PICK opened \in Openable : disks' = Loaded(opened)
  BY LoadActKeeps
<1>2. Medium' = MediumOf(Loaded(opened)) /\ Medium = MediumOf(disks)
  BY <1>1, MediumIsMediumOf DEF Medium, MediumOf
<1>3. /\ \A d \in Drives : Loaded(opened).drive[d].image = IF d \in opened THEN saved.drive[d].image ELSE NoImage
      /\ opened \subseteq Drives /\ i # NoImage
  BY LoadKeeps, DiskDriveAssumption DEF DiskInv, Openable
<1>4. ASSUME NEW c \in Back(i, t)
      PROVE  Medium'[i][t] = c.cells
  <2>1. PICK d \in Drives : /\ saved.drive[d].dirty /\ i = saved.drive[d].image
                            /\ t = saved.drive[d].track /\ c.cells = saved.drive[d].buffer
    BY DEF Back, CarriedFits
  <2>2. PICK e \in Drives : disks'.drive[e].image = i
    BY DEF Back
  <2>3. e \in opened /\ saved.drive[e].image = i
    BY <1>1, <1>3, <2>2
  <2>4. d = e
    BY <1>3, <2>1, <2>3 DEF DiskInv, SavedFits, Apart, Drives
  <2>. QED BY <1>2, <2>1, <2>3, <2>4, LoadedMediumIs
<1>5. ASSUME Back(i, t) = {}
      PROVE  Medium'[i][t] = Medium[i][t]
  <2>1. ASSUME NEW d \in opened, saved.drive[d].dirty, saved.drive[d].image = i, saved.drive[d].track = t
        PROVE  FALSE
    <3>. DEFINE c == [image |-> saved.drive[d].image, track |-> saved.drive[d].track,
                      cells |-> saved.drive[d].buffer]
    <3>1. c \in carried
      BY <1>3, <2>1 DEF CarriedFits
    <3>2. c.image = i /\ c.track = t
      BY <2>1
    <3>3. d \in Drives /\ disks'.drive[d].image = i
      BY <1>1, <1>3, <2>1
    <3>. HIDE DEF c
    <3>4. c \in Back(i, t)
      BY <3>1, <3>2, <3>3 DEF Back
    <3>. QED BY <1>5, <3>4
  <2>. QED BY <1>2, <2>1, LoadedMediumIs
<1>. QED BY <1>4, <1>5

LEMMA LoadMaps ==
  ASSUME DiskInv, CarriedFits, NoFaults, LoadState
  PROVE  Floppies!Load
<1>1. DiskInv' /\ UNCHANGED states
  BY LoadActKeeps
<1>. DEFINE held == [d \in Drives |-> disks.drive[d].image]
            back == {c \in carried : \E d \in Drives : held'[d] = c.image}
<1>2. \A d \in Drives : held'[d] = disks'.drive[d].image
  OBVIOUS
<1>5. ASSUME NEW i \in Images, NEW t \in Tracks
      PROVE  Medium'[i][t] = IF \E c \in back : c.image = i /\ c.track = t
                             THEN (CHOOSE c \in back : c.image = i /\ c.track = t).cells
                             ELSE Medium[i][t]
  <2>0. \A c : c \in Back(i, t) <=> c \in back /\ c.image = i /\ c.track = t
    BY <1>2 DEF Back
  <2>. HIDE DEF back
  <2>1. CASE \E c \in back : c.image = i /\ c.track = t
    <3>. DEFINE c == CHOOSE x \in back : x.image = i /\ x.track = t
    <3>1. c \in back /\ c.image = i /\ c.track = t
      BY <2>1
    <3>. HIDE DEF c
    <3>2. Medium'[i][t] = c.cells
      BY <2>0, <3>1, BackIsBack
    <3>. QED BY <2>1, <3>2 DEF c
  <2>2. CASE ~ \E c \in back : c.image = i /\ c.track = t
    <3>1. Back(i, t) = {}
      BY <2>0, <2>2
    <3>. QED BY <2>2, <3>1, BackIsBack
  <2>. QED BY <2>1, <2>2
<1>6. Medium' = [i \in Images |-> [t \in Tracks |->
                   IF \E c \in back : c.image = i /\ c.track = t
                   THEN (CHOOSE c \in back : c.image = i /\ c.track = t).cells
                   ELSE Medium[i][t]]]
  <2>1. Medium' = [i \in Images |-> [t \in Tracks |-> Medium'[i][t]]]
    BY DEF Medium
  <2>. HIDE DEF back
  <2>. QED BY <1>5, <2>1
<1>7. \A d \in Drives : disks'.drive[d].image \in Images \cup {NoImage} /\ disks'.drive[d].track \in Tracks
  BY <1>1 DEF DiskInv, Fits, Disks, Drive
<1>. QED BY <1>1, <1>6, <1>7 DEF Floppies!Load, states

LEMMA SaveMaps ==
  ASSUME DiskInv, SaveState
  PROVE  Floppies!Save
<1>1. /\ carried' = {[image |-> disks.drive[d].image, track |-> disks.drive[d].track,
                      cells |-> AsBytes(disks.drive[d].buffer)] : d \in {e \in Drives : Reads(disks.drive[e])}}
      /\ disks' = disks
  BY DEF SaveState, Reads
<1>. DEFINE held == [d \in Drives |-> disks.drive[d].image]
            head == [d \in Drives |-> disks.drive[d].track]
            Reread == [c \in Contents |-> AsBytes(c)]
<1>2. ASSUME NEW d \in Drives, Reads(disks.drive[d])
      PROVE  /\ held[d] # NoImage
             /\ [image |-> disks.drive[d].image, track |-> disks.drive[d].track,
                 cells |-> AsBytes(disks.drive[d].buffer)] =
                [image |-> held[d], track |-> head[d], cells |-> Reread[Medium[held[d]][head[d]]]]
  <2>1. held[d] = disks.drive[d].image /\ head[d] = disks.drive[d].track
    OBVIOUS
  <2>2. held[d] \in Images /\ head[d] \in Tracks /\ Fits(disks) /\ disks.drive[d].buffer \in Contents
    BY <1>2, <2>1 DEF DiskInv, Fits, Writing, Disks, Drive, Reads
  <2>3. Medium[held[d]][head[d]] = disks.drive[d].buffer
    BY <1>2, <2>1, <2>2, MediumIs, MediumIsMediumOf DEF Reads
  <2>4. Reread[Medium[held[d]][head[d]]] = AsBytes(disks.drive[d].buffer)
    BY <2>2, <2>3
  <2>. QED BY <2>1, <2>2, <2>4, DiskDriveAssumption
<1>3. carried' \subseteq {[image |-> held[d], track |-> head[d], cells |-> Reread[Medium[held[d]][head[d]]]] :
                           d \in {e \in Drives : held[e] # NoImage}}
  <2>. DEFINE tracks == {[image |-> held[d], track |-> head[d], cells |-> Reread[Medium[held[d]][head[d]]]] :
                           d \in {e \in Drives : held[e] # NoImage}}
  <2>. SUFFICES ASSUME NEW c \in carried' PROVE c \in tracks
    OBVIOUS
  <2>1. PICK d \in Drives : /\ Reads(disks.drive[d])
                            /\ c = [image |-> disks.drive[d].image, track |-> disks.drive[d].track,
                                    cells |-> AsBytes(disks.drive[d].buffer)]
    BY <1>1
  <2>2. held[d] # NoImage /\ c = [image |-> held[d], track |-> head[d], cells |-> Reread[Medium[held[d]][head[d]]]]
    BY <1>2, <2>1
  <2>. QED BY <2>2
<1>4. Medium' = Medium
  BY <1>1 DEF Medium
<1>. QED BY <1>1, <1>3, <1>4 DEF Floppies!Save

\* The drives keep the medium through save states and loads: a load brings back, as
\* its bytes, the track the save state carries of a disk that opens, and touches no
\* other.
THEOREM SavedDrivesKeepTheMedium ==
  ASSUME NoFaults, HalfTracks
  PROVE  SavingSpec => KeepsTheMedium
<1>1. Init => DiskInv /\ CarriedFits /\ Floppies!Init
  BY DisksAtFirst, CarriedAtFirst, InitMaps
<1>2. DiskInv /\ CarriedFits /\ [Next \/ SaveState \/ LoadState]_vars => DiskInv' /\ CarriedFits'
  BY NextKeepsDisks, SaveKeeps, LoadActKeeps, DisksStay, SavingKeepsCarried
<1>3. DiskInv /\ CarriedFits /\ DiskInv' /\ [Next \/ SaveState \/ LoadState]_vars => [Floppies!Next]_Floppies!vars
  BY NextMaps, SaveMaps, LoadMaps, StutterMaps DEF Floppies!Next
<1>. QED BY <1>1, <1>2, <1>3, PTL DEF SavingSpec, KeepsTheMedium, Floppies!Spec

\* Every part-written track a save state carries bytes of comes back with its disk, if
\* the disk's file opens, and every other track is what it was when the load began,
\* whatever the drives, the disks and the image files went through since the save.
THEOREM LoadsBringBack ==
  ASSUME NoFaults, HalfTracks
  PROVE  SavingSpec => LoadBringsBack
<1>. DEFINE Brings == LoadState => \A i \in Images, t \in Tracks :
                        LET back == {c \in carried : c.image = i /\ c.track = t /\ Held(i)'}
                        IN  /\ \A c \in back : Medium'[i][t] = c.cells
                            /\ back = {} => Medium'[i][t] = Medium[i][t]
<1>1. Init => DiskInv /\ CarriedFits
  BY DisksAtFirst, CarriedAtFirst
<1>2. DiskInv /\ CarriedFits /\ [Next \/ SaveState \/ LoadState]_vars => DiskInv' /\ CarriedFits'
  BY NextKeepsDisks, SaveKeeps, LoadActKeeps, DisksStay, SavingKeepsCarried
<1>3. DiskInv /\ CarriedFits => [Brings]_vars
  <2>. SUFFICES ASSUME DiskInv, CarriedFits, LoadState, NEW i \in Images, NEW t \in Tracks
                PROVE  LET back == {c \in carried : c.image = i /\ c.track = t /\ Held(i)'}
                       IN  /\ \A c \in back : Medium'[i][t] = c.cells
                           /\ back = {} => Medium'[i][t] = Medium[i][t]
    OBVIOUS
  <2>1. Back(i, t) = {c \in carried : c.image = i /\ c.track = t /\ Held(i)'}
    BY DEF Back, Held
  <2>. QED BY <2>1, BackIsBack
<1>. QED BY <1>1, <1>2, <1>3, PTL DEF SavingSpec, LoadBringsBack
=============================================================================
