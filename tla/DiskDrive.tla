------------------------------- MODULE DiskDrive -------------------------------
(***************************************************************************)
(* apple2/peripherals/disk/Disk.cpp: the Disk II card and its two drives.  *)
(* A drive holds one track of its image in a buffer, which the head writes *)
(* and which goes back to the image when the head leaves the track, the    *)
(* drive is deselected, the motor lapses, the card is reset or the disk is *)
(* ejected.  Every access first runs the sequencer up to the current       *)
(* cycle, which reads the track in when the head has moved.                *)
(*                                                                         *)
(* Where the magnets pull the head, and what the sequencer makes of the    *)
(* cells, is left open: a strobe may move the head to any track, and a     *)
(* head in write mode may lay any contents on the track.  What is told of  *)
(* the cells is what a save state makes of them: it keeps the bytes that   *)
(* the data register would read, and not the cells between them.           *)
(***************************************************************************)
EXTENDS Integers

CONSTANTS
  Images, NoImage,  \* image files, and an empty drive
  ReadOnly,         \* images whose driver or file cannot be written
  Tracks,           \* the quarter tracks in play
  Bytes,            \* what a track may read as
  Factory,          \* what it reads as from the factory
  Silent,           \* what a track reads as on which no byte is found
  Gaps,             \* whether zero cells may stand between the bytes
  Delay,            \* motor_off_delay_cycles, in thinks
  Guards,           \* the write protection a user may choose
  Faults            \* "refusal": a driver may refuse a track;
                    \* "protect": the user may protect a drive with cells to write

ASSUME DiskDriveAssumption ==
  /\ NoImage \notin Images
  /\ ReadOnly \subseteq Images
  /\ Tracks \subseteq Nat /\ 0 \in Tracks /\ \A t \in Tracks : 2 * (t \div 2) \in Tracks
  /\ Factory \in Bytes /\ "none" \notin Bytes
  /\ Gaps \subseteq BOOLEAN /\ FALSE \in Gaps
  /\ Delay \in Nat \ {0}
  /\ Guards \subseteq BOOLEAN
  /\ Faults \subseteq {"refusal", "protect"}

Drives == {0, 1}

Contents == {c \in [bytes : Bytes, gaps : Gaps] : c.bytes = Silent => ~ c.gaps}

Blank == [bytes |-> Factory, gaps |-> FALSE]

VARIABLES
  disks,     \* drives[] and the image files behind them
  active,    \* active_drive_index
  motorOn,   \* is_motor_on
  writing,   \* sequencer.q7
  activity,  \* peripheral_activity_state of the card's slot
  saved,     \* the save state last written
  carried    \* history: the tracks it carries, as they were on the medium

switches == <<active, motorOn, writing>>
states == <<saved, carried>>
vars == <<disks, switches, activity, states>>

Empty == [image |-> NoImage, track |-> 0, loaded |-> FALSE, buffer |-> Blank,
          dirty |-> FALSE, unread |-> FALSE, timer |-> 0, guarded |-> FALSE]

\* is_dirty is dirty where the buffer holds cells, and unread where a load found
\* none to put there.
Drive == [image : Images \cup {NoImage}, track : Tracks, loaded : BOOLEAN,
          buffer : Contents, dirty : BOOLEAN, unread : BOOLEAN, timer : 0 .. Delay, guarded : BOOLEAN]

Disks == [drive : [Drives -> Drive], file : [Images -> [Tracks -> Contents]]]

Fresh == [drive |-> [d \in Drives |-> Empty], active |-> 0, motorOn |-> FALSE, writing |-> FALSE]

TypeOK ==
  /\ disks \in Disks
  /\ active \in Drives
  /\ motorOn \in BOOLEAN /\ writing \in BOOLEAN /\ activity \in BOOLEAN

Init ==
  /\ disks = [drive |-> [d \in Drives |-> Empty],
              file |-> [i \in Images |-> [t \in Tracks |-> Blank]]]
  /\ active = 0 /\ motorOn = FALSE /\ writing = FALSE
  /\ activity = FALSE
  /\ saved = Fresh /\ carried = {}

-----------------------------------------------------------------------------
\* What the handlers are made of; w stands for disks part way through one.

Protected(w, d) == w.drive[d].guarded \/ w.drive[d].image \in ReadOnly

\* Whether the driver takes the track: it refuses one that will not decode.
Answers == IF "refusal" \in Faults THEN BOOLEAN ELSE {TRUE}

WriteTrack(w, d, takes) ==
  LET dr == w.drive[d]
  IN  IF dr.image = NoImage \/ Protected(w, d) \/ ~ takes THEN w
      ELSE [w EXCEPT !.drive[d].dirty = FALSE, !.file[dr.image][dr.track] = dr.buffer]

Flush(w, d, takes) == IF w.drive[d].dirty THEN WriteTrack(w, d, takes) ELSE w

ReadTrack(w, d) ==
  LET dr == w.drive[d]
  IN  [w EXCEPT !.drive[d].loaded = TRUE, !.drive[d].buffer = w.file[dr.image][dr.track],
                !.drive[d].dirty = dr.dirty \/ dr.unread, !.drive[d].unread = FALSE]

NoCells == [bytes |-> "none", gaps |-> FALSE]

\* Only a head in write mode lays any, in a drive that turns.
Turns == disks.drive[active].timer > 0
Cells == IF writing /\ Turns THEN Contents \cup {NoCells} ELSE {NoCells}

\* sync_sequencer_to_cycle: nothing turns in a drive that is not enabled; cells
\* c are laid when the head writes and at least one cell has passed.
Turn(c) ==
  LET read == IF disks.drive[active].image = NoImage \/ disks.drive[active].loaded
              THEN disks ELSE ReadTrack(disks, active)
      mayWrite == writing /\ ~ Protected(read, active) /\ read.drive[active].image # NoImage
  IN  IF disks.drive[active].timer = 0 THEN disks
      ELSE IF c = NoCells \/ ~ mayWrite THEN read
           ELSE [read EXCEPT !.drive[active].buffer = c, !.drive[active].dirty = TRUE]

\* Mutant: the old track's cells stay under the head.
MoveKeepingCells(w, d, t, takes) ==
  IF t = w.drive[d].track THEN w
  ELSE [Flush(w, d, takes) EXCEPT !.drive[d].track = t]

\* Clean cells that nobody will read again are forgotten.
Move(w, d, t, takes) ==
  LET left == Flush(w, d, takes)
  IN  IF t = w.drive[d].track THEN w
      ELSE [left EXCEPT !.drive[d].track = t, !.drive[d].loaded = FALSE,
                        !.drive[d].buffer = IF left.drive[d].dirty THEN @ ELSE Blank]

\* sync_drive_motor_state: the enable coming up lets the magnets pull the head.
PowerUp(w, d, on, t, takes) ==
  IF ~ on THEN w
  ELSE LET up == [w EXCEPT !.drive[d].timer = Delay]
       IN  IF w.drive[d].timer = 0 THEN Move(up, d, t, takes) ELSE up

-----------------------------------------------------------------------------
\* The program's accesses to $C0x0-$C0xF.

MotorSwitch(on, c, t, takes) ==
  LET turned == Turn(c)
  IN  /\ disks' = PowerUp(turned, active, on, t, takes)
      /\ motorOn' = on
      /\ activity' = (activity \/ (on /\ turned.drive[active].timer = 0))
      /\ UNCHANGED <<active, writing, states>>

\* A phase strobe; dropping the last magnet may take the move back.
Strobe(c, t, back, takes) ==
  LET turned == Turn(c)
  IN  /\ disks' = IF turned.drive[active].timer = 0 THEN turned
                  ELSE Move(Move(turned, active, t, takes), active, back, takes)
      /\ UNCHANGED <<switches, activity, states>>

Deselect(w, takes) == [Flush(w, active, takes) EXCEPT !.drive[active].timer = 0]

SelectDrive(d, c, t, takes) ==
  LET turned == Turn(c)
      left == IF d = active THEN turned ELSE Deselect(turned, takes)
  IN  /\ disks' = PowerUp(left, d, motorOn, t, takes)
      /\ active' = d
      /\ activity' = (activity \/ (motorOn /\ left.drive[d].timer = 0))
      /\ UNCHANGED <<motorOn, writing, states>>

\* Q7; the other mode switch and the data register only run the sequencer.
WriteMode(on, c) ==
  /\ disks' = Turn(c)
  /\ writing' = on
  /\ UNCHANGED <<active, motorOn, activity, states>>

Access ==
  \E c \in Cells, takes \in Answers :
    \/ \E on \in BOOLEAN, t \in Tracks : MotorSwitch(on, c, t, takes)
    \/ \E t, back \in IF Turns THEN Tracks ELSE {0} : Strobe(c, t, back, takes)
    \/ \E d \in Drives, t \in Tracks : SelectDrive(d, c, t, takes)
    \/ \E on \in BOOLEAN : WriteMode(on, c)

-----------------------------------------------------------------------------
\* The frame's end.

Lapses(w, d) == w.drive[d].timer = 1 /\ ~ motorOn

\* Mutant: the motor stops with cells still to be written.
CountDownUnwritten(w, d, takes) ==
  IF motorOn \/ w.drive[d].timer = 0 THEN w ELSE [w EXCEPT !.drive[d].timer = @ - 1]

CountDown(w, d, takes) ==
  LET later == [w EXCEPT !.drive[d].timer = @ - 1]
  IN  IF motorOn \/ w.drive[d].timer = 0 THEN w
      ELSE IF Lapses(w, d) THEN Flush(later, d, takes) ELSE later

Think ==
  \E c \in Cells, takes \in Answers :
    LET turned == Turn(c)
    IN  /\ disks' = CountDown(CountDown(turned, 0, takes), 1, takes)
        /\ activity' = (activity /\ \A d \in Drives : ~ Lapses(turned, d))
        /\ UNCHANGED <<switches, states>>

-----------------------------------------------------------------------------
\* The host.

\* Mutant: what the head wrote leaves with the disk.
EjectedUnwritten(w, d, takes) == [w EXCEPT !.drive[d] = Empty]

Ejected(w, d, takes) == [Flush(w, d, takes) EXCEPT !.drive[d] = Empty]

Eject(d) ==
  /\ \E takes \in Answers : disks' = Ejected(disks, d, takes)
  /\ UNCHANGED <<switches, activity, states>>

\* The user puts one file into one drive; a file that will not open leaves the
\* drive empty.
Insert(d, i, guard) ==
  /\ \A e \in Drives \ {d} : disks.drive[e].image # i
  /\ \E takes \in Answers, image \in {i, NoImage} :
       disks' = [Ejected(disks, d, takes) EXCEPT
                   !.drive[d] = [Empty EXCEPT !.guarded = guard, !.image = image]]
  /\ UNCHANGED <<switches, activity, states>>

SwapDrives ==
  /\ \A d \in Drives : disks.drive[d].timer = 0
  /\ disks' = [disks EXCEPT !.drive = [d \in Drives |-> disks.drive[1 - d]]]
  /\ UNCHANGED <<switches, activity, states>>

SetProtect(d, guard) ==
  /\ "protect" \in Faults \/ ~ guard \/ ~ (disks.drive[d].dirty \/ disks.drive[d].unread)
  /\ disks' = [disks EXCEPT !.drive[d].guarded = guard]
  /\ UNCHANGED <<switches, activity, states>>

AfterReset(takes) ==
  LET flushed == Flush(Flush(disks, 0, takes), 1, takes)
  IN  [flushed EXCEPT !.drive = [d \in Drives |-> [flushed.drive[d] EXCEPT !.timer = 0]]]

Reset ==
  /\ \E takes \in Answers : disks' = AfterReset(takes)
  /\ active' = 0 /\ motorOn' = FALSE /\ writing' = FALSE
  /\ UNCHANGED <<activity, states>>

\* decode_medium_bytes and encode_medium_bytes: out come the bytes a data register
\* would read from the index hole on, and back go eight cells to each.
AsBytes(c) == [c EXCEPT !.gaps = FALSE]

\* Mutant: the part-written track is left to the image, as a clean one is.
SavedDriveAsClean(dr) ==
  [dr EXCEPT !.track = 2 * (dr.track \div 2), !.loaded = FALSE, !.dirty = FALSE, !.buffer = Blank]

\* A half track is all a save state can name, and only a dirty track's bytes are
\* in it, if any are found there.
SavedDrive(dr) ==
  LET reads == dr.dirty /\ dr.buffer.bytes # Silent
  IN  [dr EXCEPT !.track = 2 * (dr.track \div 2), !.loaded = FALSE, !.dirty = reads,
                 !.unread = dr.unread \/ (dr.dirty /\ ~ reads),
                 !.buffer = IF reads THEN AsBytes(dr.buffer) ELSE Blank]

SaveState ==
  /\ saved' = [drive |-> [d \in Drives |-> SavedDrive(disks.drive[d])],
               active |-> active, motorOn |-> motorOn, writing |-> writing]
  /\ carried' = {[image |-> disks.drive[d].image, track |-> disks.drive[d].track,
                  cells |-> AsBytes(disks.drive[d].buffer)] :
                    d \in {e \in Drives : disks.drive[e].dirty /\ disks.drive[e].buffer.bytes # Silent}}
  /\ UNCHANGED <<disks, switches, activity>>

\* A disk whose file does not open any more leaves the drive empty, and what the
\* state holds of its track is passed over.
LoadDrive(w, d, takes, opened) ==
  LET out == Ejected(w, d, takes)
      dr == saved.drive[d]
      in == [dr EXCEPT !.loaded = ~ dr.unread,
                       !.buffer = IF dr.dirty THEN dr.buffer
                                  ELSE IF dr.unread THEN Blank ELSE out.file[dr.image][dr.track]]
  IN  [out EXCEPT !.drive[d] = IF d \notin opened
                               THEN [Empty EXCEPT !.guarded = dr.guarded] ELSE in]

\* snapshot_deserialize resets every card before it loads this one.
LoadState ==
  /\ \E takes \in Answers, opened \in SUBSET {d \in Drives : saved.drive[d].image # NoImage} :
       disks' = LoadDrive(LoadDrive(AfterReset(takes), 0, takes, opened), 1, takes, opened)
  /\ active' = saved.active /\ motorOn' = saved.motorOn /\ writing' = saved.writing
  /\ UNCHANGED <<activity, states>>

Next ==
  \/ Access
  \/ Think
  \/ \E d \in Drives, i \in Images, guard \in Guards : Insert(d, i, guard)
  \/ \E d \in Drives : Eject(d)
  \/ SwapDrives
  \/ \E d \in Drives, guard \in Guards : SetProtect(d, guard)
  \/ Reset

Spec == Init /\ [][Next]_vars

SavingSpec == Init /\ [][Next \/ SaveState \/ LoadState]_vars

\* peripheral_manager_think runs at the end of every frame.
FairSpec == Spec /\ WF_vars(Think)

-----------------------------------------------------------------------------
\* Cells that are not yet in the image are only ever in the buffer of the drive
\* that is turning: a drive that stops, is left or is swapped owes nothing.
UnwrittenOnlyWhileTurning ==
  \A d \in Drives : disks.drive[d].dirty => d = active /\ disks.drive[d].timer > 0

\* The head reads the track it stands on: a clean buffer in use is the image's.
HeadReadsItsTrack ==
  \A d \in Drives :
    LET dr == disks.drive[d]
    IN  dr.loaded /\ ~ dr.dirty => dr.image # NoImage /\ dr.buffer = disks.file[dr.image][dr.track]

\* The drives and the card speak of one track: the buffer is the track under the
\* head, and what is not yet in the image is written before the head leaves it.
HeadAndTrackAgree == TypeOK /\ UnwrittenOnlyWhileTurning /\ HeadReadsItsTrack

\* Tracks as the guest sees them: a dirty buffer in place of its track.
Medium == [i \in Images |-> [t \in Tracks |->
  LET over == {d \in Drives : disks.drive[d].dirty /\ disks.drive[d].image = i
                              /\ disks.drive[d].track = t}
  IN  IF over = {} THEN disks.file[i][t] ELSE disks.drive[CHOOSE d \in over : TRUE].buffer]]

Floppies == INSTANCE FloppyMedium WITH
  medium <- Medium,
  held <- [d \in Drives |-> disks.drive[d].image],
  head <- [d \in Drives |-> disks.drive[d].track],
  guarded <- {d \in Drives : disks.drive[d].guarded},
  Reread <- [c \in Contents |-> AsBytes(c)]

\* Two drives over one-track buffers implement disks that keep what was written.
KeepsTheMedium == Floppies!Spec

Held(i) == \E d \in Drives : disks.drive[d].image = i

\* A load brings back every part-written track the save state carries bytes of, if
\* its disk's file opens: as those bytes, whatever the drives, the disks and the
\* image files went through since the save.  Every other track of every disk stays
\* as it was when the load began, with what the drives still owed it.
LoadBringsBack ==
  [][LoadState => \A i \in Images, t \in Tracks :
       LET back == {c \in carried : c.image = i /\ c.track = t /\ Held(i)'}
       IN  /\ \A c \in back : Medium'[i][t] = c.cells
           /\ back = {} => Medium'[i][t] = Medium[i][t]]_vars

\* TLC follows the save states taken in write mode with something still to be written.
SavesOwe ==
  saved = Fresh \/ (saved.writing /\ (carried # {} \/ \E d \in Drives : saved.drive[d].unread))

\* What the head wrote reaches the image once the program lets the motor stop.
WrittenBack == \A d \in Drives : disks.drive[d].dirty ~> (~ disks.drive[d].dirty \/ motorOn)
=============================================================================
