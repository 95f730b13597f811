---------------------------- MODULE TrackEncoding ----------------------------
(***************************************************************************)
(* A floppy track between three forms: the sectors of an image file, the    *)
(* nibbles a 6-and-2 encoder makes of them, and the cells that pass under   *)
(* the head (disk/DiskEncoding.cpp), with the two kinds of writable image   *)
(* that use the conversions (formats/SectorDiskImage.cpp and                *)
(* formats/NibbleDiskImage.cpp).                                            *)
(*                                                                         *)
(* A bench around them: the head reads a track of the file, the guest       *)
(* rewrites data fields of it or formats it, at any cell, completely or      *)
(* cut short, and the track is flushed to the file.  Codes, prologues,       *)
(* checksums and interleave tables are the code's; a sector has             *)
(* 3 * Groups - 2 bytes where the code has 256 (Groups = 86), a track fewer  *)
(* sectors, and the gaps are shorter.                                                             *)
(***************************************************************************)
EXTENDS Integers, Sequences, Bitwise

CONSTANTS SectorsPerTrack,
          Groups,        \* iterations of the 6-and-2 encoder
          Gap1, Gap3,    \* sync nibbles before the first sector, after each
          SlotNibbles,   \* nibbles a track of a nibble image has room for
          TrackNumber,   \* the track on the bench
          Contents,      \* what a sector may hold: sequences of bytes
          Rewritten,     \* the sectors the guest rewrites
          Phases,        \* cells a write starts behind the address field
          Rotations,     \* cells a format starts behind the index hole
          MaxGuestWrites \* bound: rewrites and formats of a run

ASSUME BenchConstants ==
  /\ SectorsPerTrack \in {2, 4, 6, 10, 12, 14, 16} /\ Groups \in Nat \ {0, 1} /\ Gap1 \in Nat /\ Gap3 \in Nat
  /\ Rewritten \subseteq 0 .. SectorsPerTrack - 1 /\ Phases \subseteq Nat /\ Rotations \subseteq Nat

VARIABLES image,     \* the file: kind, and its sectors or its slot of nibbles
          inFile,    \* what each sector of the track must read as from it
          fileSeam,  \* where the first cell of the track it took lay
          surface,   \* the cells of the track under the head
          onSurface, \* what the guest left in each sector of the surface
          seam,      \* "gap": the first cell lies in a gap, ahead of enough of
                     \* it; "field": it may cut a field; "file": a slot says
          guestWrites
trackVars == <<image, inFile, fileSeam, surface, onSurface, seam, guestWrites>>

-----------------------------------------------------------------------------
(* 6-and-2 *)

SectorBytes == 3 * Groups - 2
Sectors == 0 .. SectorsPerTrack - 1
Code == <<150, 151, 154, 155, 157, 158, 159, 166, 167, 171, 172, 173, 174, 175, 178, 179,
          180, 181, 182, 183, 185, 186, 187, 188, 189, 190, 191, 203, 205, 206, 207, 211,
          214, 215, 217, 218, 219, 220, 221, 222, 223, 229, 230, 231, 233, 234, 235, 236,
          237, 238, 239, 242, 243, 244, 245, 246, 247, 249, 250, 251, 252, 253, 254, 255>>
Codes == {Code[i] : i \in 1 .. 64}
Decoded(nibble) == (CHOOSE i \in 1 .. 64 : Code[i] = nibble) - 1

\* Where each physical sector of a track lies in the file.  The code's two
\* tables are the multiples of 7 and of 8 modulo 15, the last sector its own.
InterleaveRow(order, sector) ==
  IF sector = SectorsPerTrack - 1 THEN sector
  ELSE ((IF order = "dos" THEN 7 ELSE 8) * sector) % (SectorsPerTrack - 1)

Swapped(b) == 2 * (b % 2) + ((b \div 2) % 2)
LowBits(data, i) == IF i <= SectorBytes THEN Swapped(data[i]) ELSE 0
\* The six-bit values of a sector: its low bits three to a value, then the rest.
SixBits(data) ==
  [i \in 1 .. Groups + SectorBytes |->
     IF i <= Groups
     THEN 16 * LowBits(data, i + 2 * Groups) + 4 * LowBits(data, i + Groups) + LowBits(data, i)
     ELSE data[i - Groups] \div 4]
FieldNibbles == Groups + SectorBytes + 1
EncodeSector(data) ==
  LET six == SixBits(data)
      At(i) == IF i \in DOMAIN six THEN six[i] ELSE 0
  IN  [i \in 1 .. FieldNibbles |-> Code[1 + (At(i - 1) ^^ At(i))]]

\* The sector a data field holds; <<>> for one no encoder could have written.
DecodeSector(field) ==
  IF \E i \in DOMAIN field : field[i] \notin Codes THEN <<>>
  ELSE LET six[i \in 0 .. FieldNibbles - 1] ==
             IF i = 0 THEN 0 ELSE six[i - 1] ^^ Decoded(field[i])
           low(i) == LET group == ((i - 1) % Groups) + 1
                         third == (i - 1) \div Groups
                     IN  Swapped((six[group] \div (4 ^ third)) % 4)
       IN  IF Decoded(field[FieldNibbles]) # six[FieldNibbles - 1] THEN <<>>
           ELSE [i \in 1 .. SectorBytes |-> 4 * six[Groups + i] + low(i)]

-----------------------------------------------------------------------------
(* Sectors to nibbles: every nibble with whether it is self-sync *)

D5 == 213   AA == 170   FF == 255
AddressPrologue == <<D5, AA, 150>>
DataPrologue == <<D5, AA, 173>>
Epilogue == <<222, AA, 235>>
Volume == 254
FourAndFour(v) == <<((v \div 2) & 85) | AA, (v & 85) | AA>>
AddressField(sector) ==
  AddressPrologue \o FourAndFour(Volume) \o FourAndFour(TrackNumber) \o FourAndFour(sector)
    \o FourAndFour((Volume ^^ TrackNumber) ^^ sector) \o Epilogue
DataField(data) == DataPrologue \o EncodeSector(data) \o Epilogue

Gap2 == 6
Marked(nibbles, sync) == [i \in DOMAIN nibbles |-> <<nibbles[i], sync>>]
SyncGap(length) == Marked([i \in 1 .. length |-> FF], TRUE)
NibblizeTrack(order, sectors) ==
  LET track[s \in 0 .. SectorsPerTrack] ==
        IF s = 0 THEN SyncGap(Gap1)
        ELSE track[s - 1] \o Marked(AddressField(s - 1), FALSE) \o SyncGap(Gap2)
                \o Marked(DataField(sectors[InterleaveRow(order, s - 1)]), FALSE) \o SyncGap(Gap3)
  IN  track[SectorsPerTrack]

-----------------------------------------------------------------------------
(* Nibbles to cells and back *)

\* (A plausible bug: self-sync nibbles have eight cells like any other.)
CellsOf_eight(nibble, sync) ==
  [i \in 1 .. 8 |-> (nibble \div (2 ^ (8 - i))) % 2]

CellsOf(nibble, sync) ==
  [i \in 1 .. (IF sync THEN 10 ELSE 8) |-> IF i > 8 THEN 0 ELSE (nibble \div (2 ^ (8 - i))) % 2]
RECURSIVE NibblesToBits(_)
NibblesToBits(marked) ==
  LET half == Len(marked) \div 2
  IN  CASE Len(marked) = 0 -> <<>>
        [] Len(marked) = 1 -> CellsOf(marked[1][1], marked[1][2])
        [] OTHER -> NibblesToBits(SubSeq(marked, 1, half))
                      \o NibblesToBits(SubSeq(marked, half + 1, Len(marked)))

\* Without a record of the sync nibbles, a run of FF that ends at a prologue
\* (round the end of the track, too) is a gap.
EndsAtPrologue(nibbles, from) ==
  LET n == Len(nibbles)
      stop == CHOOSE k \in from .. n + 1 :
                 /\ k = n + 1 \/ nibbles[k] # FF
                 /\ \A j \in from .. k - 1 : nibbles[j] = FF
  IN  nibbles[IF stop = n + 1 THEN 1 ELSE stop] = D5
WalkSyncRuns(nibbles) ==
  [i \in DOMAIN nibbles |-> <<nibbles[i], nibbles[i] = FF /\ EndsAtPrologue(nibbles, i)>>]

\* The shift register: skip to a pulse, take it and the seven cells behind it.
\* What does not fill a byte at the end of the track is dropped.  (Read in
\* halves: the register `bytes` bytes on.)
Byte(cells, k) ==
  128 * cells[k] + 64 * cells[k + 1] + 32 * cells[k + 2] + 16 * cells[k + 3]
    + 8 * cells[k + 4] + 4 * cells[k + 5] + 2 * cells[k + 6] + cells[k + 7]
RECURSIVE Pulse(_, _)
Pulse(cells, from) ==
  IF from + 7 > Len(cells) \/ cells[from] = 1 THEN from ELSE Pulse(cells, from + 1)
RECURSIVE Shifted(_, _, _)
Shifted(cells, register, bytes) ==
  IF register.at + 7 > Len(cells) THEN register
  ELSE IF bytes > 1
  THEN CHOOSE all \in {Shifted(cells, half, bytes - (bytes \div 2)) :
                          half \in {Shifted(cells, register, bytes \div 2)}} : TRUE
  ELSE [at |-> Pulse(cells, register.at + 8),
        nibbles |-> Append(register.nibbles, Byte(cells, register.at))]
BitsToNibbles(cells) ==
  Shifted(cells, [at |-> Pulse(cells, 1), nibbles |-> <<>>], (Len(cells) \div 8) + 1).nibbles

-----------------------------------------------------------------------------
(* Nibbles to sectors: the sixteen of them, or nothing *)

MaxMarkers == 3 * SectorsPerTrack

DenibblizeTrack(order, nibbles) ==
  LET n == Len(nibbles)
      At(i) == nibbles[((i - 1) % n) + 1]
      Taken(i, count) == [k \in 1 .. count |-> At(i + k - 1)]
      Value(i) == ((At(i) * 2 + 1) % 256) & At(i + 1)
      \* The position behind the next D5 AA, 0 when a revolution passes none.
      Marker(i) ==
        LET found == {k \in i .. i + n - 1 : At(k) = D5 /\ At(k + 1) = AA}
        IN  IF found = {} THEN 0 ELSE (CHOOSE k \in found : \A j \in found : k <= j) + 2
      \* A track half of whose sectors have come by: position, the sector the
      \* last address field named (-1: none), the sectors decoded so far.
      RECURSIVE Walk(_)
      Walk(w) ==
        IF w.done = Sectors \/ w.markers = MaxMarkers \/ Marker(w.at) = 0 THEN w
        ELSE LET p == Marker(w.at)
                 next == [w EXCEPT !.at = p + 1, !.markers = @ + 1]
             IN  CASE At(p) = AddressPrologue[3] ->
                        LET volume == Value(p + 1)
                            track == Value(p + 3)
                            sector == Value(p + 5)
                            holds == /\ Taken(p + 9, 3) = Epilogue
                                     /\ Value(p + 7) = ((volume ^^ track) ^^ sector)
                                     /\ track = TrackNumber
                                     /\ sector \in Sectors
                        IN  Walk([next EXCEPT !.at = p + 12,
                                              !.sector = IF holds THEN sector ELSE -1,
                                              !.refused = @ \/ ~holds])
                   [] At(p) = DataPrologue[3] ->
                        LET data == DecodeSector(Taken(p + 1, FieldNibbles))
                            holds == Taken(p + 1 + FieldNibbles, 3) = Epilogue /\ data # <<>>
                            moved == [next EXCEPT !.at = p + 4 + FieldNibbles, !.sector = -1]
                        IN  Walk(IF w.sector = -1 THEN moved
                                 ELSE IF ~holds THEN [moved EXCEPT !.refused = TRUE]
                                 ELSE LET file == InterleaveRow(order, w.sector)
                                      IN  [moved EXCEPT !.done = @ \cup {file},
                                                        !.staging[file] = data])
                   [] OTHER -> Walk(next)
      end == Walk([at |-> 1, markers |-> 0, sector |-> -1, refused |-> FALSE,
                   done |-> {}, staging |-> [s \in Sectors |-> <<>>]])
  IN  IF n = 0 \/ end.refused \/ end.done # Sectors THEN {} ELSE {end.staging}

-----------------------------------------------------------------------------
(* The two writable images *)

Kinds == {"dos", "prodos", "nibble"}
Blank == [i \in 1 .. SectorBytes |-> 0]
Padded(nibbles) == nibbles \o [i \in 1 .. SlotNibbles - Len(nibbles) |-> FF]
Values(marked) == [i \in DOMAIN marked |-> marked[i][1]]

\* A new image is a formatted disk of zero sectors; a sector image need not
\* say so, a nibble image lays the tracks out.
create(kind, recorded, writable) ==
  [kind |-> kind, recorded |-> recorded, writable |-> writable,
   sectors |-> [s \in Sectors |-> Blank],
   slot |-> IF kind = "nibble" THEN Padded(Values(NibblizeTrack("dos", [s \in Sectors |-> Blank])))
                               ELSE <<>>]

\* A track the file does not record is blank surface.
read_track_bits(file) ==
  IF ~file.recorded THEN <<>>
  ELSE NibblesToBits(IF file.kind = "nibble" THEN WalkSyncRuns(file.slot)
                     ELSE NibblizeTrack(file.kind, file.sectors))

\* The file behind a flush, nothing when it is refused: a sector image takes a
\* track whose sixteen sectors all read, a nibble image any that fits.
write_track_bits(file, cells) ==
  IF ~file.writable THEN {}
  ELSE IF ~file.recorded THEN {file}
  ELSE LET read == {nibbles \in {BitsToNibbles(cells)} : Len(nibbles) <= SlotNibbles}
       IN  IF file.kind = "nibble"
           THEN {[file EXCEPT !.slot = Padded(nibbles)] : nibbles \in read}
           ELSE {[file EXCEPT !.sectors = sectors] :
                   sectors \in UNION {DenibblizeTrack(file.kind, nibbles) : nibbles \in read}}

-----------------------------------------------------------------------------
(* The bench *)

Broken == <<>>
TrackInit ==
  /\ \E kind \in Kinds, recorded, writable \in BOOLEAN :
       image = create(kind, recorded, writable)
  /\ inFile = [s \in Sectors |-> Blank] /\ fileSeam = "gap"
  /\ surface = <<>> /\ seam = "gap" /\ guestWrites = 0
  /\ onSurface = [s \in Sectors |-> Broken]

\* The head comes to the track.
HeadArrives ==
  /\ surface' = read_track_bits(image)
  /\ onSurface' = IF image.recorded THEN inFile ELSE [s \in Sectors |-> Broken]
  /\ seam' = IF image.kind = "nibble" /\ fileSeam # "gap" THEN "file" ELSE "gap"
  /\ UNCHANGED <<image, inFile, fileSeam, guestWrites>>

Cut(cells, from, count) == SubSeq(cells, from, from + count - 1)
Spells(stream, from, word) == \A i \in DOMAIN word : stream[from + i - 1] = word[i]
Overlaid(cells, from, new) ==
  [i \in DOMAIN cells |-> LET k == ((i - from) % Len(surface)) + 1
                          IN  IF k <= Len(new) THEN new[k] ELSE cells[i]]

\* The guest finds a sector's address field and writes a data field behind it:
\* five self-sync nibbles, the field; cut short, the first half of it.
RewriteSector ==
  /\ surface # <<>> /\ guestWrites < MaxGuestWrites
  /\ guestWrites' = guestWrites + 1
  /\ \E sector \in Rewritten :
       \E address \in {NibblesToBits(Marked(AddressField(sector), FALSE))} :
       \E place \in 1 .. Len(surface) - Len(address) :
          /\ Spells(surface, place, address)
          /\ \E data \in Contents, phase \in Phases, whole \in BOOLEAN :
             \E written \in {NibblesToBits(SyncGap(5) \o Marked(DataField(data), FALSE))} :
             \E laid \in {IF whole THEN written
                          ELSE Cut(written, 1, 50 + 8 * (3 + FieldNibbles \div 2))} :
                /\ whole \/ onSurface[sector] \notin {data, Broken}
                /\ surface' = Overlaid(surface, place + Len(address) + phase, laid)
                /\ onSurface' = [onSurface EXCEPT ![sector] = IF whole THEN data ELSE Broken]
  /\ UNCHANGED <<image, inFile, fileSeam, seam>>

\* The guest formats the track, starting wherever the head happens to be: the
\* first cell of the buffer falls anywhere in what is written.
FormatTrack ==
  /\ guestWrites < MaxGuestWrites /\ surface # <<>>
  /\ guestWrites' = guestWrites + 1
  /\ \E data \in Contents, turned \in Rotations :
     \E cells \in {NibblesToBits(NibblizeTrack("dos", [s \in Sectors |-> data]))} :
        /\ surface' = Overlaid(surface, turned + 1, cells)
        /\ seam' = IF turned <= 10 * Gap3 THEN "gap" ELSE "field"
        /\ onSurface' = [s \in Sectors |-> data]
  /\ UNCHANGED <<image, inFile, fileSeam>>

FlushTrack ==
  /\ surface # <<>>
  /\ \E taken \in {write_track_bits(image, surface)} :
       IF taken = {} THEN UNCHANGED <<image, inFile, fileSeam>>
       ELSE image' \in taken /\ inFile' = onSurface /\ fileSeam' = seam
  /\ UNCHANGED <<surface, onSurface, seam, guestWrites>>

TrackNext == HeadArrives \/ RewriteSector \/ FormatTrack \/ FlushTrack

-----------------------------------------------------------------------------
(* Properties *)

\* What a head finds of a sector in a stream of nibbles: the contents of the
\* data field that follows the sector's address field.
Found(nibbles, sector) ==
  LET field == AddressField(sector)
      last == Len(nibbles) - FieldNibbles - 6
      First(from, word) ==
        LET places == {k \in from .. last : Spells(nibbles, k, word)}
        IN  IF places = {} THEN 0 ELSE CHOOSE k \in places : \A j \in places : k <= j
      address == First(1, field)
      at == First(address + 3, <<D5, AA>>)
      read == DecodeSector(Cut(nibbles, at + 3, FieldNibbles))
      holds == /\ address # 0 /\ at # 0
               /\ Spells(nibbles, at, DataPrologue)
               /\ Spells(nibbles, at + 3 + FieldNibbles, Epilogue)
  IN  IF holds THEN read ELSE Broken

\* Whatever the phase of a write, the head that turns over the surface finds
\* in every sector what the guest left there (the ten-cell self-sync nibbles
\* bring its shift register back into step behind every splice).
SurfaceReadsBack ==
  surface # <<>> /\ seam # "file" =>
    LET stream == BitsToNibbles(surface \o surface)
    IN  \A s \in Sectors : Found(stream, s) = onSurface[s]

\* The sectors on the surface that is made of the file.
FoundInFile ==
  LET turn == read_track_bits(image)
      stream == BitsToNibbles(turn \o turn)
  IN  [s \in Sectors |-> Found(stream, s)]

\* The file holds the track the last flush took: every sector of a sector
\* image lies where its order says, every sector of a nibble image is found
\* again on the surface made of the slot.  A flush that was refused left no
\* trace, and a sector image never takes a track with a broken sector.
FileHoldsTheTrack ==
  image.recorded =>
    IF image.kind = "nibble" THEN fileSeam = "gap" => FoundInFile = inFile
    ELSE \A s \in Sectors : image.sectors[InterleaveRow(image.kind, s)] = inFile[s]

\* "The pad after a shorter track joins its closing gap as sync"
\* (NibbleDiskImage.cpp:224): no sector of a track a nibble image takes is lost
\* to where the track happens to begin in the buffer.
PadJoinsTheClosingGap ==
  image.recorded /\ image.kind = "nibble" => FoundInFile = inFile

\* A track is what was written to it, on the surface and in the file.
TracksKeepTheirSectors == SurfaceReadsBack /\ FileHoldsTheTrack
=============================================================================
