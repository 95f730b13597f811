----------------------------- MODULE FloppyImages -----------------------------
(***************************************************************************)
(* How a floppy image reaches the drive: the loader that unpacks an        *)
(* archive into a temporary file, looks at the image and picks a driver    *)
(* (disk/DiskLoader.cpp, media/image_container/ImageContainer.cpp), the    *)
(* drivers' probes, and where each format finds a track in its file        *)
(* (formats/*.cpp).  Any call on the host's files may fail.  What a file    *)
(* holds at an offset is a name; the cells themselves are the business of  *)
(* TrackEncoding.                                                          *)
(***************************************************************************)
EXTENDS Integers, Sequences, FiniteSets

CONSTANTS FloppyFiles,    \* the files of the user, as records
          QuarterTracks,  \* where the head goes
          Threshold,      \* chunks an archive may unpack to whatever its ratio
          RatioLimit,     \* and how many times its own size beyond that
          MaxOpens        \* bound: images asked for

VARIABLES opening,   \* the loader's call under way
          temporaries, \* temporary files on the host's disk
          mounted,   \* the open image of the drive
          created,   \* path |-> "absent", "user" or the driver that made it
          opens

imageVars == <<opening, temporaries, mounted, created, opens>>

NoFile == [name |-> "none"]
Idle == [at |-> "idle", file |-> NoFile, written |-> 0, unpacked |-> FALSE]

-----------------------------------------------------------------------------
(* The drivers, in the alphabetical order of the registry *)

FloppyDrivers == <<"DOS Order", "IIE", "NB2 (6384-nibble)", "NIB (6656-nibble)",
                   "ProDOS Order", "WOZ 1", "WOZ 2">>

MacBinaryHeader == 128
base(file) == IF file.macbinary THEN MacBinaryHeader ELSE 0
payload(file) == file.size - base(file)

is_140k_image_size(size) == size \in 143105 .. 143364 \cup {143403, 143488}

sector_probe(file, order) ==
  IF ~is_140k_image_size(payload(file)) THEN "no"
  ELSE IF order \in file.reads THEN "definite" ELSE "possible"

sector_driver_probe(file, order, own, other) ==
  LET signature == sector_probe(file, order)
  IN  IF signature # "definite" /\ file.ext \in other THEN "no" ELSE signature

NibBytes == 35 * 6656
Nb2Bytes == 35 * 6384
nibble_disk_image_probe(file, bytes, ext) ==
  IF file.magic \in {"WOZ1", "WOZ2"} \/ payload(file) # bytes THEN "no"
  ELSE IF file.ext = ext THEN "definite" ELSE "possible"

magic_probe(file, magic, least) ==
  IF file.magic = magic /\ payload(file) >= least THEN "definite" ELSE "no"
woz1_probe(file) == magic_probe(file, "WOZ1", 256)
woz2_probe(file) == magic_probe(file, "WOZ2", 1536)
iie_probe(file) == magic_probe(file, "IIE", 14)

DosExtensions == {"do", "dsk"}
driver_probe(driver, file) ==
  CASE driver = "DOS Order"         -> sector_driver_probe(file, "dos", DosExtensions, {"po"})
    [] driver = "ProDOS Order"      -> sector_driver_probe(file, "prodos", {"po"}, DosExtensions)
    [] driver = "NIB (6656-nibble)" -> nibble_disk_image_probe(file, NibBytes, "nib")
    [] driver = "NB2 (6384-nibble)" -> nibble_disk_image_probe(file, Nb2Bytes, "nb2")
    [] driver = "WOZ 1"             -> woz1_probe(file)
    [] driver = "WOZ 2"             -> woz2_probe(file)
    [] driver = "IIE"               -> iie_probe(file)

\* The first definite claim, else the first possible one.
find_best_driver(file) ==
  LET claiming(answer) == {i \in DOMAIN FloppyDrivers :
                             driver_probe(FloppyDrivers[i], file) = answer}
      best == IF claiming("definite") # {} THEN claiming("definite") ELSE claiming("possible")
  IN  IF best = {} THEN "none" ELSE FloppyDrivers[CHOOSE i \in best : \A j \in best : i <= j]

-----------------------------------------------------------------------------
(* Where the formats keep a track: an offset of the file, or an answer *)

MaxTrackBits == 69632
Place(offset) == <<"cells", offset>>
Answer(word) == <<word, 0>>
Unrecorded == 255

sector_read_track(file, q) ==
  IF q \div 4 >= 35 THEN Answer("blank") ELSE Place(base(file) + 4096 * (q \div 4))

nibble_read_track(file, q, size) ==
  IF q \div 4 >= (payload(file) + size - 1) \div size THEN Answer("blank")
  ELSE Place(base(file) + size * (q \div 4))

\* A 1.0 record is a cell of 6,656 bytes behind the 256-byte header.
woz1_read_track(file, q) ==
  LET index == file.tmap[q]
      offset == base(file) + 256 + 6656 * index
  IN  CASE q >= 160 -> Answer("error")
        [] q < 160 /\ index = Unrecorded -> Answer("blank")
        [] OTHER ->
             IF \/ index >= file.records \/ offset + 6656 > file.size
                \/ file.bits[index] \notin 1 .. 8 * 6646 \/ file.bits[index] > MaxTrackBits
             THEN Answer("error") ELSE Place(offset)

\* (A plausible bug: blocks counted from the start of the file.)
woz2_read_track_headerless(file, q) ==
  LET index == file.tmap[q]
      blocks == file.blocks[index]
  IN  CASE q >= 160 -> Answer("error")
        [] q < 160 /\ index = Unrecorded -> Answer("blank")
        [] OTHER -> Place(512 * blocks[1])

\* A 2.0 record is a run of 512-byte blocks counted from the WOZ header.
woz2_read_track(file, q) ==
  LET index == file.tmap[q]
      blocks == file.blocks[index]
      bytes == 512 * blocks[2]
      offset == base(file) + 512 * blocks[1]
  IN  CASE q >= 160 -> Answer("error")
        [] q < 160 /\ index = Unrecorded -> Answer("blank")
        [] OTHER ->
             IF \/ index >= file.records
                \/ blocks[1] < 3 \/ blocks[2] \notin 1 .. MaxTrackBits \div 4096
                \/ file.bits[index] \notin 1 .. 8 * bytes \/ file.bits[index] > MaxTrackBits
                \/ offset + bytes > file.size
             THEN Answer("error") ELSE Place(offset)

\* The legacy layout's tracks begin inside the header; in the nibble layout
\* each begins where the one before it ends.
iie_offset(file, track) ==
  LET behind[t \in 0 .. 35] == IF t = 0 THEN base(file) + 88 ELSE behind[t - 1] + file.counts[t - 1]
  IN  IF file.variant <= 2 THEN base(file) + 30 + 4096 * track ELSE behind[track]
iie_read_track(file, q) ==
  IF q \div 4 >= 35 THEN Answer("blank") ELSE Place(iie_offset(file, q \div 4))

read_track(driver, file, q) ==
  CASE driver \in {"DOS Order", "ProDOS Order"} -> sector_read_track(file, q)
    [] driver = "NIB (6656-nibble)" -> nibble_read_track(file, q, 6656)
    [] driver = "NB2 (6384-nibble)" -> nibble_read_track(file, q, 6384)
    [] driver = "WOZ 1" -> woz1_read_track(file, q)
    [] driver = "WOZ 2" -> woz2_read_track(file, q)
    [] driver = "IIE"   -> iie_read_track(file, q)

\* What the drivers' open refuses beyond the files it cannot read: a file of
\* another size, a WOZ image that lacks a chunk, fails its checksum or is not
\* of a 5.25-inch disk, an IIE image whose tracks are not all there.
sector_open(file) == is_140k_image_size(payload(file))
nibble_open(file) == payload(file) \in 1 .. NibBytes
woz1_open(file) == file.whole /\ file.version = 1 /\ file.disk = "5.25" /\ file.crc
woz2_open(file) == file.whole /\ file.version \in {2, 3} /\ file.disk = "5.25" /\ file.crc
iie_open(file) ==
  /\ file.variant \in 0 .. 3
  /\ file.variant = 3 => \A t \in 0 .. 34 : file.counts[t] <= 6656
  /\ \A t \in 0 .. 34 :
       iie_offset(file, t) + (IF file.variant = 3 THEN file.counts[t] ELSE 4096) <= file.size

opens_well(driver, file) ==
  CASE driver \in {"DOS Order", "ProDOS Order"} -> sector_open(file)
    [] driver \in {"NIB (6656-nibble)", "NB2 (6384-nibble)"} -> nibble_open(file)
    [] driver = "WOZ 1" -> woz1_open(file)
    [] driver = "WOZ 2" -> woz2_open(file)
    [] driver = "IIE"   -> iie_open(file)

-----------------------------------------------------------------------------
(* disk_loader_open, a call of the host's files at a time *)

ImagesInit ==
  /\ opening = Idle /\ temporaries = 0 /\ opens = 0
  /\ mounted = [file |-> NoFile, driver |-> "none", read_only |-> FALSE]
  /\ created \in [{"new.dsk", "new.nib.gz"} -> {"absent", "user"}]

\* The drive closes the image it had and asks for another.
Begin ==
  /\ opening.at = "idle" /\ opens < MaxOpens
  /\ \E file \in FloppyFiles :
       opening' = [Idle EXCEPT !.at = IF file.archive = "no" THEN "probe" ELSE "make", !.file = file]
  /\ mounted' = [file |-> NoFile, driver |-> "none", read_only |-> FALSE]
  /\ opens' = opens + 1
  /\ UNCHANGED <<temporaries, created>>

\* The call returns: the guard, or the container, unlinks what was unpacked.
Returned == opening' = Idle /\ temporaries' = 0

MakeTemporary ==
  /\ opening.at = "make"
  /\ \/ opening' = Idle /\ UNCHANGED temporaries          \* mkstemp fails
     \/ opening' = [opening EXCEPT !.at = "unpack"] /\ temporaries' = temporaries + 1
  /\ UNCHANGED <<mounted, created, opens>>

\* decompress_gzip, decompress_zip: a chunk read, bounded, written.
exceeds_bound(file, written) ==
  written > Threshold /\ (file.packed = 0 \/ written > file.packed * RatioLimit)
Unpack ==
  /\ opening.at = "unpack"
  /\ IF opening.written < opening.file.expands
     THEN \/ /\ ~exceeds_bound(opening.file, opening.written + 1)
             /\ opening' = [opening EXCEPT !.written = @ + 1]
             /\ UNCHANGED temporaries
          \/ Returned                               \* too large, or the disk is full
     ELSE IF opening.file.intact
     THEN \/ /\ opening' = [opening EXCEPT !.at = "probe", !.unpacked = TRUE]
             /\ UNCHANGED temporaries
          \/ Returned                               \* fclose fails
     ELSE Returned                                  \* a truncated or empty archive
  /\ UNCHANGED <<mounted, created, opens>>

\* The header is read and the drivers probed; the driver opens the image, or
\* refuses it.  What was unpacked is unlinked as the call returns, open or not.
\* A host that lets the file be read only makes a protected disk of it.
Serve ==
  /\ opening.at = "probe"
  /\ Returned
  /\ LET file == opening.file
         driver == find_best_driver(file)
     IN  \/ UNCHANGED mounted                        \* fopen or fread fails
         \/ /\ driver # "none" /\ opens_well(driver, file)
            /\ mounted' = [file |-> file, driver |-> driver,
                           read_only |-> opening.unpacked \/ ~file.writable]
  /\ UNCHANGED <<created, opens>>

\* disk_loader_create: never over a file, never under an archive's name; what
\* fails half way is removed.
Archives == {"new.nib.gz"}
CreateImage ==
  /\ opening.at = "idle" /\ opens < MaxOpens
  /\ opens' = opens + 1
  /\ \E path \in DOMAIN created, driver \in {"DOS Order", "NIB (6656-nibble)", "WOZ 2"} :
       created' = IF \/ path \in Archives \/ created[path] # "absent"
                     \/ driver = "WOZ 2"               \* has no create
                  THEN created
                  ELSE [created EXCEPT ![path] = driver]
  /\ UNCHANGED <<opening, temporaries, mounted>>

ImagesNext == Begin \/ MakeTemporary \/ Unpack \/ Serve \/ CreateImage

-----------------------------------------------------------------------------
(* Properties *)

\* An open image is served by the driver of the format it is in, whatever its
\* name says, and every quarter track reads as the cells recorded for it: the
\* offsets of all formats agree with the file, a MacBinary header in front of
\* it or not; a damaged record is an error and never another track's cells.
ServesWhatIsRecorded ==
  mounted.driver # "none" =>
    LET file == mounted.file
    IN  /\ mounted.driver = file.holds
        /\ \A q \in QuarterTracks :
             LET answer == read_track(mounted.driver, file, q)
                 heard == IF answer[1] # "cells" THEN answer[1]
                          ELSE IF answer[2] \in DOMAIN file.layout THEN file.layout[answer[2]]
                          ELSE "junk"
             IN  heard = file.surface[q]

\* Whichever call fails on the way, the loader returns with no temporary file
\* behind it; an archive never unpacks beyond its bound; and what was unpacked
\* is never written to, since the writes would be lost with the file.
OpeningLeavesNothing ==
  /\ opening.at \in {"idle", "make"} => temporaries = 0
  /\ opening.written <= Threshold \/ opening.written <= opening.file.packed * RatioLimit
  /\ mounted.file.name # "none" /\ mounted.file.archive # "no" => mounted.read_only
  /\ \A path \in Archives : created[path] \in {"absent", "user"}

\* A disk image is opened whole and served as it was recorded, or not at all.
ImagesAreOpenedWhole == ServesWhatIsRecorded /\ OpeningLeavesNothing
=============================================================================
