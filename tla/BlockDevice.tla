------------------------------ MODULE BlockDevice ------------------------------
(***************************************************************************)
(* The ProDOS block device: the loader that decides how an image file is   *)
(* served (harddisk/HarddiskLoader.cpp and its format drivers), the block  *)
(* images (formats/BlockDiskImage.cpp) and the controller with its two     *)
(* drives (harddisk/Harddisk.cpp).  The other actor is the driver in the   *)
(* card's ROM, one ProDOS call at a time.  The data port moves a half      *)
(* block at a time here, so that a buffer holds two values; a half's value *)
(* is the number of the call that wrote it.                                *)
(***************************************************************************)
EXTENDS Integers, Sequences, FiniteSets

CONSTANTS Images,        \* the image files there are, as records
          BlockNumbers,  \* blocks the programs name
          MaxBlockCalls, \* bound: calls of the driver
          MaxBlockSteps  \* bound: host commands, resets, saves and loads

(* block_disk_image_probe_signature looks for an order's signature only in  *)
(* a file of the size of a floppy disk; a header's fields are unsigned.    *)
ASSUME BlockDeviceAssumption ==
    /\ BlockNumbers \subseteq Nat
    /\ \A image \in Images :
          /\ image # [name |-> "none"] /\ image.size \in Nat
          /\ image.magic \in {"none", "2IMG", "WOZ"}
          /\ image.reads \subseteq {"dos", "prodos"}
          /\ image.reads # {} => image.size = 280 * 512
          /\ image.magic = "2IMG" =>
               /\ {image.header[field] : field \in {"header_size", "data_offset", "data_length",
                                                   "block_count"}} \subseteq Nat
               /\ {image.header.comment.offset, image.header.comment.length,
                   image.header.creator.offset, image.header.creator.length} \subseteq Nat

VARIABLES controller,  \* struct HarddiskPeripheral without its drives
          volumes,     \* 0, 1 |-> struct Harddisk
          files,       \* image |-> sector |-> value
          call,        \* the ProDOS call under way
          torn,        \* the blocks a failed write left half written
          blockLight,  \* the host's activity light of the slot
          blockKept,   \* a save state
          blockSteps

blockVars == <<controller, volumes, files, call, torn, blockLight, blockKept, blockSteps>>

Volumes == {0, 1}
NoImage == [name |-> "none"]

-----------------------------------------------------------------------------
(* Orders.  Block k of a track is a pair of DOS 3.3 sectors.               *)

DosSectorsOfBlock == <<<<0, 14>>, <<13, 12>>, <<11, 10>>, <<9, 8>>,
                       <<7, 6>>, <<5, 4>>, <<3, 2>>, <<1, 15>>>>

BlockSector(order, block, half) ==
    IF order = "dos"
    THEN 16 * (block \div 8) + DosSectorsOfBlock[1 + (block % 8)][1 + half]
    ELSE 2 * block + half

BlockSize == 512
DosBlocks == 280
DosSize == DosBlocks * BlockSize

-----------------------------------------------------------------------------
(* two_img_parse: what a 2IMG header serves, or no format.                 *)

TwoImgLeast == 64

ChunkIsPlaced(end, size, chunk) ==
    chunk.length = 0 \/ (chunk.offset >= end /\ chunk.offset + chunk.length <= size)

TwoImg(image) ==
    LET h == image.header
        begin == IF h.data_offset = 0 THEN h.header_size ELSE h.data_offset
        named == IF h.data_length = 0 /\ h.format = "prodos"
                 THEN h.block_count * BlockSize ELSE h.data_length
        length == IF named = 0 THEN image.size - begin ELSE named
        agrees == h.format = "prodos" /\ h.block_count # 0 /\ h.data_length # 0 =>
                    h.block_count * BlockSize = h.data_length
        sound == /\ h.header_size \in TwoImgLeast .. image.size
                 /\ begin \in h.header_size .. image.size
                 /\ agrees
                 /\ length > 0 /\ length % BlockSize = 0 /\ begin + length <= image.size
                 /\ h.format = "dos" => length = DosSize
                 /\ h.format \in {"dos", "prodos"}
                 /\ \A chunk \in {h.comment, h.creator} :
                       ChunkIsPlaced(begin + length, image.size, chunk)
    IN IF sound THEN [begin |-> begin, blocks |-> length \div BlockSize, order |-> h.format]
       ELSE [begin |-> 0, blocks |-> 0, order |-> "none"]

-----------------------------------------------------------------------------
(* The format drivers' probes, in the alphabetical order of the registry.  *)

Signature(image, order) ==
    IF image.size # DosSize THEN "no"
    ELSE IF order \in image.reads THEN "definite" ELSE "possible"

ProDosNames == {"po", "hdv", "img"}
DosNames == {"do", "dsk"}
TwoImgNames == {"2mg", "2img", "2meg"}
NibbleNames == {"nib", "nb2", "woz"}

Drivers == <<"2MG", "DOS Order", "Nibble image", "ProDOS Order">>

TwoImgProbe(image) == IF image.magic = "2IMG" THEN "definite" ELSE "no"

NibbleProbe(image) ==
    IF image.ext \in NibbleNames \/ image.magic = "WOZ" THEN "definite" ELSE "no"

DosProbe(image) ==
    LET sig == Signature(image, "dos")
    IN IF sig # "definite" /\ image.ext \in ProDosNames \cup TwoImgNames THEN "no" ELSE sig

ProDosProbe(image) ==
    LET sig == Signature(image, "prodos")
        misnamed == image.ext \in DosNames \cup TwoImgNames
    IN CASE sig = "definite" -> "definite"
         [] sig # "definite" /\ (image.size % BlockSize # 0 \/ misnamed) -> "no"
         [] OTHER -> "possible"

Probe(driver, image) ==
    CASE driver = "2MG" -> TwoImgProbe(image)
      [] driver = "DOS Order" -> DosProbe(image)
      [] driver = "Nibble image" -> NibbleProbe(image)
      [] driver = "ProDOS Order" -> ProDosProbe(image)

(* find_best_driver: the first definite claim, else the first possible.    *)
FindBestDriver(image) ==
    LET Claiming(answer) == {i \in 1 .. 4 : Probe(Drivers[i], image) = answer}
        best == IF Claiming("definite") # {} THEN Claiming("definite") ELSE Claiming("possible")
    IN IF best = {} THEN "none" ELSE Drivers[CHOOSE i \in best : \A j \in best : i <= j]

(* block_disk_image_open: a file the host will not let us write, and one   *)
(* unpacked to a temporary, are served read only.                          *)
BlockImage(image, order, blocks, begin, locked) ==
    [error |-> "none", order |-> order, blocks |-> blocks, begin |-> begin,
     readOnly |-> locked \/ image.packed \/ ~image.writable]

NotServed(error) ==
    [error |-> error, order |-> "none", blocks |-> 0, begin |-> 0, readOnly |-> FALSE]

TwoImgOpened(image) ==
    LET parsed == TwoImg(image)
    IN IF parsed.blocks = 0 THEN NotServed("invalid_format")
       ELSE BlockImage(image, parsed.order, parsed.blocks, parsed.begin, image.header.locked)

ProDosOpened(image) ==
    IF image.size < BlockSize THEN NotServed("invalid_format")
    ELSE BlockImage(image, "prodos", image.size \div BlockSize, 0, FALSE)

(* harddisk_loader_open                                                    *)
VolumeOpened(image) ==
    LET driver == FindBestDriver(image)
    IN CASE driver = "none" -> NotServed("invalid_format")
         [] driver = "Nibble image" -> NotServed("not_block_image")
         [] driver = "2MG" -> TwoImgOpened(image)
         [] driver = "DOS Order" -> BlockImage(image, "dos", DosBlocks, 0, FALSE)
         [] driver = "ProDOS Order" -> ProDosOpened(image)

SectorsUsed == {BlockSector(o, b, h) : o \in {"dos", "prodos"}, b \in BlockNumbers, h \in {0, 1}}

-----------------------------------------------------------------------------
(* The drives                                                              *)

EmptyVolume == [image |-> NoImage, as |-> [error |-> "none"], protect |-> FALSE]

Loaded(d) == volumes[d].image # NoImage
Protected(d) == volumes[d].protect \/ (Loaded(d) /\ volumes[d].as.readOnly)

(* insert_harddisk_into_drive: what was there is ejected first, so that a  *)
(* refused image leaves the drive empty.                                   *)
InsertedVolume(image, protect) ==
    LET as == VolumeOpened(image)
    IN [image |-> IF as.error = "none" THEN image ELSE NoImage, as |-> as, protect |-> protect]

BlockContent(held, order, block) ==
    <<held[BlockSector(order, block, 0)], held[BlockSector(order, block, 1)]>>

BlockOn(d, block) == BlockContent(files[volumes[d].image], volumes[d].as.order, block)

-----------------------------------------------------------------------------
(* The controller                                                          *)

PowerOn ==
    [unit |-> 0, command |-> "status", block |-> 0, buffer |-> <<0, 0>>, index |-> 0,
     phase |-> "idle", poisoned |-> FALSE, result |-> "ok", count |-> 0]

(* end_data_phase tells the host of the light.                             *)
LightAfter(c) == IF c.phase = "read_out" THEN FALSE ELSE blockLight

MinCount(n) == IF n < 65535 THEN n ELSE 65535

(* The checks of execute_command, in their order.                          *)
Refusal(c) ==
    IF c.command \notin {"status", "read", "write", "format"} THEN "io"
    ELSE IF ~Loaded(c.unit) THEN "no_device"
    ELSE IF c.command \in {"write", "format"} /\ Protected(c.unit) THEN "protected"
    ELSE IF c.command \in {"read", "write"} /\ c.block >= volumes[c.unit].as.blocks THEN "io"
    ELSE IF c.command = "write" /\ c.poisoned THEN "io"
    ELSE "ok"

(* A write goes out in one piece, or in two on an image in DOS order; the  *)
(* host's file system may refuse any of them, or the flush.                *)
WriteBlock(c, written) ==
    LET v == volumes[c.unit]
        pieces == IF v.as.order = "dos" THEN {<<>>, <<0>>, <<0, 1>>} ELSE {<<>>, <<0, 1>>}
        Sector(h) == BlockSector(v.as.order, c.block, h)
    IN /\ written \in pieces
       /\ files' = [files EXCEPT ![v.image] =
                      [s \in SectorsUsed |->
                         IF \E i \in 1 .. Len(written) : Sector(written[i]) = s
                         THEN c.buffer[1 + CHOOSE h \in {0, 1} : Sector(h) = s] ELSE @[s]]]
       /\ torn' = IF written = <<0>> /\ c.buffer[1] # BlockOn(c.unit, c.block)[2]
                  THEN torn \cup {<<v.image, c.block>>}
                  ELSE IF written = <<0, 1>> THEN torn \ {<<v.image, c.block>>} ELSE torn

(* harddisk_io_command, written.                                           *)
Execute(c) ==
    LET refusal == Refusal(c)
        d == c.unit
    IN CASE refusal # "ok" ->
              /\ controller' =
                   [c EXCEPT !.result = refusal,
                             !.poisoned = @ /\ ~(c.command = "write" /\ refusal = "io"
                                                 /\ Loaded(d) /\ c.block < volumes[d].as.blocks)]
              /\ UNCHANGED <<files, torn, blockLight>>
         [] refusal = "ok" /\ c.command = "status" ->
              /\ controller' = [c EXCEPT !.result = "ok", !.count = MinCount(volumes[d].as.blocks)]
              /\ UNCHANGED <<files, torn, blockLight>>
         [] refusal = "ok" /\ c.command = "format" ->
              /\ controller' = [c EXCEPT !.result = "ok"]
              /\ UNCHANGED <<files, torn, blockLight>>
         [] refusal = "ok" /\ c.command = "read" ->
              /\ \/ /\ controller' = [c EXCEPT !.result = "ok", !.index = 0, !.phase = "read_out",
                                               !.buffer = BlockOn(d, c.block)]
                    /\ blockLight' = TRUE
                 \/ /\ controller' = [c EXCEPT !.result = "io"]
                    /\ UNCHANGED blockLight
              /\ UNCHANGED <<files, torn>>
         [] refusal = "ok" /\ c.command = "write" ->
              \E written \in {<<>>, <<0>>, <<0, 1>>}, flushed \in BOOLEAN :
                 /\ WriteBlock(c, written)
                 /\ flushed => written = <<0, 1>>
                 /\ controller' = IF flushed
                                  THEN [c EXCEPT !.result = "ok", !.index = 0, !.phase = "idle"]
                                  ELSE [c EXCEPT !.result = "io"]
                 /\ blockLight' = IF flushed THEN FALSE ELSE blockLight

-----------------------------------------------------------------------------
(* The driver at $Cn46                                                     *)

NoCall == [step |-> "none", cmd |-> "status", drive |-> 0, block |-> 0, data |-> 0,
           got |-> <<>>, answer |-> "ok", content |-> <<>>, stale |-> FALSE, number |-> 0]

(* The unit first, which closes whatever phase the buffer was in.          *)
BeginCall ==
    /\ call.step \in {"none", "done"} /\ call.number < MaxBlockCalls
    /\ \E cmd \in {"status", "read", "write"}, d \in Volumes, b \in BlockNumbers :
          /\ cmd = "status" => b = 0 /\ d = 0
          /\ call' = [NoCall EXCEPT !.step = IF cmd = "write" THEN "push" ELSE "execute",
                                    !.cmd = cmd, !.drive = d, !.block = b,
                                    !.data = call.number + 1, !.number = call.number + 1]
          /\ controller' = [controller EXCEPT !.unit = d, !.index = 0, !.phase = "idle",
                                              !.block = b]
    /\ blockLight' = LightAfter(controller)
    /\ UNCHANGED <<volumes, files, torn, blockKept, blockSteps>>

Pushed(c, value) ==
    [c EXCEPT !.buffer[c.index + 1] = value, !.index = (@ + 1) % 2, !.phase = "write_in"]

PushHalf ==
    /\ call.step = "push"
    /\ controller' = Pushed(controller, call.data)
    /\ blockLight' = LightAfter(controller)
    /\ call' = [call EXCEPT !.got = Append(@, call.data),
                            !.step = IF Len(call.got) = 1 THEN "execute" ELSE "push"]
    /\ UNCHANGED <<volumes, files, torn, blockKept, blockSteps>>

ExecuteCall ==
    /\ call.step = "execute"
    /\ UNCHANGED <<volumes, blockKept, blockSteps>>
    /\ Execute([controller EXCEPT !.command = call.cmd])
    /\ LET d == controller.unit
       IN call' = [call EXCEPT !.answer = controller'.result, !.got = <<>>,
                      !.content = IF ~Loaded(d) THEN <<>>
                                  ELSE BlockContent(files'[volumes[d].image], volumes[d].as.order,
                                               controller.block),
                      !.step = IF controller'.result = "ok" /\ call.cmd = "read"
                               THEN "pull" ELSE "done"]

PullHalf ==
    LET c == controller
        next == (c.index + 1) % 2
        ends == c.phase = "read_out" /\ next = 0
    IN /\ call.step = "pull"
       /\ controller' = [c EXCEPT !.index = next, !.phase = IF ends THEN "idle" ELSE @]
       /\ blockLight' = IF ends THEN FALSE ELSE blockLight
       /\ call' = [call EXCEPT !.got = Append(@, c.buffer[c.index + 1]),
                               !.step = IF Len(call.got) = 1 THEN "done" ELSE "pull"]
       /\ UNCHANGED <<volumes, files, torn, blockKept, blockSteps>>

-----------------------------------------------------------------------------
(* The host.  A frontend's command runs between two frames.                *)

CountBlockStep == blockSteps < MaxBlockSteps /\ blockSteps' = blockSteps + 1

Insert ==
    /\ CountBlockStep
    /\ \E d \in Volumes, image \in Images :
          /\ \A e \in Volumes : volumes[e].image # image
          /\ volumes' = [volumes EXCEPT ![d] = InsertedVolume(image, FALSE)]
    /\ UNCHANGED <<controller, files, call, torn, blockLight, blockKept>>

Eject ==
    /\ CountBlockStep
    /\ \E d \in Volumes : Loaded(d) /\ volumes' = [volumes EXCEPT ![d] = EmptyVolume]
    /\ UNCHANGED <<controller, files, call, torn, blockLight, blockKept>>

SetProtect ==
    /\ CountBlockStep
    /\ \E d \in Volumes : volumes' = [volumes EXCEPT ![d].protect = ~@]
    /\ UNCHANGED <<controller, files, call, torn, blockLight, blockKept>>

(* power_on leaves the buffer as it is; the 6502 leaves the driver.        *)
BlockReset ==
    /\ CountBlockStep
    /\ controller' = [PowerOn EXCEPT !.buffer = controller.buffer]
    /\ call' = [NoCall EXCEPT !.number = call.number]
    /\ UNCHANGED <<volumes, files, torn, blockLight, blockKept>>

(* The frame holds the registers and not the buffer.                       *)
BlockSave ==
    /\ CountBlockStep
    /\ blockKept' = [none |-> FALSE, controller |-> [controller EXCEPT !.buffer = <<0, 0>>],
                     call |-> call]
    /\ UNCHANGED <<controller, volumes, files, call, torn, blockLight>>

\* (A plausible bug: the buffer is kept whatever its block holds by now.)
LoadedController_trusting(c) == [c EXCEPT !.poisoned = FALSE]

LoadedController(c) ==
    CASE c.phase = "read_out" /\ Loaded(c.unit) /\ c.block < volumes[c.unit].as.blocks ->
           [c EXCEPT !.poisoned = FALSE, !.buffer = BlockOn(c.unit, c.block)]
      [] c.phase = "write_in" -> [c EXCEPT !.poisoned = TRUE]
      [] OTHER -> [c EXCEPT !.poisoned = FALSE]

(* The images are files and not part of the state: a read in flight goes   *)
(* on with what the drive holds now.                                       *)
BlockLoad ==
    /\ ~blockKept.none /\ CountBlockStep
    /\ controller' = LoadedController(blockKept.controller)
    /\ call' = [blockKept.call EXCEPT
                  !.number = call.number,
                  !.stale = @ \/ (blockKept.call.step = "pull"
                                    /\ controller'.buffer # blockKept.call.content)]
    /\ UNCHANGED <<volumes, files, torn, blockLight, blockKept>>

-----------------------------------------------------------------------------
BlockInit ==
    /\ controller = PowerOn
    /\ \E image \in Images :
          /\ VolumeOpened(image).error = "none"
          /\ volumes = [d \in Volumes |-> IF d = 0 THEN InsertedVolume(image, FALSE)
                                          ELSE EmptyVolume]
    /\ files = [image \in Images |-> [s \in SectorsUsed |-> 0]]
    /\ call = NoCall
    /\ torn = {}
    /\ blockLight = FALSE
    /\ blockKept = [none |-> TRUE]
    /\ blockSteps = 0

BlockNext ==
    \/ BeginCall \/ PushHalf \/ ExecuteCall \/ PullHalf
    \/ Insert \/ Eject \/ SetProtect \/ BlockReset \/ BlockSave \/ BlockLoad

BlockSpec == BlockInit /\ [][BlockNext]_blockVars

-----------------------------------------------------------------------------
(* A call the driver answers without an error is whole: a block it wrote   *)
(* is on the image with both halves of this call, a block it read is what  *)
(* the image held; no block is ever left half written but by a write that  *)
(* was answered with an error, whatever order the image is in and wherever *)
(* a save state was taken and loaded.                                      *)
BlockCallsAreWhole ==
    /\ call.step = "done" /\ call.answer = "ok" /\ call.cmd = "write" =>
         call.content = <<call.data, call.data>>
    /\ call.step = "done" /\ call.answer = "ok" /\ call.cmd = "read" /\ ~call.stale =>
         call.got = call.content
    /\ \A image \in Images :
          LET as == VolumeOpened(image)
          IN as.error = "none" =>
               \A b \in {n \in BlockNumbers : n < as.blocks} :
                  LET content == BlockContent(files[image], as.order, b)
                  IN content[1] # content[2] => <<image, b>> \in torn

(* An image is served in the order its contents read in, whatever it is    *)
(* called, when they read in one order only; what it serves lies in the    *)
(* file and outside the chunks of its wrapper; and nothing is ever written *)
(* to an image that was unpacked or that its wrapper locks.                *)
ServedAsItReads ==
    \A d \in Volumes :
       Loaded(d) =>
         LET image == volumes[d].image
             as == volumes[d].as
             end == as.begin + as.blocks * BlockSize
         IN /\ image.magic = "none" /\ Cardinality(image.reads) = 1 => as.order \in image.reads
            /\ end <= image.size
            /\ image.magic = "2IMG" =>
                 \A chunk \in {image.header.comment, image.header.creator} :
                    chunk.length = 0 \/ chunk.offset >= end \/ chunk.offset + chunk.length <= as.begin
            /\ image.packed \/ ~image.writable =>
                 \A s \in SectorsUsed : files[image][s] = 0

\* The volumes keep what was written, in the blocks it was written to.
VolumesKeepTheirBlocks == BlockCallsAreWhole /\ ServedAsItReads
=============================================================================
