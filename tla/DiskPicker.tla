----------------------------- MODULE DiskPicker -----------------------------
(* The chooser of disk images (FileBrowser.cpp), which a frontend's keys move   *)
(* through the folders of the host. The list is what the folder held when it   *)
(* was read; the folder may change under it.                                    *)
EXTENDS Integers, Sequences, FiniteSets, SequencesExt

CONSTANTS
  HostDisks,       \* [path -> set of files] what the host's folders may hold; no path, no folder
  SlotCards,       \* [slot -> card]: "disk", "harddisk", "none"
  Extensions,      \* [card -> extensions it takes]
  MaxEntries,      \* max_directory_entries
  PageSize         \* disk_select_page_size

VARIABLES
  hostDisk,        \* what the folders hold now
  picker,          \* DiskBrowser
  startDirs,       \* current_dir of floppies, hdd_dir of hard disks; NoDir when empty
  drives,          \* [<<card, drive>> -> image]: what the drives hold
  recorded,        \* the same in the configuration
  trail            \* history: the folders that led to this one

pickerVars == <<hostDisk, picker, startDirs, drives, recorded, trail>>

(* A path is its names, from the root or from where the program was started.   *)
Path(rooted, names) == [rooted |-> rooted, names |-> names]
NoDir == Path(FALSE, << >>)
Dot == Path(FALSE, <<".">>)
Below(dir, name) == [dir EXCEPT !.names = Append(@, name)]
(* The last separator and what follows it go; a relative path of one name has  *)
(* no separator and stays.                                                     *)
FolderAbove(dir) ==
  IF dir.rooted THEN [dir EXCEPT !.names = IF @ = << >> THEN @ ELSE Front(@)]
  ELSE IF Len(dir.names) > 1 THEN [dir EXCEPT !.names = Front(@)] ELSE dir

----------------------------------------------------------------------------
(* The list of a folder: the way up, the folders, the images the slot's card   *)
(* takes; a folder that cannot be read has not even the way up.                *)
UpEntry == [kind |-> "up", name |-> "..", rank |-> 0]
EntryKinds == [dir |-> 1, file |-> 2]
ComesBefore(e, f) ==
  EntryKinds[e.kind] < EntryKinds[f.kind] \/ (e.kind = f.kind /\ e.rank < f.rank)
file_browser_is_extension_supported(card, file) == Extensions[card] = {} \/ file.ext \in Extensions[card]
Listed(card, files) ==
  {[kind |-> f.kind, name |-> f.name, rank |-> f.rank] :
     f \in {g \in files : ~g.hidden /\ (g.kind = "dir" \/ file_browser_is_extension_supported(card, g))}}
get_sorted_directory(card, dir) ==
  LET way == IF dir = Path(TRUE, << >>) THEN << >> ELSE <<UpEntry>>
      some == CHOOSE S \in SUBSET Listed(card, hostDisk[dir]) :
                Cardinality(S) = Cardinality(Listed(card, hostDisk[dir])) \/ Cardinality(S) + Len(way) = MaxEntries
  IN  IF dir \in DOMAIN hostDisk THEN way \o SetToSortSeq(some, ComesBefore) ELSE << >>

Refreshed(p) ==
  [p EXCEPT !.entries = get_sorted_directory(SlotCards[p.slot], p.dir), !.chosen = 0, !.first = 0]
ClosedPicker(p) == [p EXCEPT !.active = FALSE, !.entries = << >>]
OpenedPicker(slot, drive) ==
  LET dir == CASE SlotCards[slot] = "harddisk" /\ startDirs.hard # NoDir -> startDirs.hard
               [] startDirs.floppy # NoDir /\ (SlotCards[slot] # "harddisk" \/ startDirs.hard = NoDir) -> startDirs.floppy
               [] OTHER -> Dot
  IN  Refreshed([active |-> TRUE, slot |-> slot, drive |-> drive, dir |-> dir,
                 entries |-> << >>, chosen |-> 0, first |-> 0])

(* Rows count from 0. The choice drags the first row shown behind it.          *)
Shown(p) ==
  CASE p.chosen < p.first -> [p EXCEPT !.first = p.chosen]
    [] p.chosen >= p.first + PageSize -> [p EXCEPT !.first = p.chosen - PageSize + 1]
    [] OTHER -> p
Lesser(a, b) == IF a < b THEN a ELSE b
Moved(p, delta) ==
  IF p.entries = << >> THEN p
  ELSE IF delta < 0 THEN Shown([p EXCEPT !.chosen = IF @ > 0 THEN @ - 1 ELSE 0])
  ELSE Shown([p EXCEPT !.chosen = IF @ + 1 < Len(p.entries) THEN @ + 1 ELSE @])
Paged(p, direction) ==
  IF p.entries = << >> THEN p
  ELSE IF direction < 0 THEN Shown([p EXCEPT !.chosen = IF @ <= PageSize THEN 0 ELSE @ - PageSize])
  ELSE Shown([p EXCEPT !.chosen = Lesser(@ + PageSize, Len(p.entries) - 1)])
Homed(p) == [p EXCEPT !.chosen = 0, !.first = 0]
Ended(p) ==
  IF p.entries = << >> THEN p
  ELSE [p EXCEPT !.chosen = Len(p.entries) - 1,
                 !.first = IF Len(p.entries) <= PageSize THEN 0 ELSE Len(p.entries) - PageSize]
\* The letter of an entry is its rank in tens; ".." has 0.
Jumped(p, letter) ==
  LET rows == {i \in 1 .. Len(p.entries) : p.entries[i].rank \div 10 = letter}
  IN  IF rows = {} THEN p ELSE Shown([p EXCEPT !.chosen = (CHOOSE i \in rows : \A j \in rows : i <= j) - 1])

----------------------------------------------------------------------------
NoImage == Below(NoDir, "none")
(* The image of a path, if there still is one; a drive whose image cannot be   *)
(* opened is left empty, and what it holds then is what is recorded.           *)
Held(dir, name) ==
  IF dir \in DOMAIN hostDisk /\ \E f \in hostDisk[dir] : f.name = name /\ f.kind = "file"
  THEN Below(dir, name) ELSE NoImage
Inserted(card, drive, dir, name) ==
  LET held == [drives EXCEPT ![<<card, drive>>] = Held(dir, name)]
  IN  drives' = held /\ recorded' = [recorded EXCEPT ![<<card, drive>>] = held[<<card, drive>>]]

KeepImages == UNCHANGED <<startDirs, drives, recorded>>
Enters(dir, road) ==
  picker' = Refreshed([picker EXCEPT !.dir = dir]) /\ trail' = road /\ KeepImages
ConfirmUp(entry) ==
  entry.kind = "up" /\ Enters(FolderAbove(picker.dir), IF trail = << >> THEN trail ELSE Front(trail))
ConfirmFolder(entry) ==
  entry.kind = "dir" /\ Enters(Below(picker.dir, entry.name), Append(trail, picker.dir))
ConfirmImage(entry) ==
  LET inSlot == SlotCards[picker.slot]
  IN  /\ entry.kind = "file" /\ picker' = ClosedPicker(picker) /\ trail' = << >>
      /\ startDirs' = IF inSlot = "harddisk" THEN [startDirs EXCEPT !.hard = picker.dir]
                      ELSE [startDirs EXCEPT !.floppy = picker.dir]
      /\ IF inSlot = "none" THEN UNCHANGED <<drives, recorded>>
         ELSE Inserted(inSlot, picker.drive, picker.dir, entry.name)
disk_browser_confirm ==
  IF picker.chosen >= Len(picker.entries) THEN UNCHANGED <<picker, trail>> /\ KeepImages
  ELSE LET entry == picker.entries[picker.chosen + 1]
       IN  ConfirmUp(entry) \/ ConfirmFolder(entry) \/ ConfirmImage(entry)

PickerBecomes(p) ==
  picker' = p /\ trail' = (IF p.active /\ picker.active THEN trail ELSE << >>) /\ KeepImages
\* A slot without the card asked for opens nothing.
tui_disk_select_open(slot, drive) ==
  IF slot \notin DOMAIN SlotCards THEN UNCHANGED <<picker, trail>> /\ KeepImages
  ELSE picker' = OpenedPicker(slot, drive) /\ trail' = << >> /\ KeepImages

PickerInit ==
  /\ hostDisk \in HostDisks
  /\ picker = [active |-> FALSE, slot |-> 0, drive |-> 0, dir |-> NoDir, entries |-> << >>, chosen |-> 0, first |-> 0]
  /\ startDirs \in [floppy : {NoDir, Path(TRUE, << >>)}, hard : {NoDir}]
  /\ drives = [d \in {"disk", "harddisk"} \X {0, 1} |-> NoImage] /\ recorded = drives /\ trail = << >>
HostChanges == hostDisk' \in HostDisks \ {hostDisk} /\ UNCHANGED <<picker, startDirs, drives, recorded, trail>>

----------------------------------------------------------------------------
(* Whatever moves it, through folders that change meanwhile, the choice is a   *)
(* row of the list and one of the rows of its page, folders stand before       *)
(* images, the way up of a folder leads where it was entered from, and the     *)
(* configuration records what the drives hold (disk_browser_move to            *)
(* disk_browser_confirm).                                                      *)
PickerFollowsItsFolder ==
  /\ picker.active /\ picker.entries # << >> =>
       /\ picker.chosen < Len(picker.entries)
       /\ picker.first <= picker.chosen /\ picker.chosen < picker.first + PageSize
       /\ \A i, j \in DOMAIN picker.entries :
            i < j => picker.entries[j].kind # "up" /\ (picker.entries[j].kind = "dir" => picker.entries[i].kind # "file")
  /\ trail # << >> => FolderAbove(picker.dir) = Last(trail)
  /\ recorded = drives
============================================================================
