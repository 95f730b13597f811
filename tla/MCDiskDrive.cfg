\* Two disks, both writable, on two half tracks.
CONSTANTS
  Images = {a, b}
  NoImage = none
  ReadOnly = {}
  Tracks = {0, 2}
  Bytes = {"old", "new"}
  Factory = "old"
  Silent = "silent"
  Gaps = {FALSE}
  Delay = 2
  Guards = {TRUE, FALSE}
  Faults = {}
SPECIFICATION FairSpec
INVARIANT HeadAndTrackAgree
PROPERTY KeepsTheMedium WrittenBack
