\* Save states and loads of one disk on two half tracks, which come blank.
CONSTANTS
  Images = {a}
  NoImage = none
  ReadOnly = {}
  Tracks = {0, 2}
  Bytes = {"silent", "new"}
  Factory = "silent"
  Silent = "silent"
  Gaps = {FALSE, TRUE}
  Delay = 1
  Guards = {FALSE}
  Faults = {}
SPECIFICATION SavingSpec
PROPERTY LoadBringsBack
CONSTRAINT SavesOwe
