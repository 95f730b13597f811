\* A track that cannot be written when the head leaves it: its driver refuses it,
\* or the user has protected the drive since.
CONSTANTS
  Images = {a}
  NoImage = none
  ReadOnly = {}
  Tracks = {0, 2}
  Bytes = {"old", "new"}
  Factory = "old"
  Silent = "silent"
  Gaps = {FALSE}
  Delay = 2
  Guards = {TRUE, FALSE}
  Faults = {"refusal", "protect"}
SPECIFICATION Spec
PROPERTY KeepsTheMedium
