\* A ring of three frames that is filled once around and once more.  Callbacks
\* of one and of two frames, so that a full ring is too long a backlog for one
\* and too short for the other, and uploads of two frames, of which a ring with
\* room for one takes one.
CONSTANTS
  Size = 6
  Cushion = 0
  Accumulator = 4
  Requests = {2, 4}
  Chunks = {4}
  MaxSent = 8
  MaxFlushes = 1
SPECIFICATION FairSpec
INVARIANTS
  RingKeepsTheSound
PROPERTY EverySampleLeaves
