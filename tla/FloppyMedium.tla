----------------------------- MODULE FloppyMedium -----------------------------
(***************************************************************************)
(* What a pair of drives promises: every track of every disk holds what a  *)
(* head last laid on it, whichever drive it was in, however often the head *)
(* moved on, the motor stopped or the disk changed hands since.            *)
(***************************************************************************)
CONSTANTS
  Drives, Images, NoImage, ReadOnly, Tracks, Contents,
  Reread    \* a track's contents once its bytes have been read out and laid again

VARIABLES
  medium,   \* medium[i][t]: the cells of track t of disk i
  held,     \* the disk in each drive
  head,     \* the track under each head
  guarded,  \* the drives the user has write protected
  carried   \* what the save state holds: tracks the files lack, as their bytes

vars == <<medium, held, head, guarded, carried>>

Carried == [image : Images, track : Tracks, cells : Contents]

Init ==
  /\ medium \in [Images -> [Tracks -> Contents]]
  /\ held \in [Drives -> Images \cup {NoImage}]
  /\ head \in [Drives -> Tracks]
  /\ guarded = {}
  /\ carried = {}

Writable(d) == held[d] \in Images \ ReadOnly /\ d \notin guarded

\* The program runs: the disk under one head may be written before the heads
\* move on.
Run(d) ==
  /\ \/ medium' = medium
     \/ /\ Writable(d)
        /\ \E c \in Contents : medium' = [medium EXCEPT ![held[d]][head[d]] = c]
  /\ head' \in [Drives -> Tracks]
  /\ UNCHANGED <<held, guarded, carried>>

\* Disks change hands and drives are protected: no cell moves.
Handle ==
  /\ held' \in [Drives -> Images \cup {NoImage}]
  /\ guarded' \in SUBSET Drives
  /\ head' \in [Drives -> Tracks]
  /\ UNCHANGED <<medium, carried>>

Save ==
  /\ carried' \in SUBSET {[image |-> held[d], track |-> head[d], cells |-> Reread[medium[held[d]][head[d]]]] :
                           d \in {e \in Drives : held[e] # NoImage}}
  /\ UNCHANGED <<medium, held, head, guarded>>

\* A save state brings back the tracks it carries of the disks that are in the
\* drives after it, and touches no other.
Load ==
  /\ held' \in [Drives -> Images \cup {NoImage}]
  /\ LET back == {c \in carried : \E d \in Drives : held'[d] = c.image}
     IN  medium' = [i \in Images |-> [t \in Tracks |->
           IF \E c \in back : c.image = i /\ c.track = t
           THEN (CHOOSE c \in back : c.image = i /\ c.track = t).cells
           ELSE medium[i][t]]]
  /\ guarded' \in SUBSET Drives
  /\ head' \in [Drives -> Tracks]
  /\ UNCHANGED carried

Next == (\E d \in Drives : Run(d)) \/ Handle \/ Save \/ Load

Spec == Init /\ [][Next]_vars
=============================================================================
