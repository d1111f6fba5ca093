-------------------------------- MODULE DiskSSTF --------------------------------
(***************************************************************************)
(* Hard Disk and File IO/q2.c: the requests of a disk are served shortest  *)
(* seek time first.  The times, in floating point, are left out.           *)
(***************************************************************************)
EXTENDS Integers, Sequences

CONSTANTS SECTORS_PER_TRACK, INITIAL_HEAD_POSITION,
          Sector,            \* the sectors that may be requested
          MAX_DISK_REQUESTS  \* bound of the model: num_requests

ASSUME DiskAssumption ==
  /\ SECTORS_PER_TRACK \in Nat \ {0} /\ INITIAL_HEAD_POSITION \in Nat
  /\ Sector \subseteq Nat /\ MAX_DISK_REQUESTS \in Nat

VARIABLES disk_requests,     \* the sectors asked for
          disk_served        \* indices of requests, in the order they were served

disk_vars == <<disk_requests, disk_served>>

DiskInit ==
  /\ disk_requests \in UNION {[1 .. k -> Sector] : k \in 0 .. MAX_DISK_REQUESTS}
  /\ disk_served = <<>>

calculate_track(sector) == sector \div SECTORS_PER_TRACK

Track(i)      == calculate_track(disk_requests[i])
used_requests == {disk_served[k] : k \in 1 .. Len(disk_served)}
Unused        == 1 .. Len(disk_requests) \ used_requests
\* The tracks the head has been on, the last of which is the current one.
Visited(k)    == calculate_track(IF k = 0 THEN INITIAL_HEAD_POSITION ELSE disk_requests[disk_served[k]])
current_track == Visited(Len(disk_served))

\* Faulty variant: the sign of the difference is kept.
track_distanceSigned(a, b) == b - a

track_distance(a, b) == IF a < b THEN b - a ELSE a - b

\* find_nearest_request: of two that are as near, the first.
Nearest(i) ==
  LET distance(j) == track_distance(current_track, Track(j))
  IN  /\ i \in Unused
      /\ \A j \in Unused : distance(i) < distance(j) \/ (distance(i) = distance(j) /\ i <= j)

simulate_sstf ==
  /\ \E i \in 1 .. Len(disk_requests) : Nearest(i) /\ disk_served' = Append(disk_served, i)
  /\ UNCHANGED disk_requests

----------------------------------------------------------------------------
(* Properties                                                              *)

\* The head leaves nothing behind: no request that waits lies between two tracks
\* the head has been on, except on the track where the head is.
NothingPassedOver ==
  \A i \in Unused : \A k, m \in 0 .. Len(disk_served) :
    Visited(k) <= Track(i) /\ Track(i) <= Visited(m) => Track(i) = current_track
=============================================================================
