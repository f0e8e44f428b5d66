----------------------------- MODULE MCSpaces ------------------------------
(* Small instances of Spaces: a strip of floor along which every distance  *)
(* relation between two points occurs: near, in the hysteresis band, far,  *)
(* across the wall, and inside the room beyond the far radius.             *)
EXTENDS ProximityLoop

CONSTANTS lobby, dev, offline

MCSpaceIds == {lobby, dev}
MCCapacity == [s \in MCSpaceIds |-> 2]
MCFloor ==
  [s \in MCSpaceIds |->
     IF s = lobby
       THEN [near |-> 3, far |-> 4, rooms |-> {[x |-> 8, y |-> 0, w |-> 6, h |-> 0]}]
       ELSE [near |-> 20, far |-> 20, rooms |-> {}]]
MCWidth == 13
MCHeight == 0
MCRequests == {<<-1, 0>>, <<3, 0>>, <<7, 1>>, <<8, 0>>, <<15, 0>>}
MCSpawns == {<<3, 0>>}
=============================================================================
