----------------------------- MODULE Proximity -----------------------------
(***************************************************************************)
(* The proximity engine of server/src/proximity.rs: pure operators, no     *)
(* state.  A space's live links are kept as two directed entries per pair, *)
(* sets[a] being the peers a is linked with.                               *)
(*                                                                         *)
(* The pairwise loop of update_proximity is given here in closed form;     *)
(* module ProximityLoop runs the loop itself, pair after pair and in every *)
(* order, and is checked to compute the same sets.                         *)
(*                                                                         *)
(* Coordinates are integers and distances are compared squared: the code's *)
(* f64 square root is monotone, so the comparisons come out the same.  A   *)
(* floor is a record [near, far, rooms]; rooms holds the meeting room when *)
(* the space has one and is empty otherwise.                               *)
(***************************************************************************)
EXTENDS Integers

RectContains(room, p) ==
  /\ room.x <= p[1] /\ p[1] <= room.x + room.w
  /\ room.y <= p[2] /\ p[2] <= room.y + room.h

InRoom(floor, p) == \E room \in floor.rooms : RectContains(room, p)

DistSq(p, q) == (q[1] - p[1]) * (q[1] - p[1]) + (q[2] - p[2]) * (q[2] - p[2])

(* No link may exist over a wall or with a do-not-disturb side.            *)
Blocked(floor, p, q, dndP, dndQ) ==
  dndP \/ dndQ \/ (InRoom(floor, p) # InRoom(floor, q))

BothInRoom(floor, p, q) == InRoom(floor, p) /\ InRoom(floor, q)

Near(floor, p, q) ==
  BothInRoom(floor, p, q) \/ DistSq(p, q) <= floor.near * floor.near

FarInRoomToo(floor, p, q) ==  (* mutant: the room is not exempt *)
  DistSq(p, q) > floor.far * floor.far

Far(floor, p, q) ==
  ~BothInRoom(floor, p, q) /\ DistSq(p, q) > floor.far * floor.far

(* Mutants: no hysteresis; the room does not connect.                      *)
LinkWithoutBand(floor, linked, p, q, dndP, dndQ) ==
  ~Blocked(floor, p, q, dndP, dndQ) /\ Near(floor, p, q)

LinkByDistance(floor, linked, p, q, dndP, dndQ) ==
  /\ ~Blocked(floor, p, q, dndP, dndQ)
  /\ IF linked THEN ~Far(floor, p, q) ELSE DistSq(p, q) <= floor.near * floor.near

(* Whether a pair is linked once the loop has examined it.  Between the    *)
(* two radii the pair keeps what it had: the hysteresis.                   *)
LinkAfter(floor, linked, p, q, dndP, dndQ) ==
  IF linked THEN ~(Blocked(floor, p, q, dndP, dndQ) \/ Far(floor, p, q))
            ELSE ~Blocked(floor, p, q, dndP, dndQ) /\ Near(floor, p, q)

(* update_proximity over the peers in `here`.  Entries of peers that are   *)
(* not here, and entries naming them, are left exactly as they were.       *)
UpdateProximity(floor, here, pos, dnd, sets) ==
  [a \in DOMAIN sets |->
     IF a \in here
       THEN (sets[a] \ (here \ {a}))
              \union {b \in here \ {a} :
                        LinkAfter(floor, b \in sets[a], pos[a], pos[b], dnd[a], dnd[b])}
       ELSE sets[a]]

(* Mutant of RemovePeer: nothing goes.                                     *)
RemoveNothing(id, sets) == sets

(* remove_peer: drops the leaver's own entry, and the leaver from the      *)
(* entries of the peers its own entry named, from no others.               *)
RemovePeer(id, sets) ==
  [a \in DOMAIN sets |->
     IF a = id THEN {}
     ELSE IF a \in sets[id] THEN sets[a] \ {id}
     ELSE sets[a]]

(* What a peer is told after an update: the links it gained, each with     *)
(* whether it makes the offer, and the ones it lost.                       *)
Connects(old, new, a) == {[id |-> b, initiator |-> a < b] : b \in new[a] \ old[a]}

Disconnects(old, new, a) == old[a] \ new[a]
=============================================================================
