------------------------------ MODULE Spaces -------------------------------
(***************************************************************************)
(* Who is in which space, where they stand, and which proximity links the  *)
(* server holds: the part of OrgInner (server/src/state.rs) written by     *)
(* join, leave, set_pos, set_status and enter_space, and by the tick loop  *)
(* of server/src/ws.rs.  Every action is one critical section of the org's *)
(* mutex.                                                                  *)
(*                                                                         *)
(* A member's space is stored twice, as the code does: in the member       *)
(* record (spaceId) and in the space's own set (memberIds).                *)
(***************************************************************************)
EXTENDS Proximity, FiniteSets

CONSTANTS
  MaxConnections,  (* joins explored: ids 1, 2, ... are handed out once    *)
  SpaceIds,        (* the catalog                                          *)
  Lobby,           (* where every connection lands                         *)
  Offline,         (* the spaceId of an id that is not connected           *)
  Capacity,        (* [SpaceIds -> Nat]                                    *)
  Floor,           (* [SpaceIds -> floor record of module Proximity]       *)
  Width, Height,   (* floor size, the same for every space                 *)
  Requests,        (* coordinates clients send in `move`                   *)
  Spawns           (* points of the arrival spiral                         *)

Members == 1 .. MaxConnections

ASSUME SpacesAssumption ==
  /\ MaxConnections \in Nat
  /\ Lobby \in SpaceIds
  /\ Offline \notin SpaceIds
  /\ Capacity \in [SpaceIds -> Nat]
  /\ DOMAIN Floor = SpaceIds
  /\ \A s \in SpaceIds : /\ Floor[s].near \in Nat /\ Floor[s].far \in Nat
                         /\ Floor[s].near <= Floor[s].far
  /\ Width \in Nat /\ Height \in Nat
  /\ Requests \subseteq Int \X Int
  /\ Spawns \subseteq (0 .. Width) \X (0 .. Height)

VARIABLES
  freeIds,    (* ids whose connection has not joined yet: the counter      *)
              (* (Org::next_id) is read before the lock is taken, so they  *)
              (* may join in any order                                     *)
  spaceId,    (* members' space_id; Offline when not in the members map    *)
  memberIds,  (* SpaceState::member_ids                                    *)
  pos,        (* members' x and y                                          *)
  dnd,        (* members' do-not-disturb flag                              *)
  links       (* OrgInner::links: [space -> [member -> linked members]]    *)

spacesVars == <<freeIds, spaceId, memberIds, pos, dnd, links>>

Points == (0 .. Width) \X (0 .. Height)

Online == {m \in Members : spaceId[m] # Offline}

NoLinks == [m \in Members |-> {}]

(***************************************************************************)
(* Helpers of OrgInner.                                                    *)
(***************************************************************************)
Linked(s, a, b) == b \in links[s][a]

Full(s) == Cardinality(memberIds[s]) >= Capacity[s]

(* pick_spawn: a point of the spiral outside the meeting room, the centre  *)
(* when every candidate lies inside.  Which point is left open.            *)
PickSpawn(s) ==
  LET clear == {p \in Spawns : ~InRoom(Floor[s], p)}
  IN  IF clear # {} THEN clear ELSE {<<Width \div 2, Height \div 2>>}

ClampBelow(v, hi) == IF v < 0 THEN 0 ELSE v  (* mutant: no upper bound *)

Clamp(v, hi) == IF v < 0 THEN 0 ELSE IF v > hi THEN hi ELSE v

(***************************************************************************)
(* Operations.                                                             *)
(***************************************************************************)
Init ==
  /\ freeIds = Members
  /\ spaceId = [m \in Members |-> Offline]
  /\ memberIds = [s \in SpaceIds |-> {}]
  /\ pos = [m \in Members |-> <<0, 0>>]
  /\ dnd = [m \in Members |-> FALSE]
  /\ links = [s \in SpaceIds |-> NoLinks]

(* Org::join.  Lands in the lobby, whatever its occupancy.                 *)
Join(m) ==
  /\ m \in freeIds
  /\ freeIds' = freeIds \ {m}
  /\ \E p \in PickSpawn(Lobby) : pos' = [pos EXCEPT ![m] = p]
  /\ spaceId' = [spaceId EXCEPT ![m] = Lobby]
  /\ memberIds' = [memberIds EXCEPT ![Lobby] = @ \union {m}]
  /\ dnd' = [dnd EXCEPT ![m] = FALSE]
  /\ UNCHANGED links

(* Org::leave.  The record goes, so position and flag go with it.          *)
Leave(m) ==
  /\ m \in Online
  /\ LET s == spaceId[m]
     IN  /\ memberIds' = [memberIds EXCEPT ![s] = @ \ {m}]
         /\ links' = [links EXCEPT ![s] = RemovePeer(m, @)]
  /\ spaceId' = [spaceId EXCEPT ![m] = Offline]
  /\ pos' = [pos EXCEPT ![m] = <<0, 0>>]
  /\ dnd' = [dnd EXCEPT ![m] = FALSE]
  /\ UNCHANGED freeIds

(* Org::set_pos: any request, clamped to the floor.                        *)
SetPos(m) ==
  /\ m \in Online
  /\ \E p \in Requests :
       pos' = [pos EXCEPT ![m] = <<Clamp(p[1], Width), Clamp(p[2], Height)>>]
  /\ UNCHANGED <<freeIds, spaceId, memberIds, dnd, links>>

(* Org::set_status, its dnd half: the links stay until the next tick.      *)
SetDnd(m, on) ==
  /\ m \in Online
  /\ dnd' = [dnd EXCEPT ![m] = on]
  /\ UNCHANGED <<freeIds, spaceId, memberIds, pos, links>>

(* Org::enter_space past its early returns: another, known space that is   *)
(* not full.  Re-entering the current space and a refusal change nothing.  *)
EnterSpace(m, target) ==
  /\ m \in Online
  /\ target \in SpaceIds \ {spaceId[m]}
  /\ ~Full(target)
  /\ LET s == spaceId[m]
     IN  /\ memberIds' = [memberIds EXCEPT ![s] = @ \ {m},
                                           ![target] = @ \union {m}]
         /\ links' = [links EXCEPT ![s] = RemovePeer(m, @)]
  /\ \E p \in PickSpawn(target) : pos' = [pos EXCEPT ![m] = p]
  /\ spaceId' = [spaceId EXCEPT ![m] = target]
  /\ UNCHANGED <<freeIds, dnd>>

(* One pass of the tick loop over this org: empty spaces lose their entry, *)
(* every other space is run through the engine.                            *)
Relink(lk) ==
  [s \in SpaceIds |->
     IF memberIds[s] = {} THEN NoLinks
     ELSE UpdateProximity(Floor[s], memberIds[s], pos, dnd, lk[s])]

Tick ==
  /\ links' = Relink(links)
  /\ UNCHANGED <<freeIds, spaceId, memberIds, pos, dnd>>

Next ==
  \/ \E m \in Members : Join(m)
  \/ \E m \in Members : Leave(m)
  \/ \E m \in Members : SetPos(m)
  \/ \E m \in Members, on \in BOOLEAN : SetDnd(m, on)
  \/ \E m \in Members, s \in SpaceIds : EnterSpace(m, s)
  \/ Tick

(* The tick task runs for the server's lifetime and never waits on a       *)
(* client, so it is the one action that is fair.                           *)
Fairness == WF_spacesVars(Tick)

SafetySpec == Init /\ [][Next]_spacesVars

Spec == SafetySpec /\ Fairness

(***************************************************************************)
(* Properties.                                                             *)
(***************************************************************************)
(* Every variable has the shape its declaration says; above all, nobody    *)
(* stands outside the floor, wherever their client claims to be.           *)
TypeOK ==
  /\ freeIds \subseteq Members
  /\ spaceId \in [Members -> SpaceIds \union {Offline}]
  /\ memberIds \in [SpaceIds -> SUBSET Members]
  /\ pos \in [Members -> Points]
  /\ dnd \in [Members -> BOOLEAN]
  /\ links \in [SpaceIds -> [Members -> SUBSET Members]]

(* The two records of where a member is agree: a space's set holds exactly *)
(* the members whose record names that space.  join, leave and enter_space *)
(* write them separately.                                                  *)
MembershipAgrees ==
  \A s \in SpaceIds : memberIds[s] = {m \in Members : spaceId[m] = s}

(* Links are kept in both directions, never with oneself.  remove_peer     *)
(* only cleans the entries the leaver's own entry names, so a one-sided    *)
(* link would outlive its owner.                                           *)
LinksSymmetric ==
  \A s \in SpaceIds : \A a, b \in Members :
    Linked(s, a, b) => a # b /\ Linked(s, b, a)

(* What route_signal relies on: the instant a member leaves a space, by    *)
(* moving or by disconnecting, no link of it is left there, so no link     *)
(* ever joins two members who are not both in that space now.              *)
LinksStayInSpace ==
  \A s \in SpaceIds : \A a, b \in Members :
    Linked(s, a, b) => spaceId[a] = s /\ spaceId[b] = s

(* A space other than the lobby never holds more than its capacity.        *)
CapacityHeld ==
  \A s \in SpaceIds \ {Lobby} : Cardinality(memberIds[s]) <= Capacity[s]

(* Where everyone is, and who hears whom, is one consistent story.         *)
SpacesSound ==
  /\ MembershipAgrees
  /\ LinksSymmetric
  /\ LinksStayInSpace
  /\ CapacityHeld

(* No flapping: with everyone standing still, the tick after a tick tells  *)
(* nobody anything.  Needs the two radii, the wall and the room to agree   *)
(* on every position a pair can take.                                      *)
TickSettles == Relink(Relink(links)) = Relink(links)

(* Two members within earshot of each other, unblocked, in one space.      *)
WithinEarshot(a, b) ==
  \E s \in SpaceIds :
    /\ spaceId[a] = s /\ spaceId[b] = s
    /\ ~Blocked(Floor[s], pos[a], pos[b], dnd[a], dnd[b])
    /\ Near(Floor[s], pos[a], pos[b])

(* Links follow: two members who stay so end up linked for good, and a     *)
(* member who stays in do-not-disturb ends up, for good, with no link.     *)
LinksFollow ==
  /\ \A a, b \in Members :
       a # b => (<>[]WithinEarshot(a, b) => <>[](\E s \in SpaceIds : Linked(s, a, b)))
  /\ \A m \in Members :
       <>[](dnd[m]) => <>[](\A s \in SpaceIds : links[s][m] = {})

(* A link is not dropped on a whim: two linked members who both stay where *)
(* they are, in that space, available and within the far radius, are still *)
(* linked after whatever step comes next.                                  *)
Undisturbed(s, a, b) ==
  /\ spaceId[a] = s /\ spaceId[b] = s
  /\ spaceId'[a] = s /\ spaceId'[b] = s
  /\ ~Blocked(Floor[s], pos[a], pos[b], dnd[a], dnd[b])
  /\ ~Far(Floor[s], pos[a], pos[b])

LinksHeld ==
  [][\A s \in SpaceIds : \A a, b \in Members :
       Linked(s, a, b) /\ Undisturbed(s, a, b) => Linked(s, a, b)']_spacesVars
=============================================================================
