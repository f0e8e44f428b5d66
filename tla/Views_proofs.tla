---------------------------- MODULE Views_proofs ----------------------------
(***************************************************************************)
(* Proofs about modules Spaces, SpaceViews and VideoPanel, for every       *)
(* number of members, catalog, capacity, floor and requests in flight.     *)
(* First what the server holds: positions, links and membership; then the  *)
(* loop over pairs by which it computes the links.  Then the views: what a *)
(* client that has handled its messages believes of its space and of the   *)
(* roster is what the server holds, whatever crossed on the way.  Last the *)
(* video panel: it shows what is live, each video once.                    *)
(***************************************************************************)
EXTENDS SpaceViews, ProximityLoop, VideoPanel, FiniteSetTheorems, SequenceTheorems,
        WellFoundedInduction, TLAPS

(***************************************************************************)
(* Module Spaces.                                                          *)
(***************************************************************************)
(* What an update leaves in an entry is made of what was there and of the  *)
(* peers present.                                                          *)
LEMMA UpdateProximityType ==
  ASSUME NEW S, NEW floor, NEW here \in SUBSET S, NEW p, NEW d,
         NEW sets \in [S -> SUBSET S]
  PROVE  UpdateProximity(floor, here, p, d, sets) \in [S -> SUBSET S]
  BY DEF UpdateProximity

(* Removing a peer gives every entry a subset of what it was.              *)
LEMMA RemovePeerType ==
  ASSUME NEW S, NEW id \in S, NEW sets \in [S -> SUBSET S]
  PROVE  RemovePeer(id, sets) \in [S -> SUBSET S]
  BY DEF RemovePeer

LEMMA RelinkType ==
  ASSUME TypeOK, NEW lk \in [SpaceIds -> [Members -> SUBSET Members]]
  PROVE  Relink(lk) \in [SpaceIds -> [Members -> SUBSET Members]]
  BY UpdateProximityType DEF TypeOK, Relink, NoLinks

LEMMA PickSpawnType ==
  ASSUME NEW s \in SpaceIds
  PROVE  PickSpawn(s) \subseteq Points
<1>1. Spawns \subseteq Points
  BY SpacesAssumption DEF SpacesAssumption, Points
<1>2. <<Width \div 2, Height \div 2>> \in Points
  BY SpacesAssumption DEF SpacesAssumption, Points
<1>3. QED
  BY <1>1, <1>2 DEF PickSpawn

LEMMA ClampType ==
  ASSUME NEW v \in Int, NEW hi \in Nat
  PROVE  Clamp(v, hi) \in 0 .. hi
  BY DEF Clamp

(* TypeOK is inductive on its own.                                         *)
LEMMA TypeStep == TypeOK /\ [Next]_spacesVars => TypeOK'
<1> SUFFICES ASSUME TypeOK, [Next]_spacesVars
             PROVE  TypeOK'
  OBVIOUS
<1> USE SpacesAssumption DEF TypeOK
<1>1. ASSUME NEW m \in Members, Join(m)
      PROVE  TypeOK'
  <2>1. pos' \in [Members -> Points]
    BY <1>1, PickSpawnType DEF Join, SpacesAssumption
  <2>2. freeIds' \subseteq Members
    BY <1>1 DEF Join, Members, SpacesAssumption
  <2>3. QED
    BY <1>1, <2>1, <2>2 DEF Join, SpacesAssumption
<1>2. ASSUME NEW m \in Members, Leave(m)
      PROVE  TypeOK'
  <2>1. spaceId[m] \in SpaceIds
    BY <1>2 DEF Leave, Online
  <2>2. links' \in [SpaceIds -> [Members -> SUBSET Members]]
    BY <1>2, <2>1, RemovePeerType DEF Leave
  <2>3. <<0, 0>> \in Points
    BY DEF Points, SpacesAssumption
  <2>4. QED
    BY <1>2, <2>1, <2>2, <2>3 DEF Leave
<1>3. ASSUME NEW m \in Members, SetPos(m)
      PROVE  TypeOK'
  <2>1. PICK p \in Requests : pos' = [pos EXCEPT ![m] = <<Clamp(p[1], Width), Clamp(p[2], Height)>>]
    BY <1>3 DEF SetPos
  <2>2. p[1] \in Int /\ p[2] \in Int
    BY DEF SpacesAssumption
  <2>3. <<Clamp(p[1], Width), Clamp(p[2], Height)>> \in Points
    BY <2>2, ClampType DEF Points, SpacesAssumption
  <2>4. QED
    BY <1>3, <2>1, <2>3 DEF SetPos
<1>4. ASSUME NEW m \in Members, NEW on \in BOOLEAN, SetDnd(m, on)
      PROVE  TypeOK'
  BY <1>4 DEF SetDnd
<1>5. ASSUME NEW m \in Members, NEW s \in SpaceIds, EnterSpace(m, s)
      PROVE  TypeOK'
  <2>1. spaceId[m] \in SpaceIds
    BY <1>5 DEF EnterSpace, Online
  <2>2. links' \in [SpaceIds -> [Members -> SUBSET Members]]
    BY <1>5, <2>1, RemovePeerType DEF EnterSpace
  <2>3. pos' \in [Members -> Points]
    BY <1>5, PickSpawnType DEF EnterSpace
  <2>4. memberIds' \in [SpaceIds -> SUBSET Members]
    BY <1>5, <2>1 DEF EnterSpace
  <2>5. spaceId' \in [Members -> SpaceIds \union {Offline}]
    BY <1>5 DEF EnterSpace
  <2>6. freeIds' = freeIds /\ dnd' = dnd
    BY <1>5 DEF EnterSpace
  <2>7. QED
    BY <2>2, <2>3, <2>4, <2>5, <2>6
<1>6. CASE Tick
  BY <1>6, RelinkType DEF Tick
<1>7. CASE UNCHANGED spacesVars
  BY <1>7 DEF spacesVars
<1>8. QED
  BY <1>1, <1>2, <1>3, <1>4, <1>5, <1>6, <1>7 DEF Next

LEMMA InitType == Init => TypeOK
<1> SUFFICES ASSUME Init PROVE TypeOK
  OBVIOUS
<1>1. <<0, 0>> \in Points
  BY SpacesAssumption DEF SpacesAssumption, Points
<1>2. freeIds \subseteq Members
  BY SpacesAssumption DEF SpacesAssumption, Init
<1>3. QED
  BY <1>1, <1>2 DEF Init, TypeOK, NoLinks

(* Every behaviour of the server keeps its state well typed and everyone   *)
(* on the floor.                                                           *)
THEOREM SpacesTypeCorrect == SafetySpec => []TypeOK
<1>1. Init => TypeOK
  BY InitType
<1>2. TypeOK /\ [Next]_spacesVars => TypeOK'
  BY TypeStep
<1>3. QED
  BY <1>1, <1>2, PTL DEF SafetySpec

(***************************************************************************)
(* The inductive invariant behind the link properties.  LinksSymmetric is  *)
(* part of it because remove_peer only follows the leaver's own entry:     *)
(* without symmetry LinksStayInSpace is not preserved by leave.            *)
(***************************************************************************)
(* FreshOffline keeps join from reusing an id that still has links.        *)
FreshOffline == \A m \in Members : m \in freeIds => spaceId[m] = Offline

LinkInv == MembershipAgrees /\ LinksSymmetric /\ LinksStayInSpace /\ FreshOffline

(* With links that are symmetric, remove_peer leaves no trace of a peer.   *)
LEMMA RemovePeerErases ==
  ASSUME NEW S, NEW id \in S, NEW sets \in [S -> SUBSET S],
         \A a, b \in S : b \in sets[a] => a \in sets[b]
  PROVE  \A a, b \in S : b \in RemovePeer(id, sets)[a]
                            <=> b \in sets[a] /\ a # id /\ b # id
  BY DEF RemovePeer

(* A pair's fate in an update does not depend on which side is asked.      *)
LEMMA DistSqSymmetric ==
  ASSUME NEW p \in Int \X Int, NEW q \in Int \X Int
  PROVE  DistSq(p, q) \in Int /\ DistSq(p, q) = DistSq(q, p)
<1>1. \A x, y \in Int : (x - y) * (x - y) \in Int /\ (x - y) * (x - y) = (y - x) * (y - x)
  OBVIOUS
<1>2. /\ p[1] \in Int /\ p[2] \in Int /\ q[1] \in Int /\ q[2] \in Int
  OBVIOUS
<1>3. QED
  BY <1>1, <1>2 DEF DistSq

LEMMA LinkAfterSymmetric ==
  ASSUME NEW floor, NEW l, NEW p \in Int \X Int, NEW q \in Int \X Int, NEW dp, NEW dq
  PROVE  LinkAfter(floor, l, p, q, dp, dq) <=> LinkAfter(floor, l, q, p, dq, dp)
<1>1. DistSq(p, q) = DistSq(q, p)
  BY DistSqSymmetric
<1>2. Blocked(floor, p, q, dp, dq) <=> Blocked(floor, q, p, dq, dp)
  BY DEF Blocked
<1>3. Near(floor, p, q) <=> Near(floor, q, p)
  BY <1>1 DEF Near, BothInRoom
<1>4. Far(floor, p, q) <=> Far(floor, q, p)
  BY <1>1 DEF Far, BothInRoom
<1>5. QED
  BY <1>2, <1>3, <1>4 DEF LinkAfter

(* What a tick makes of one pair, for any link sets that stay in their     *)
(* space.                                                                  *)
InSpace(lk) ==
  \A s \in SpaceIds : \A a, b \in Members :
    b \in lk[s][a] => a \in memberIds[s] /\ b \in memberIds[s] /\ a # b

LEMMA RelinkPair ==
  ASSUME TypeOK, NEW lk \in [SpaceIds -> [Members -> SUBSET Members]], InSpace(lk),
         NEW s \in SpaceIds, NEW a \in Members, NEW b \in Members
  PROVE  b \in Relink(lk)[s][a]
           <=> /\ a \in memberIds[s] /\ b \in memberIds[s] /\ a # b
               /\ LinkAfter(Floor[s], b \in lk[s][a], pos[a], pos[b], dnd[a], dnd[b])
<1> USE DEF TypeOK, InSpace
<1>1. CASE memberIds[s] = {}
  BY <1>1 DEF Relink, NoLinks
<1>2. CASE memberIds[s] # {}
  <2>1. Relink(lk)[s] = UpdateProximity(Floor[s], memberIds[s], pos, dnd, lk[s])
    BY <1>2 DEF Relink
  <2>2. CASE a \in memberIds[s]
    <3>1. b \in Relink(lk)[s][a]
            <=> \/ b \in lk[s][a] \ (memberIds[s] \ {a})
                \/ /\ b \in memberIds[s] \ {a}
                   /\ LinkAfter(Floor[s], b \in lk[s][a], pos[a], pos[b], dnd[a], dnd[b])
      BY <2>1, <2>2 DEF UpdateProximity
    <3>2. b \notin lk[s][a] \ (memberIds[s] \ {a})
      OBVIOUS
    <3>3. QED
      BY <2>2, <3>1, <3>2
  <2>3. CASE a \notin memberIds[s]
    BY <2>1, <2>3 DEF UpdateProximity
  <2>4. QED
    BY <2>2, <2>3
<1>3. QED
  BY <1>1, <1>2

LEMMA LinksInSpace == TypeOK /\ LinkInv => InSpace(links)
  BY DEF TypeOK, LinkInv, LinksSymmetric, LinksStayInSpace, MembershipAgrees, InSpace, Linked

LEMMA PointsAreInt == TypeOK => \A m \in Members : pos[m] \in Int \X Int
  BY SpacesAssumption DEF TypeOK, Points, SpacesAssumption

(* What leave and enter_space make of one pair in the space left behind.   *)
LEMMA LeavePair ==
  ASSUME TypeOK, LinkInv, NEW m \in Members, NEW s \in SpaceIds,
         NEW a \in Members, NEW b \in Members
  PROVE  b \in [links EXCEPT ![spaceId[m]] = RemovePeer(m, @)][s][a]
           => Linked(s, a, b) /\ a # m /\ b # m
<1>1. \A t \in SpaceIds : \A c, d \in Members : d \in links[t][c] => c \in links[t][d]
  BY DEF LinkInv, LinksSymmetric, Linked
<1>2. CASE s = spaceId[m]
  <2>1. [links EXCEPT ![spaceId[m]] = RemovePeer(m, @)][s] = RemovePeer(m, links[s])
    BY <1>2 DEF TypeOK
  <2>2. QED
    BY <1>1, <2>1, RemovePeerErases DEF TypeOK, Linked
<1>3. CASE s # spaceId[m]
  BY <1>3 DEF TypeOK, Linked, LinkInv, LinksStayInSpace
<1>4. QED
  BY <1>2, <1>3

LEMMA LeavePairSymmetric ==
  ASSUME TypeOK, LinkInv, NEW m \in Members, NEW s \in SpaceIds,
         NEW a \in Members, NEW b \in Members
  PROVE  Linked(s, a, b) /\ a # m /\ b # m
           => b \in [links EXCEPT ![spaceId[m]] = RemovePeer(m, @)][s][a]
<1>1. \A t \in SpaceIds : \A c, d \in Members : d \in links[t][c] => c \in links[t][d]
  BY DEF LinkInv, LinksSymmetric, Linked
<1>2. CASE s = spaceId[m]
  <2>1. [links EXCEPT ![spaceId[m]] = RemovePeer(m, @)][s] = RemovePeer(m, links[s])
    BY <1>2 DEF TypeOK
  <2>2. QED
    BY <1>1, <2>1, RemovePeerErases DEF TypeOK, Linked
<1>3. CASE s # spaceId[m]
  BY <1>3 DEF TypeOK, Linked
<1>4. QED
  BY <1>2, <1>3

LEMMA LinkStep == TypeOK /\ LinkInv /\ [Next]_spacesVars => LinkInv'
<1> SUFFICES ASSUME TypeOK, LinkInv, [Next]_spacesVars
             PROVE  LinkInv'
  OBVIOUS
<1> USE SpacesAssumption
<1>1. ASSUME NEW m \in Members, Join(m)
      PROVE  LinkInv'
  <2>1. spaceId[m] = Offline
    BY <1>1 DEF LinkInv, FreshOffline, Join, TypeOK, Members
  <2>2. \A s \in SpaceIds : \A a, b \in Members : Linked(s, a, b) => a # m /\ b # m
    BY <2>1 DEF LinkInv, LinksStayInSpace, SpacesAssumption
  <2>3. MembershipAgrees'
    BY <1>1, <2>1 DEF LinkInv, MembershipAgrees, Join, TypeOK, SpacesAssumption
  <2>4. FreshOffline'
    BY <1>1 DEF LinkInv, FreshOffline, Join, TypeOK, Members, SpacesAssumption
  <2>5. LinksSymmetric' /\ LinksStayInSpace'
    BY <1>1, <2>2 DEF LinkInv, LinksSymmetric, LinksStayInSpace, Linked, Join, TypeOK
  <2>6. QED
    BY <2>3, <2>4, <2>5 DEF LinkInv
<1>2. ASSUME NEW m \in Members, Leave(m)
      PROVE  LinkInv'
  <2>1. spaceId[m] \in SpaceIds
    BY <1>2 DEF Leave, Online, TypeOK
  <2>2. links' = [links EXCEPT ![spaceId[m]] = RemovePeer(m, @)]
    BY <1>2 DEF Leave
  <2>3. \A s \in SpaceIds : \A a, b \in Members :
          Linked(s, a, b)' <=> Linked(s, a, b) /\ a # m /\ b # m
    BY <2>2, LeavePair, LeavePairSymmetric DEF Linked
  <2>4. MembershipAgrees'
    BY <1>2, <2>1 DEF LinkInv, MembershipAgrees, Leave, TypeOK, SpacesAssumption
  <2>5. FreshOffline'
    BY <1>2 DEF LinkInv, FreshOffline, Leave, TypeOK
  <2>6. LinksSymmetric'
    BY <2>3 DEF LinkInv, LinksSymmetric
  <2>7. LinksStayInSpace'
    BY <1>2, <2>3 DEF LinkInv, LinksStayInSpace, Leave, TypeOK
  <2>8. QED
    BY <2>4, <2>5, <2>6, <2>7 DEF LinkInv
<1>3. ASSUME NEW m \in Members, SetPos(m)
      PROVE  LinkInv'
  BY <1>3 DEF SetPos, LinkInv, MembershipAgrees, LinksSymmetric, LinksStayInSpace, FreshOffline, Linked
<1>4. ASSUME NEW m \in Members, NEW on \in BOOLEAN, SetDnd(m, on)
      PROVE  LinkInv'
  BY <1>4 DEF SetDnd, LinkInv, MembershipAgrees, LinksSymmetric, LinksStayInSpace, FreshOffline, Linked
<1>5. ASSUME NEW m \in Members, NEW t \in SpaceIds, EnterSpace(m, t)
      PROVE  LinkInv'
  <2>1. spaceId[m] \in SpaceIds /\ t # spaceId[m]
    BY <1>5 DEF EnterSpace, Online, TypeOK
  <2>2. links' = [links EXCEPT ![spaceId[m]] = RemovePeer(m, @)]
    BY <1>5 DEF EnterSpace
  <2>3. \A s \in SpaceIds : \A a, b \in Members :
          Linked(s, a, b)' <=> Linked(s, a, b) /\ a # m /\ b # m
    BY <2>2, LeavePair, LeavePairSymmetric DEF Linked
  <2>4. /\ spaceId' = [spaceId EXCEPT ![m] = t]
        /\ memberIds' = [memberIds EXCEPT ![spaceId[m]] = @ \ {m}, ![t] = @ \union {m}]
        /\ freeIds' = freeIds
    BY <1>5 DEF EnterSpace
  <2>5. MembershipAgrees'
    <3> SUFFICES ASSUME NEW s \in SpaceIds
                 PROVE  memberIds'[s] = {x \in Members : spaceId'[x] = s}
      BY DEF MembershipAgrees
    <3>1. memberIds[s] = {x \in Members : spaceId[x] = s}
      BY DEF LinkInv, MembershipAgrees
    <3>2. CASE s = t
      BY <2>1, <2>4, <3>1, <3>2 DEF TypeOK
    <3>3. CASE s = spaceId[m]
      BY <2>1, <2>4, <3>1, <3>3 DEF TypeOK
    <3>4. CASE s # t /\ s # spaceId[m]
      BY <2>1, <2>4, <3>1, <3>4 DEF TypeOK
    <3>5. QED
      BY <3>2, <3>3, <3>4
  <2>6. FreshOffline'
    BY <1>5, <2>4 DEF LinkInv, FreshOffline, EnterSpace, Online, TypeOK
  <2>7. LinksSymmetric'
    BY <2>3 DEF LinkInv, LinksSymmetric
  <2>8. LinksStayInSpace'
    BY <2>3, <2>4 DEF LinkInv, LinksStayInSpace, TypeOK
  <2>9. QED
    BY <2>5, <2>6, <2>7, <2>8 DEF LinkInv
<1>6. CASE Tick
  <2>1. \A s \in SpaceIds : \A a, b \in Members :
          Linked(s, a, b)'
            <=> /\ a \in memberIds[s] /\ b \in memberIds[s] /\ a # b
                /\ LinkAfter(Floor[s], Linked(s, a, b), pos[a], pos[b], dnd[a], dnd[b])
    BY <1>6, RelinkPair, LinksInSpace DEF Tick, Linked, TypeOK
  <2>2. MembershipAgrees' /\ FreshOffline'
    BY <1>6 DEF Tick, LinkInv, MembershipAgrees, FreshOffline
  <2>3. LinksStayInSpace'
    BY <1>6, <2>1 DEF Tick, LinkInv, MembershipAgrees, LinksStayInSpace
  <2>4. LinksSymmetric'
    <3> SUFFICES ASSUME NEW s \in SpaceIds, NEW a \in Members, NEW b \in Members,
                        Linked(s, a, b)'
                 PROVE  a # b /\ Linked(s, b, a)'
      BY DEF LinksSymmetric
    <3>1. Linked(s, a, b) <=> Linked(s, b, a)
      BY DEF LinkInv, LinksSymmetric
    <3>2. LinkAfter(Floor[s], Linked(s, a, b), pos[b], pos[a], dnd[b], dnd[a])
      BY <2>1, LinkAfterSymmetric, PointsAreInt
    <3>3. LinkAfter(Floor[s], Linked(s, b, a), pos[b], pos[a], dnd[b], dnd[a])
      BY <3>1, <3>2 DEF LinkAfter
    <3>4. QED
      BY <2>1, <3>3
  <2>5. QED
    BY <2>2, <2>3, <2>4 DEF LinkInv
<1>7. CASE UNCHANGED spacesVars
  BY <1>7 DEF spacesVars, LinkInv, MembershipAgrees, LinksSymmetric, LinksStayInSpace, FreshOffline, Linked
<1>8. QED
  BY <1>1, <1>2, <1>3, <1>4, <1>5, <1>6, <1>7 DEF Next

LEMMA InitLink == Init => LinkInv
  BY SpacesAssumption DEF SpacesAssumption, Init, LinkInv, MembershipAgrees, LinksSymmetric,
     LinksStayInSpace, FreshOffline, Linked, NoLinks

LEMMA LinkInvCorrect == SafetySpec => [](TypeOK /\ LinkInv)
<1>1. Init => TypeOK /\ LinkInv
  BY InitType, InitLink
<1>2. (TypeOK /\ LinkInv) /\ [Next]_spacesVars => (TypeOK /\ LinkInv)'
  BY TypeStep, LinkStep
<1>3. QED
  BY <1>1, <1>2, PTL DEF SafetySpec

(* Proximity links are always two-sided.                                   *)
THEOREM LinksSymmetricCorrect == SafetySpec => []LinksSymmetric
<1>1. LinkInv => LinksSymmetric
  BY DEF LinkInv
<1>2. QED
  BY <1>1, LinkInvCorrect, PTL

(* The isolation of spaces: whatever joins, leaves, moves, refusals and    *)
(* ticks happen in whatever order, the server never holds a link between   *)
(* two members who are not both in the link's space.                       *)
THEOREM LinksStayInSpaceCorrect == SafetySpec => []LinksStayInSpace
<1>1. LinkInv => LinksStayInSpace
  BY DEF LinkInv
<1>2. QED
  BY <1>1, LinkInvCorrect, PTL

(* The member record and the space's set never disagree.                   *)
THEOREM MembershipAgreesCorrect == SafetySpec => []MembershipAgrees
<1>1. LinkInv => MembershipAgrees
  BY DEF LinkInv
<1>2. QED
  BY <1>1, LinkInvCorrect, PTL

(***************************************************************************)
(* Hysteresis.                                                             *)
(***************************************************************************)
LEMMA NearIsNotFar ==
  ASSUME NEW s \in SpaceIds, NEW p \in Int \X Int, NEW q \in Int \X Int,
         Near(Floor[s], p, q)
  PROVE  ~Far(Floor[s], p, q)
<1>1. \A n, f \in Nat : n <= f => n * n \in Nat /\ f * f \in Nat /\ n * n <= f * f
  OBVIOUS
<1>2. /\ Floor[s].near * Floor[s].near \in Nat
      /\ Floor[s].far * Floor[s].far \in Nat
      /\ Floor[s].near * Floor[s].near <= Floor[s].far * Floor[s].far
  BY <1>1, SpacesAssumption DEF SpacesAssumption
<1>3. QED
  BY <1>2, DistSqSymmetric DEF Near, Far, BothInRoom

(* A pair that has been examined once keeps its state when examined again. *)
LEMMA LinkAfterSettles ==
  ASSUME NEW s \in SpaceIds, NEW p \in Int \X Int, NEW q \in Int \X Int,
         NEW l, NEW dp, NEW dq
  PROVE  LinkAfter(Floor[s], LinkAfter(Floor[s], l, p, q, dp, dq), p, q, dp, dq)
           <=> LinkAfter(Floor[s], l, p, q, dp, dq)
  BY NearIsNotFar DEF LinkAfter

LEMMA SettlesFromInv == TypeOK /\ LinkInv => TickSettles
<1> SUFFICES ASSUME TypeOK, LinkInv PROVE TickSettles
  OBVIOUS
<1>1. Relink(links) \in [SpaceIds -> [Members -> SUBSET Members]]
  BY RelinkType DEF TypeOK
<1>2. \A s \in SpaceIds : \A a, b \in Members :
        b \in Relink(links)[s][a]
          <=> /\ a \in memberIds[s] /\ b \in memberIds[s] /\ a # b
              /\ LinkAfter(Floor[s], b \in links[s][a], pos[a], pos[b], dnd[a], dnd[b])
  BY RelinkPair, LinksInSpace DEF TypeOK
<1>3. InSpace(Relink(links))
  BY <1>2 DEF InSpace
<1>4. \A s \in SpaceIds : \A a, b \in Members :
        b \in Relink(Relink(links))[s][a]
          <=> /\ a \in memberIds[s] /\ b \in memberIds[s] /\ a # b
              /\ LinkAfter(Floor[s], b \in Relink(links)[s][a], pos[a], pos[b], dnd[a], dnd[b])
  BY <1>1, <1>3, RelinkPair
<1>5. \A s \in SpaceIds : \A a, b \in Members :
        b \in Relink(Relink(links))[s][a] <=> b \in Relink(links)[s][a]
  <2> SUFFICES ASSUME NEW s \in SpaceIds, NEW a \in Members, NEW b \in Members,
                      a \in memberIds[s], b \in memberIds[s], a # b
               PROVE  b \in Relink(Relink(links))[s][a] <=> b \in Relink(links)[s][a]
    BY <1>2, <1>4
  <2> DEFINE After == LinkAfter(Floor[s], b \in links[s][a], pos[a], pos[b], dnd[a], dnd[b])
  <2>1. b \in Relink(links)[s][a] <=> After
    BY <1>2
  <2>2. b \in Relink(Relink(links))[s][a]
          <=> LinkAfter(Floor[s], b \in Relink(links)[s][a], pos[a], pos[b], dnd[a], dnd[b])
    BY <1>4
  <2>3. LinkAfter(Floor[s], b \in Relink(links)[s][a], pos[a], pos[b], dnd[a], dnd[b])
          <=> LinkAfter(Floor[s], After, pos[a], pos[b], dnd[a], dnd[b])
    BY <2>1 DEF LinkAfter
  <2>4. LinkAfter(Floor[s], After, pos[a], pos[b], dnd[a], dnd[b]) <=> After
    BY LinkAfterSettles, PointsAreInt
  <2>5. QED
    BY <2>1, <2>2, <2>3, <2>4
<1>6. Relink(Relink(links)) \in [SpaceIds -> [Members -> SUBSET Members]]
  BY <1>1, RelinkType
<1>7. ASSUME NEW s \in SpaceIds
      PROVE  Relink(Relink(links))[s] = Relink(links)[s]
  <2>1. /\ Relink(links)[s] \in [Members -> SUBSET Members]
        /\ Relink(Relink(links))[s] \in [Members -> SUBSET Members]
    BY <1>1, <1>6
  <2>2. \A a \in Members : Relink(Relink(links))[s][a] = Relink(links)[s][a]
    BY <2>1, <1>5
  <2>3. QED
    BY <2>1, <2>2
<1>8. QED
  BY <1>1, <1>6, <1>7 DEF TickSettles

(* No flapping, on any floor whose near radius is at most its far one.     *)
THEOREM TickSettlesCorrect == SafetySpec => []TickSettles
  BY SettlesFromInv, LinkInvCorrect, PTL

(* Links are only dropped by cause.                                        *)
LEMMA LinkHeldStep ==
  ASSUME TypeOK, LinkInv, [Next]_spacesVars,
         NEW s \in SpaceIds, NEW a \in Members, NEW b \in Members,
         Linked(s, a, b), Undisturbed(s, a, b)
  PROVE  Linked(s, a, b)'
<1> USE SpacesAssumption
<1>1. ASSUME NEW m \in Members, Join(m)
      PROVE  Linked(s, a, b)'
  BY <1>1 DEF Join, Linked
<1>2. ASSUME NEW m \in Members, Leave(m)
      PROVE  Linked(s, a, b)'
  <2>1. a # m /\ b # m
    BY <1>2 DEF Undisturbed, Leave, TypeOK, SpacesAssumption
  <2>2. links' = [links EXCEPT ![spaceId[m]] = RemovePeer(m, @)]
    BY <1>2 DEF Leave
  <2>3. QED
    BY <2>1, <2>2, LeavePairSymmetric DEF Linked
<1>3. ASSUME NEW m \in Members, SetPos(m)
      PROVE  Linked(s, a, b)'
  BY <1>3 DEF SetPos, Linked
<1>4. ASSUME NEW m \in Members, NEW on \in BOOLEAN, SetDnd(m, on)
      PROVE  Linked(s, a, b)'
  BY <1>4 DEF SetDnd, Linked
<1>5. ASSUME NEW m \in Members, NEW t \in SpaceIds, EnterSpace(m, t)
      PROVE  Linked(s, a, b)'
  <2>1. a # m /\ b # m
    BY <1>5 DEF Undisturbed, EnterSpace, TypeOK
  <2>2. links' = [links EXCEPT ![spaceId[m]] = RemovePeer(m, @)]
    BY <1>5 DEF EnterSpace
  <2>3. QED
    BY <2>1, <2>2, LeavePairSymmetric DEF Linked
<1>6. CASE Tick
  <2>1. LinkAfter(Floor[s], b \in links[s][a], pos[a], pos[b], dnd[a], dnd[b])
    BY DEF LinkAfter, Linked, Undisturbed
  <2>2. a \in memberIds[s] /\ b \in memberIds[s] /\ a # b
    BY LinksInSpace DEF InSpace, Linked
  <2>3. QED
    BY <1>6, <2>1, <2>2, RelinkPair, LinksInSpace DEF Tick, Linked, TypeOK
<1>7. CASE UNCHANGED spacesVars
  BY <1>7 DEF spacesVars, Linked
<1>8. QED
  BY <1>1, <1>2, <1>3, <1>4, <1>5, <1>6, <1>7 DEF Next

(* A pair that stays put, available and within the far radius keeps its    *)
(* link through every step, whatever everyone else does.                   *)
THEOREM LinksHeldCorrect == SafetySpec => LinksHeld
<1> DEFINE Held == \A s \in SpaceIds : \A a, b \in Members :
                     Linked(s, a, b) /\ Undisturbed(s, a, b) => Linked(s, a, b)'
<1>1. TypeOK /\ LinkInv /\ [Next]_spacesVars => Held
  <2> SUFFICES ASSUME TypeOK, LinkInv, [Next]_spacesVars,
                      NEW s \in SpaceIds, NEW a \in Members, NEW b \in Members,
                      Linked(s, a, b), Undisturbed(s, a, b)
               PROVE  Linked(s, a, b)'
    OBVIOUS
  <2>1. QED
    BY LinkHeldStep
<1>2. QED
  BY <1>1, LinkInvCorrect, PTL DEF SafetySpec, LinksHeld

(***************************************************************************)
(* Capacity.                                                               *)
(***************************************************************************)
LEMMA FiniteSpaces == TypeOK => \A s \in SpaceIds : IsFiniteSet(memberIds[s])
<1> SUFFICES ASSUME TypeOK, NEW s \in SpaceIds PROVE IsFiniteSet(memberIds[s])
  OBVIOUS
<1>1. IsFiniteSet(Members)
  <2>1. 1 \in Int /\ MaxConnections \in Int
    BY SpacesAssumption DEF SpacesAssumption
  <2>2. QED
    BY <2>1, FS_Interval DEF Members
<1>2. memberIds[s] \subseteq Members
  BY DEF TypeOK
<1>3. QED
  BY <1>1, <1>2, FS_Subset

LEMMA CapacityStep ==
  TypeOK /\ LinkInv /\ CapacityHeld /\ [Next]_spacesVars => CapacityHeld'
<1> SUFFICES ASSUME TypeOK, LinkInv, CapacityHeld, [Next]_spacesVars,
                    NEW s \in SpaceIds \ {Lobby}
             PROVE  Cardinality(memberIds'[s]) <= Capacity[s]
  BY DEF CapacityHeld
<1> USE SpacesAssumption
<1>0. /\ IsFiniteSet(memberIds[s])
      /\ Cardinality(memberIds[s]) \in Nat
      /\ Cardinality(memberIds[s]) <= Capacity[s]
      /\ Capacity[s] \in Nat
  BY FiniteSpaces, FS_CardinalityType DEF CapacityHeld, SpacesAssumption
<1>a. ASSUME memberIds'[s] \subseteq memberIds[s]
      PROVE  Cardinality(memberIds'[s]) <= Capacity[s]
  <2>1. /\ IsFiniteSet(memberIds'[s])
        /\ Cardinality(memberIds'[s]) <= Cardinality(memberIds[s])
    BY <1>0, <1>a, FS_Subset
  <2>2. Cardinality(memberIds'[s]) \in Nat
    BY <2>1, FS_CardinalityType
  <2>3. QED
    BY <1>0, <2>1, <2>2
<1>1. ASSUME NEW m \in Members, Join(m)
      PROVE  memberIds'[s] \subseteq memberIds[s]
  BY <1>1 DEF Join, TypeOK
<1>2. ASSUME NEW m \in Members, Leave(m)
      PROVE  memberIds'[s] \subseteq memberIds[s]
  BY <1>2 DEF Leave, TypeOK
<1>3. ASSUME NEW m \in Members, SetPos(m)
      PROVE  memberIds'[s] \subseteq memberIds[s]
  BY <1>3 DEF SetPos
<1>4. ASSUME NEW m \in Members, NEW on \in BOOLEAN, SetDnd(m, on)
      PROVE  memberIds'[s] \subseteq memberIds[s]
  BY <1>4 DEF SetDnd
<1>5. ASSUME NEW m \in Members, NEW t \in SpaceIds, EnterSpace(m, t)
      PROVE  Cardinality(memberIds'[s]) <= Capacity[s]
  <2>1. CASE s # t
    <3>1. memberIds'[s] \subseteq memberIds[s]
      BY <1>5, <2>1 DEF EnterSpace, TypeOK
    <3>2. QED
      BY <3>1, <1>a
  <2>2. CASE s = t
    <3>1. /\ m \notin memberIds[s]
          /\ Cardinality(memberIds[s]) < Capacity[s]
          /\ memberIds'[s] = memberIds[s] \union {m}
      BY <1>0, <1>5, <2>2 DEF EnterSpace, Full, TypeOK, LinkInv, MembershipAgrees
    <3>2. Cardinality(memberIds'[s]) = Cardinality(memberIds[s]) + 1
      BY <1>0, <3>1, FS_AddElement
    <3>3. QED
      BY <1>0, <3>1, <3>2
  <2>3. QED
    BY <2>1, <2>2
<1>6. CASE Tick
  BY <1>6, <1>0 DEF Tick
<1>7. CASE UNCHANGED spacesVars
  BY <1>7, <1>0 DEF spacesVars
<1>8. QED
  BY <1>1, <1>2, <1>3, <1>4, <1>5, <1>6, <1>7, <1>a DEF Next

(* No interleaving of arrivals, departures and moves overfills a space     *)
(* other than the lobby.                                                   *)
THEOREM CapacityHeldCorrect == SafetySpec => []CapacityHeld
<1>1. Init => CapacityHeld
  <2>1. Cardinality({}) = 0
    BY FS_EmptySet
  <2>2. QED
    BY <2>1, SpacesAssumption DEF Init, CapacityHeld, SpacesAssumption
<1>2. (TypeOK /\ LinkInv) /\ CapacityHeld /\ [Next]_spacesVars => CapacityHeld'
  BY CapacityStep
<1>3. QED
  BY <1>1, <1>2, LinkInvCorrect, PTL DEF SafetySpec

(* All of it together, for any number of connections and spaces.           *)
THEOREM SpacesSoundCorrect == SafetySpec => []SpacesSound
BY MembershipAgreesCorrect, LinksSymmetricCorrect, LinksStayInSpaceCorrect,
   CapacityHeldCorrect, PTL DEF SpacesSound

(***************************************************************************)
(* Module ProximityLoop.  Induction over the turns of a loop: on the set   *)
(* of turns after which something holds, and over what its turns make of a *)
(* state, given as a function.                                             *)
(***************************************************************************)
LEMMA TurnByTurn ==
  ASSUME NEW lo \in Nat, NEW hi \in Nat, lo <= hi, NEW T, lo \in T,
         \A n \in lo .. hi - 1 : n \in T => n + 1 \in T
  PROVE  \A n \in lo .. hi : n \in T
<1> DEFINE stuck == (lo .. hi) \ T
<1> SUFFICES ASSUME stuck # {} PROVE FALSE
  OBVIOUS
<1>1. stuck \subseteq Nat
  OBVIOUS
<1>2. PICK m \in stuck : \A k \in stuck : ~(<<k, m>> \in OpToRel(<, Nat))
  BY <1>1, WFMin, NatLessThanWellFounded
<1>3. \A k \in stuck : k < m => <<k, m>> \in OpToRel(<, Nat)
  BY <1>1 DEF OpToRel
<1>4. \A k \in stuck : ~(k < m)
  BY <1>2, <1>3
<1>5. m \in lo .. hi /\ m \notin T /\ m # lo
  OBVIOUS
<1>6. m - 1 \in lo .. hi - 1 /\ m - 1 \in lo .. hi /\ (m - 1) + 1 = m /\ m - 1 < m
  BY <1>5
<1>7. m - 1 \in T
  BY <1>4, <1>6
<1> QED
  BY <1>5, <1>6, <1>7

Turned(f, s, lo, hi, turn) ==
  f[lo] = s /\ \A n \in lo + 1 .. hi : f[n] = turn[<<n, f[n - 1]>>]

LEMMA TurnsExist ==
  ASSUME NEW S, NEW s \in S, NEW lo \in Nat, NEW hi \in Nat, lo <= hi,
         NEW turn \in [(lo .. hi) \X S -> S]
  PROVE  \E f \in [lo .. hi -> S] : Turned(f, s, lo, hi, turn)
<1> DEFINE Runs(m) ==
             \E f \in [lo .. m -> S] :
               f[lo] = s /\ \A n \in lo + 1 .. m : f[n] = turn[<<n, f[n - 1]>>]
<1>1. Runs(lo)
  <2> DEFINE f == [n \in lo .. lo |-> s]
  <2>1. f \in [lo .. lo -> S] /\ f[lo] = s /\ lo + 1 .. lo = {}
    OBVIOUS
  <2> HIDE DEF f
  <2> QED
    BY <2>1
<1>2. ASSUME NEW m \in lo .. hi - 1, Runs(m) PROVE Runs(m + 1)
  <2>1. PICK f \in [lo .. m -> S] :
          f[lo] = s /\ \A n \in lo + 1 .. m : f[n] = turn[<<n, f[n - 1]>>]
    BY <1>2
  <2> DEFINE g == [n \in lo .. m + 1 |-> IF n = m + 1 THEN turn[<<m + 1, f[m]>>] ELSE f[n]]
  <2>2. f[m] \in S /\ m + 1 \in lo .. hi
    BY <2>1
  <2>3. turn[<<m + 1, f[m]>>] \in S
    BY <2>2
  <2>4. \A n \in lo .. m : f[n] \in S /\ n # m + 1 /\ n \in lo .. m + 1
    OBVIOUS
  <2>5. g \in [lo .. m + 1 -> S]
    BY <2>3, <2>4
  <2>6. g[m + 1] = turn[<<m + 1, f[m]>>] /\ \A n \in lo .. m : g[n] = f[n]
    BY <2>4
  <2> HIDE DEF g
  <2>7. ASSUME NEW n \in lo + 1 .. m + 1 PROVE g[n] = turn[<<n, g[n - 1]>>]
    <3>1. CASE n = m + 1
      BY <2>6, <3>1
    <3>2. CASE n # m + 1
      <4>1. n \in lo + 1 .. m /\ n \in lo .. m /\ n - 1 \in lo .. m
        BY <3>2
      <4> QED
        BY <2>1, <2>6, <4>1
    <3> QED
      BY <3>1, <3>2
  <2>8. g[lo] = s
    BY <2>1, <2>6
  <2> QED
    BY <2>5, <2>7, <2>8
<1> HIDE DEF Runs
<1>3. \A m \in lo .. hi : m \in {n \in lo .. hi : Runs(n)}
  <2> DEFINE T == {n \in lo .. hi : Runs(n)}
  <2>1. lo \in T /\ \A n \in lo .. hi - 1 : n \in T => n + 1 \in T
    BY <1>1, <1>2
  <2> HIDE DEF T
  <2>2. \A n \in lo .. hi : n \in T
    BY <2>1, TurnByTurn
  <2> QED
    BY <2>2 DEF T
<1>4. Runs(hi)
  BY <1>3
<1> QED
  BY <1>4 DEF Runs, Turned

(* The loop's state at any moment.                                         *)
Tolds == [id : Members, initiator : BOOLEAN]

Accs ==
  [sets : [Members -> SUBSET Members], connect : [Members -> Seq(Tolds)],
   disconnect : [Members -> Seq(Members)]]

InnerRun(floor, order, acc, i, inner) ==
  /\ inner[i] = acc /\ InnerLoop(floor, order, acc, i) = inner[Len(order)]
  /\ \A j \in i + 1 .. Len(order) :
       inner[j] = ExaminePair(floor, inner[j - 1], order[i], order[j])

LEMMA InnerTurns ==
  ASSUME NEW floor, NEW order, NEW acc \in Accs, NEW i \in Nat, Len(order) \in Nat, i <= Len(order),
         \A x \in Accs, j \in i + 1 .. Len(order) :
           ExaminePair(floor, x, order[i], order[j]) \in Accs
  PROVE  \E inner \in [i .. Len(order) -> Accs] : InnerRun(floor, order, acc, i, inner)
<1> DEFINE hi == Len(order)
           Is(f) == f = [j \in i .. hi |->
                           IF j = i THEN acc ELSE ExaminePair(floor, f[j - 1], order[i], order[j])]
           turn == [q \in (i .. hi) \X Accs |->
                      IF q[1] = i THEN acc ELSE ExaminePair(floor, q[2], order[i], order[q[1]])]
           inner == CHOOSE f : Is(f)
<1>1. turn \in [(i .. hi) \X Accs -> Accs]
  OBVIOUS
<1>2. \A j \in i + 1 .. hi : \A x \in Accs :
         turn[<<j, x>>] = ExaminePair(floor, x, order[i], order[j])
  OBVIOUS
<1> HIDE DEF turn
<1>3. hi \in Nat /\ i <= hi
  OBVIOUS
<1> HIDE DEF hi
<1>4. PICK f \in [i .. hi -> Accs] : Turned(f, acc, i, hi, turn)
  <2>1. i \in Nat /\ hi \in Nat /\ i <= hi /\ acc \in Accs /\ turn \in [(i .. hi) \X Accs -> Accs]
    BY <1>1, <1>3
  <2> HIDE DEF Is, inner
  <2> QED
    BY <2>1, TurnsExist
<1>5. \A n \in i .. hi : n = i \/ (n \in i + 1 .. hi /\ n # i /\ n - 1 \in i .. hi /\ f[n - 1] \in Accs)
  BY <1>3
<1>6. \A n \in i .. hi :
        f[n] = IF n = i THEN acc ELSE ExaminePair(floor, f[n - 1], order[i], order[n])
  BY <1>2, <1>4, <1>5 DEF Turned
<1>7. Is(f)
  BY <1>6
<1>8. Is(inner)
  BY <1>7
<1>9. InnerLoop(floor, order, acc, i) = inner[hi]
  BY DEF InnerLoop, hi
<1> HIDE DEF inner
<1>10. /\ i \in i .. hi /\ hi \in i .. hi /\ DOMAIN inner = i .. hi /\ inner[i] = acc
       /\ \A j \in i + 1 .. hi :
            inner[j] = ExaminePair(floor, inner[j - 1], order[i], order[j])
  <2>1. i \in i .. hi /\ hi \in i .. hi /\ \A j \in i + 1 .. hi : j \in i .. hi /\ j # i
    BY <1>3
  <2> QED
    BY <1>8, <2>1
<1>11. \A j \in i .. hi : inner[j] \in Accs
  <2> DEFINE T == {j \in i .. hi : inner[j] \in Accs}
  <2>1. i \in T
    BY <1>10
  <2>2. ASSUME NEW j \in i .. hi - 1, j \in T PROVE j + 1 \in T
    <3>1. j + 1 \in i + 1 .. hi /\ j + 1 \in i .. hi /\ (j + 1) - 1 = j
      BY <1>3
    <3>2. inner[j + 1] = ExaminePair(floor, inner[j], order[i], order[j + 1])
      BY <1>10, <3>1
    <3> QED
      BY <2>2, <3>1, <3>2 DEF hi
  <2> HIDE DEF T
  <2>3. \A j \in i .. hi : j \in T
    BY <1>3, <2>1, <2>2, TurnByTurn
  <2> QED
    BY <2>3 DEF T
<1>12. inner \in [i .. hi -> Accs]
  <2>1. inner = [j \in DOMAIN inner |-> inner[j]]
    BY <1>8
  <2> QED
    BY <1>10, <1>11, <2>1
<1> QED
  BY <1>9, <1>10, <1>12 DEF hi, InnerRun

(* What a sequence has with one more at its end.                           *)
LEMMA AppendToSet ==
  ASSUME NEW S, NEW q \in Seq(S), NEW x \in S
  PROVE  ToSet(Append(q, x)) = ToSet(q) \union {x}
<1> DEFINE n == Len(q)
           r == Append(q, x)
<1>1. /\ n \in Nat /\ DOMAIN q = 1 .. n
      /\ r \in Seq(S) /\ DOMAIN r = 1 .. n + 1 /\ r[n + 1] = x
      /\ \A i \in 1 .. n : r[i] = q[i]
  OBVIOUS
<1> HIDE DEF n, r
<1>2. n + 1 \in 1 .. n + 1 /\ \A i \in 1 .. n + 1 : i = n + 1 \/ i \in 1 .. n
  BY <1>1
<1>3. \A i \in 1 .. n : i \in 1 .. n + 1
  BY <1>1
<1>4. ToSet(r) = ToSet(q) \union {x}
  BY <1>1, <1>2, <1>3 DEF ToSet
<1> QED
  BY <1>4 DEF r

(* Nothing a peer has been told comes back a second time when something    *)
(* new is told.                                                            *)
LEMMA AppendSet ==
  ASSUME NEW S, NEW q \in Seq(S), NEW x \in S, IsInjective(q), x \notin ToSet(q)
  PROVE  /\ ToSet(Append(q, x)) = ToSet(q) \union {x}
         /\ IsInjective(Append(q, x))
<1> DEFINE n == Len(q)
           r == Append(q, x)
<1>1. /\ n \in Nat /\ DOMAIN q = 1 .. n
      /\ r \in Seq(S) /\ DOMAIN r = 1 .. n + 1 /\ r[n + 1] = x
      /\ \A i \in 1 .. n : r[i] = q[i]
  OBVIOUS
<1> HIDE DEF n, r
<1>2. ToSet(r) = ToSet(q) \union {x}
  <2>1. n + 1 \in 1 .. n + 1 /\ \A i \in 1 .. n + 1 : i = n + 1 \/ i \in 1 .. n
    BY <1>1
  <2>2. \A i \in 1 .. n : i \in 1 .. n + 1
    BY <1>1
  <2> QED
    BY <1>1, <2>1, <2>2 DEF ToSet
<1>3. ASSUME NEW i \in 1 .. n + 1, NEW j \in 1 .. n + 1, r[i] = r[j] PROVE i = j
  <2>1. \A k \in 1 .. n + 1 : k = n + 1 \/ k \in 1 .. n
    BY <1>1
  <2>2. \A k \in 1 .. n : q[k] # x
    BY <1>1 DEF ToSet
  <2>3. \A k, l \in 1 .. n : q[k] = q[l] => k = l
    BY <1>1 DEF IsInjective
  <2> QED
    BY <1>1, <1>3, <2>1, <2>2, <2>3
<1>4. IsInjective(r)
  BY <1>1, <1>3 DEF IsInjective
<1> QED
  BY <1>1, <1>2, <1>4 DEF r

(* What one peer has been told tells how its links changed from old to     *)
(* new, each change once.                                                  *)
HasTold(p, old, new, connect, disconnect) ==
  /\ ToSet(connect) = {[id |-> b, initiator |-> p < b] : b \in new \ old}
  /\ ToSet(disconnect) = old \ new
  /\ IsInjective(connect) /\ IsInjective(disconnect)

LEMMA GainTold ==
  ASSUME NEW p \in Members, NEW b \in Members, NEW old \in SUBSET Members,
         NEW new \in SUBSET Members, NEW connect \in Seq(Tolds), NEW disconnect,
         HasTold(p, old, new, connect, disconnect), b \notin old, b \notin new
  PROVE  HasTold(p, old, new \union {b}, Append(connect, Told(b, p < b)), disconnect)
<1> DEFINE x == Told(b, p < b)
<1>1. x \in Tolds /\ x = [id |-> b, initiator |-> p < b]
  BY DEF Told, Tolds
<1>2. x \notin ToSet(connect)
  BY DEF HasTold, Told
<1>3. old \ new = old \ (new \union {b}) /\ (new \union {b}) \ old = (new \ old) \union {b}
  OBVIOUS
<1>4. {[id |-> c, initiator |-> p < c] : c \in (new \union {b}) \ old}
        = {[id |-> c, initiator |-> p < c] : c \in new \ old} \union {x}
  BY <1>1, <1>3
<1>5. IsInjective(connect)
  BY DEF HasTold
<1> HIDE DEF x
<1>6. /\ IsInjective(Append(connect, x))
      /\ ToSet(Append(connect, x)) = ToSet(connect) \union {x}
  BY <1>1, <1>2, <1>5, AppendSet
<1> QED
  BY <1>3, <1>4, <1>6 DEF HasTold, x

LEMMA LossTold ==
  ASSUME NEW p \in Members, NEW b \in Members, NEW old \in SUBSET Members,
         NEW new \in SUBSET Members, NEW connect, NEW disconnect \in Seq(Members),
         HasTold(p, old, new, connect, disconnect), b \in old, b \in new
  PROVE  HasTold(p, old, new \ {b}, connect, Append(disconnect, b))
<1>1. b \notin ToSet(disconnect) /\ IsInjective(disconnect)
  BY DEF HasTold
<1>2. (new \ {b}) \ old = new \ old /\ old \ (new \ {b}) = (old \ new) \union {b}
  OBVIOUS
<1>3. /\ IsInjective(Append(disconnect, b))
      /\ ToSet(Append(disconnect, b)) = ToSet(disconnect) \union {b}
  BY <1>1, AppendSet
<1> QED
  BY <1>2, <1>3 DEF HasTold

LEMMA LinkDoes ==
  ASSUME NEW acc \in Accs, NEW a \in Members, NEW b \in Members, a # b
  PROVE  Link(acc, a, b) =
           [sets |-> [p \in Members |-> IF p = a THEN acc.sets[a] \union {b}
                                        ELSE IF p = b THEN acc.sets[b] \union {a}
                                        ELSE acc.sets[p]],
            connect |-> [p \in Members |-> IF p = a THEN Append(acc.connect[a], Told(b, a < b))
                                           ELSE IF p = b THEN Append(acc.connect[b], Told(a, ~(a < b)))
                                           ELSE acc.connect[p]],
            disconnect |-> acc.disconnect]
<1>1. acc.sets \in [Members -> SUBSET Members] /\ acc.connect \in [Members -> Seq(Tolds)]
  BY DEF Accs
<1>2. Link(acc, a, b) =
        [sets |-> [acc.sets EXCEPT ![a] = acc.sets[a] \union {b}, ![b] = acc.sets[b] \union {a}],
         connect |-> [acc.connect EXCEPT ![a] = Append(acc.connect[a], Told(b, a < b)),
                                         ![b] = Append(acc.connect[b], Told(a, ~(a < b)))],
         disconnect |-> acc.disconnect]
  BY DEF Link
<1>3. [acc.sets EXCEPT ![a] = acc.sets[a] \union {b}, ![b] = acc.sets[b] \union {a}]
        = [p \in Members |-> IF p = a THEN acc.sets[a] \union {b}
                             ELSE IF p = b THEN acc.sets[b] \union {a}
                             ELSE acc.sets[p]]
  BY <1>1
<1>4. [acc.connect EXCEPT ![a] = Append(acc.connect[a], Told(b, a < b)),
                          ![b] = Append(acc.connect[b], Told(a, ~(a < b)))]
        = [p \in Members |-> IF p = a THEN Append(acc.connect[a], Told(b, a < b))
                             ELSE IF p = b THEN Append(acc.connect[b], Told(a, ~(a < b)))
                             ELSE acc.connect[p]]
  BY <1>1
<1> QED
  BY <1>2, <1>3, <1>4

LEMMA UnlinkDoes ==
  ASSUME NEW acc \in Accs, NEW a \in Members, NEW b \in Members, a # b
  PROVE  Unlink(acc, a, b) =
           [sets |-> [p \in Members |-> IF p = a THEN acc.sets[a] \ {b}
                                        ELSE IF p = b THEN acc.sets[b] \ {a}
                                        ELSE acc.sets[p]],
            connect |-> acc.connect,
            disconnect |-> [p \in Members |-> IF p = a THEN Append(acc.disconnect[a], b)
                                              ELSE IF p = b THEN Append(acc.disconnect[b], a)
                                              ELSE acc.disconnect[p]]]
<1>1. acc.sets \in [Members -> SUBSET Members] /\ acc.disconnect \in [Members -> Seq(Members)]
  BY DEF Accs
<1>2. Unlink(acc, a, b) =
        [sets |-> [acc.sets EXCEPT ![a] = acc.sets[a] \ {b}, ![b] = acc.sets[b] \ {a}],
         connect |-> acc.connect,
         disconnect |-> [acc.disconnect EXCEPT ![a] = Append(acc.disconnect[a], b),
                                               ![b] = Append(acc.disconnect[b], a)]]
  BY DEF Unlink
<1>3. [acc.sets EXCEPT ![a] = acc.sets[a] \ {b}, ![b] = acc.sets[b] \ {a}]
        = [p \in Members |-> IF p = a THEN acc.sets[a] \ {b}
                             ELSE IF p = b THEN acc.sets[b] \ {a}
                             ELSE acc.sets[p]]
  BY <1>1
<1>4. [acc.disconnect EXCEPT ![a] = Append(acc.disconnect[a], b),
                             ![b] = Append(acc.disconnect[b], a)]
        = [p \in Members |-> IF p = a THEN Append(acc.disconnect[a], b)
                             ELSE IF p = b THEN Append(acc.disconnect[b], a)
                             ELSE acc.disconnect[p]]
  BY <1>1
<1> QED
  BY <1>2, <1>3, <1>4

LEMMA ExamineTyped ==
  ASSUME NEW floor, NEW acc \in Accs, NEW a \in Members, NEW b \in Members, a # b
  PROVE  ExaminePair(floor, acc, a, b) \in Accs
<1>1. acc.sets \in [Members -> SUBSET Members] /\ acc.connect \in [Members -> Seq(Tolds)]
        /\ acc.disconnect \in [Members -> Seq(Members)]
  BY DEF Accs
<1>2. Link(acc, a, b) \in Accs
  <2>1. Told(b, a < b) \in Tolds /\ Told(a, ~(a < b)) \in Tolds
    BY DEF Told, Tolds
  <2>2. Append(acc.connect[a], Told(b, a < b)) \in Seq(Tolds)
          /\ Append(acc.connect[b], Told(a, ~(a < b))) \in Seq(Tolds)
    BY <1>1, <2>1
  <2>3. /\ [acc.sets EXCEPT ![a] = @ \union {b}, ![b] = @ \union {a}]
             \in [Members -> SUBSET Members]
        /\ [acc.connect EXCEPT ![a] = Append(@, Told(b, a < b)),
                               ![b] = Append(@, Told(a, ~(a < b)))] \in [Members -> Seq(Tolds)]
    BY <1>1, <2>2
  <2> QED
    BY <1>1, <2>3 DEF Link, Accs
<1>3. Unlink(acc, a, b) \in Accs
  <2>1. Append(acc.disconnect[a], b) \in Seq(Members) /\ Append(acc.disconnect[b], a) \in Seq(Members)
    BY <1>1
  <2>2. /\ [acc.sets EXCEPT ![a] = @ \ {b}, ![b] = @ \ {a}] \in [Members -> SUBSET Members]
        /\ [acc.disconnect EXCEPT ![a] = Append(@, b), ![b] = Append(@, a)]
             \in [Members -> Seq(Members)]
    BY <1>1, <2>1
  <2> QED
    BY <1>1, <2>2 DEF Unlink, Accs
<1> QED
  BY <1>2, <1>3 DEF ExaminePair

(* Where the loop stands once it has examined the pairs in `seen`: those   *)
(* are linked as the closed form says, the others as before, and every     *)
(* peer has been told how its own links changed so far.                    *)
After(s, a, b) == LinkAfter(Floor[s], Linked(s, a, b), pos[a], pos[b], dnd[a], dnd[b])

AsExamined(s, sets, seen) ==
  \A a, b \in Members :
    b \in sets[a] <=> IF <<a, b>> \in seen THEN After(s, a, b) ELSE Linked(s, a, b)

Ran(s, acc, seen) ==
  /\ acc \in Accs
  /\ AsExamined(s, acc.sets, seen)
  /\ \A p \in Members : HasTold(p, links[s][p], acc.sets[p], acc.connect[p], acc.disconnect[p])

Pair(a, b) == {<<a, b>>, <<b, a>>}

LEMMA ExamineKeeps ==
  ASSUME TypeOK, LinksSymmetric, NEW s \in SpaceIds, NEW acc, NEW seen,
         NEW a \in Members, NEW b \in Members, a # b,
         Ran(s, acc, seen), Pair(a, b) \cap seen = {}
  PROVE  Ran(s, ExaminePair(Floor[s], acc, a, b), seen \union Pair(a, b))
<1> DEFINE now == ExaminePair(Floor[s], acc, a, b)
           all == seen \union Pair(a, b)
<1>1. acc \in Accs /\ AsExamined(s, acc.sets, seen)
  BY DEF Ran
<1>2. acc.sets \in [Members -> SUBSET Members] /\ acc.connect \in [Members -> Seq(Tolds)]
        /\ acc.disconnect \in [Members -> Seq(Members)]
  BY <1>1 DEF Accs
<1>3. links[s] \in [Members -> SUBSET Members]
  BY DEF TypeOK
<1>4. (b \in acc.sets[a] <=> Linked(s, a, b)) /\ (a \in acc.sets[b] <=> Linked(s, b, a))
  BY <1>1 DEF AsExamined, Pair
<1>5. (Linked(s, a, b) <=> Linked(s, b, a)) /\ (Linked(s, a, b) <=> b \in links[s][a])
        /\ (Linked(s, b, a) <=> a \in links[s][b])
  BY DEF LinksSymmetric, Linked
<1>6. After(s, a, b) <=> After(s, b, a)
  <2>1. pos[a] \in Int \X Int /\ pos[b] \in Int \X Int
    BY PointsAreInt
  <2>2. LinkAfter(Floor[s], Linked(s, a, b), pos[a], pos[b], dnd[a], dnd[b])
          <=> LinkAfter(Floor[s], Linked(s, a, b), pos[b], pos[a], dnd[b], dnd[a])
    BY <2>1, LinkAfterSymmetric
  <2>3. LinkAfter(Floor[s], Linked(s, a, b), pos[b], pos[a], dnd[b], dnd[a])
          <=> LinkAfter(Floor[s], Linked(s, b, a), pos[b], pos[a], dnd[b], dnd[a])
    BY <1>5 DEF LinkAfter
  <2> QED
    BY <2>2, <2>3 DEF After
<1>7. \A p \in Members : HasTold(p, links[s][p], acc.sets[p], acc.connect[p], acc.disconnect[p])
  BY DEF Ran
<1>8. \A p, q \in Members :
        <<p, q>> \in all <=> (<<p, q>> \in seen \/ (p = a /\ q = b) \/ (p = b /\ q = a))
  BY DEF Pair
<1>9. ASSUME NEW sets,
             \A p, q \in Members :
               q \in sets[p] <=> IF (p = a /\ q = b) \/ (p = b /\ q = a)
                                   THEN After(s, a, b) ELSE q \in acc.sets[p]
      PROVE  AsExamined(s, sets, all)
  <2>1. ASSUME NEW p \in Members, NEW q \in Members
        PROVE  q \in sets[p] <=> IF <<p, q>> \in all THEN After(s, p, q) ELSE Linked(s, p, q)
    <3>1. CASE (p = a /\ q = b) \/ (p = b /\ q = a)
      BY <1>6, <1>8, <1>9, <3>1
    <3>2. CASE ~((p = a /\ q = b) \/ (p = b /\ q = a))
      <4>1. q \in acc.sets[p] <=> IF <<p, q>> \in seen THEN After(s, p, q) ELSE Linked(s, p, q)
        BY <1>1 DEF AsExamined
      <4> QED
        BY <1>8, <1>9, <3>2, <4>1
    <3> QED
      BY <3>1, <3>2
  <2> QED
    BY <2>1 DEF AsExamined
<1>10. CASE ~Linked(s, a, b) /\ After(s, a, b)
  <2>1. now = Link(acc, a, b)
    BY <1>4, <1>10 DEF ExaminePair, After, LinkAfter
  <2>2. \A p, q \in Members :
          q \in now.sets[p] <=> IF (p = a /\ q = b) \/ (p = b /\ q = a)
                                  THEN After(s, a, b) ELSE q \in acc.sets[p]
    BY <1>1, <1>2, <1>10, <2>1, LinkDoes
  <2>3. ASSUME NEW p \in Members
        PROVE  HasTold(p, links[s][p], now.sets[p], now.connect[p], now.disconnect[p])
    <3>1. CASE p = a
      <4>1. /\ now.sets[a] = acc.sets[a] \union {b} /\ now.disconnect[a] = acc.disconnect[a]
            /\ now.connect[a] = Append(acc.connect[a], Told(b, a < b))
        BY <1>1, <2>1, LinkDoes
      <4>2. b \notin links[s][a] /\ b \notin acc.sets[a]
        BY <1>4, <1>5, <1>10
      <4>3. /\ links[s][a] \in SUBSET Members /\ acc.sets[a] \in SUBSET Members
            /\ acc.connect[a] \in Seq(Tolds)
        BY <1>2, <1>3
      <4>4. HasTold(a, links[s][a], acc.sets[a], acc.connect[a], acc.disconnect[a])
        BY <1>7
      <4> HIDE DEF now
      <4>5. HasTold(a, links[s][a], acc.sets[a] \union {b},
                    Append(acc.connect[a], Told(b, a < b)), acc.disconnect[a])
        BY <4>2, <4>3, <4>4, GainTold
      <4> QED
        BY <3>1, <4>1, <4>5
    <3>2. CASE p = b
      <4>1. /\ now.sets[b] = acc.sets[b] \union {a} /\ now.disconnect[b] = acc.disconnect[b]
            /\ now.connect[b] = Append(acc.connect[b], Told(a, ~(a < b)))
        BY <1>1, <2>1, LinkDoes
      <4>2. a \notin links[s][b] /\ a \notin acc.sets[b]
        BY <1>4, <1>5, <1>10
      <4>3. /\ links[s][b] \in SUBSET Members /\ acc.sets[b] \in SUBSET Members
            /\ acc.connect[b] \in Seq(Tolds)
        BY <1>2, <1>3
      <4>4. HasTold(b, links[s][b], acc.sets[b], acc.connect[b], acc.disconnect[b])
        BY <1>7
      <4>5. ~(a < b) = (b < a)
        BY SpacesAssumption DEF Members, SpacesAssumption
      <4> HIDE DEF now
      <4>6. now.connect[b] = Append(acc.connect[b], Told(a, b < a))
        BY <4>1, <4>5
      <4>7. HasTold(b, links[s][b], now.sets[b], now.connect[b], now.disconnect[b])
        BY <4>1, <4>2, <4>3, <4>4, <4>6, GainTold
      <4> QED
        BY <3>2, <4>7
    <3>3. CASE p # a /\ p # b
      <4>1. /\ now.sets[p] = acc.sets[p] /\ now.disconnect[p] = acc.disconnect[p]
            /\ now.connect[p] = acc.connect[p]
        BY <1>1, <2>1, <3>3, LinkDoes
      <4> HIDE DEF now
      <4> QED
        BY <1>2, <1>7, <4>1
    <3> QED
      BY <3>1, <3>2, <3>3
  <2>4. now \in Accs
    BY <1>1, ExamineTyped
  <2> HIDE DEF now, all
  <2>5. AsExamined(s, now.sets, all)
    BY <1>9, <2>2
  <2> QED
    BY <2>3, <2>4, <2>5 DEF Ran, now, all
<1>11. CASE Linked(s, a, b) /\ ~After(s, a, b)
  <2>1. now = Unlink(acc, a, b)
    BY <1>4, <1>11 DEF ExaminePair, After, LinkAfter
  <2>2. \A p, q \in Members :
          q \in now.sets[p] <=> IF (p = a /\ q = b) \/ (p = b /\ q = a)
                                  THEN After(s, a, b) ELSE q \in acc.sets[p]
    BY <1>1, <1>2, <1>11, <2>1, UnlinkDoes
  <2>3. ASSUME NEW p \in Members
        PROVE  HasTold(p, links[s][p], now.sets[p], now.connect[p], now.disconnect[p])
    <3>1. ASSUME NEW q \in Members, b \in Members, a \in Members,
                 (p = a /\ q = b) \/ (p = b /\ q = a)
          PROVE  HasTold(p, links[s][p], now.sets[p], now.connect[p], now.disconnect[p])
      <4>1. /\ now.sets[p] = acc.sets[p] \ {q} /\ now.connect[p] = acc.connect[p]
            /\ now.disconnect[p] = Append(acc.disconnect[p], q)
        BY <1>1, <2>1, <3>1, UnlinkDoes
      <4>2. q \in links[s][p] /\ q \in acc.sets[p]
        BY <1>4, <1>5, <1>11, <3>1
      <4>3. /\ links[s][p] \in SUBSET Members /\ acc.sets[p] \in SUBSET Members
            /\ acc.disconnect[p] \in Seq(Members)
        BY <1>2, <1>3
      <4>4. HasTold(p, links[s][p], acc.sets[p], acc.connect[p], acc.disconnect[p])
        BY <1>7
      <4> HIDE DEF now
      <4> QED
        BY <4>1, <4>2, <4>3, <4>4, LossTold
    <3>2. CASE p # a /\ p # b
      <4>1. /\ now.sets[p] = acc.sets[p] /\ now.disconnect[p] = acc.disconnect[p]
            /\ now.connect[p] = acc.connect[p]
        BY <1>1, <2>1, <3>2, UnlinkDoes
      <4> HIDE DEF now
      <4> QED
        BY <1>2, <1>7, <4>1
    <3> HIDE DEF now
    <3> QED
      BY <3>1, <3>2
  <2>4. now \in Accs
    BY <1>1, ExamineTyped
  <2> HIDE DEF now, all
  <2>5. AsExamined(s, now.sets, all)
    BY <1>9, <2>2
  <2> QED
    BY <2>3, <2>4, <2>5 DEF Ran, now, all
<1>12. CASE Linked(s, a, b) <=> After(s, a, b)
  <2>1. now = acc
    BY <1>4, <1>12 DEF ExaminePair, After, LinkAfter
  <2>2. \A p, q \in Members :
          q \in acc.sets[p] <=> IF (p = a /\ q = b) \/ (p = b /\ q = a)
                                  THEN After(s, a, b) ELSE q \in acc.sets[p]
    BY <1>4, <1>5, <1>12
  <2> HIDE DEF now, all
  <2>3. AsExamined(s, acc.sets, all)
    BY <1>9, <2>2
  <2> QED
    BY <1>1, <1>7, <2>1, <2>3 DEF Ran, now, all
<1> QED
  BY <1>10, <1>11, <1>12

OuterRun(s, order, outer) ==
  /\ outer[0] = Untold(links[s]) /\ Loop(s, order) = outer[Len(order)]
  /\ \A j \in 1 .. Len(order) :
       outer[j] = InnerLoop(Floor[s], order, outer[j - 1], j)

LEMMA OuterTurns ==
  ASSUME NEW s, NEW order, Untold(links[s]) \in Accs, Len(order) \in Nat,
         \A x \in Accs, j \in 1 .. Len(order) : InnerLoop(Floor[s], order, x, j) \in Accs
  PROVE  \E outer \in [0 .. Len(order) -> Accs] : OuterRun(s, order, outer)
<1> DEFINE hi == Len(order)
           Is(f) == f = [j \in 0 .. hi |->
                           IF j = 0 THEN Untold(links[s]) ELSE InnerLoop(Floor[s], order, f[j - 1], j)]
           turn == [q \in (0 .. hi) \X Accs |->
                      IF q[1] = 0 THEN Untold(links[s]) ELSE InnerLoop(Floor[s], order, q[2], q[1])]
           outer == CHOOSE f : Is(f)
<1>1. turn \in [(0 .. hi) \X Accs -> Accs]
  OBVIOUS
<1>2. \A j \in 1 .. hi : \A x \in Accs :
         turn[<<j, x>>] = InnerLoop(Floor[s], order, x, j)
  OBVIOUS
<1> HIDE DEF turn
<1>3. hi \in Nat /\ 0 <= hi
  OBVIOUS
<1> HIDE DEF hi
<1>4. PICK f \in [0 .. hi -> Accs] : Turned(f, Untold(links[s]), 0, hi, turn)
  <2>1. 0 \in Nat /\ hi \in Nat /\ 0 <= hi /\ Untold(links[s]) \in Accs /\ turn \in [(0 .. hi) \X Accs -> Accs]
    BY <1>1, <1>3
  <2> HIDE DEF Is, outer
  <2> QED
    BY <2>1, TurnsExist
<1>5. \A n \in 0 .. hi : n = 0 \/ (n \in 1 .. hi /\ n # 0 /\ n - 1 \in 0 .. hi /\ f[n - 1] \in Accs)
  BY <1>3
<1>6. \A n \in 0 .. hi :
        f[n] = IF n = 0 THEN Untold(links[s]) ELSE InnerLoop(Floor[s], order, f[n - 1], n)
  <2>1. f[0] = Untold(links[s]) /\ \A n \in 1 .. hi : f[n] = turn[<<n, f[n - 1]>>]
    BY <1>4 DEF Turned
  <2> QED
    BY <1>2, <1>5, <2>1
<1>7. Is(f)
  BY <1>6
<1>8. Is(outer)
  BY <1>7
<1>9. Loop(s, order) = outer[hi]
  BY DEF Loop, hi
<1> HIDE DEF outer
<1>10. /\ 0 \in 0 .. hi /\ hi \in 0 .. hi /\ DOMAIN outer = 0 .. hi /\ outer[0] = Untold(links[s])
       /\ \A j \in 1 .. hi :
            outer[j] = InnerLoop(Floor[s], order, outer[j - 1], j)
  <2>1. 0 \in 0 .. hi /\ hi \in 0 .. hi /\ \A j \in 1 .. hi : j \in 0 .. hi /\ j # 0
    BY <1>3
  <2> QED
    BY <1>8, <2>1
<1>11. \A j \in 0 .. hi : outer[j] \in Accs
  <2> DEFINE T == {j \in 0 .. hi : outer[j] \in Accs}
  <2>1. 0 \in T
    BY <1>10
  <2>2. ASSUME NEW j \in 0 .. hi - 1, j \in T PROVE j + 1 \in T
    <3>1. j + 1 \in 1 .. hi /\ j + 1 \in 0 .. hi /\ (j + 1) - 1 = j
      BY <1>3
    <3>2. outer[j + 1] = InnerLoop(Floor[s], order, outer[j], j + 1)
      BY <1>10, <3>1
    <3> QED
      BY <2>2, <3>1, <3>2 DEF hi
  <2> HIDE DEF T
  <2>3. \A j \in 0 .. hi : j \in T
    BY <1>3, <2>1, <2>2, TurnByTurn
  <2> QED
    BY <2>3 DEF T
<1>12. outer \in [0 .. hi -> Accs]
  <2>1. outer = [j \in DOMAIN outer |-> outer[j]]
    BY <1>8
  <2> QED
    BY <1>10, <1>11, <2>1
<1> QED
  BY <1>9, <1>10, <1>12 DEF hi, OuterRun

(* An order of the members of a space is a sequence that names each of     *)
(* them once.                                                              *)
LEMMA OrderIs ==
  ASSUME TypeOK, NEW s \in SpaceIds, NEW order \in Orders(s)
  PROVE  /\ Len(order) \in Nat
         /\ \A x \in 1 .. Len(order) : order[x] \in memberIds[s] /\ order[x] \in Members
         /\ \A x, y \in 1 .. Len(order) : order[x] = order[y] => x = y
         /\ \A m \in memberIds[s] : \E x \in 1 .. Len(order) : order[x] = m
<1> DEFINE S == memberIds[s]
           k == Cardinality(S)
<1>1. IsFiniteSet(S) /\ S \subseteq Members
  BY FiniteSpaces DEF TypeOK
<1>2. k \in Nat
  BY <1>1, FS_CardinalityType
<1>3. order \in [1 .. k -> S] /\ \A x, y \in 1 .. k : x # y => order[x] # order[y]
  BY DEF Orders, SetToSeqs
<1>4. order \in Injection(1 .. k, S)
  BY <1>3 DEF Injection, IsInjective
<1>5. ASSUME NEW n \in Nat PROVE Cardinality(1 .. n) = n
  BY FS_Interval
<1>6. order \in Surjection(1 .. k, S)
  <2>1. Cardinality(1 .. k) = k
    BY <1>2, <1>5
  <2> QED
    BY <1>1, <1>4, <2>1, FS_Injection
<1> HIDE DEF k
<1>7. Len(order) = k
  <2>1. order \in Seq(S)
    BY <1>2, <1>3, SeqDef
  <2>2. Len(order) \in Nat /\ DOMAIN order = 1 .. Len(order)
    BY <2>1, LenProperties
  <2>3. 1 .. Len(order) = 1 .. k
    BY <1>3, <2>2
  <2>4. Cardinality(1 .. Len(order)) = Len(order)
    BY <1>5, <2>2
  <2>5. Cardinality(1 .. k) = k
    BY <1>2, <1>5
  <2> QED
    BY <2>3, <2>4, <2>5
<1>8. \A m \in S : \E x \in 1 .. k : order[x] = m
  BY <1>6 DEF Surjection
<1>9. \A x \in 1 .. k : order[x] \in S /\ order[x] \in Members
  BY <1>1, <1>3
<1>10. \A x, y \in 1 .. k : order[x] = order[y] => x = y
  BY <1>3
<1> QED
  BY <1>2, <1>7, <1>8, <1>9, <1>10

(* The pairs examined once the i-th peer has met the later ones up to the  *)
(* j-th, both ways round.                                                  *)
Seen(order, i, j) ==
  {q \in Members \X Members :
     \E x, y \in 1 .. Len(order) :
       /\ x < y
       /\ x < i \/ (x = i /\ y <= j)
       /\ q \in Pair(order[x], order[y])}

LEMMA SeenOneMore ==
  ASSUME TypeOK, NEW s \in SpaceIds, NEW order \in Orders(s),
         NEW i \in 1 .. Len(order), NEW j \in i + 1 .. Len(order)
  PROVE  /\ order[i] \in Members /\ order[j] \in Members /\ order[i] # order[j]
         /\ Seen(order, i, j) = Seen(order, i, j - 1) \union Pair(order[i], order[j])
         /\ Pair(order[i], order[j]) \cap Seen(order, i, j - 1) = {}
<1>1. /\ Len(order) \in Nat
      /\ \A x \in 1 .. Len(order) : order[x] \in Members
      /\ \A x, y \in 1 .. Len(order) : order[x] = order[y] => x = y
  BY OrderIs
<1>2. i \in Nat /\ j \in Nat /\ j \in 1 .. Len(order) /\ i < j /\ j - 1 < j
  BY <1>1
<1>3. order[i] \in Members /\ order[j] \in Members /\ order[i] # order[j]
  BY <1>1, <1>2
<1>4. Seen(order, i, j) = Seen(order, i, j - 1) \union Pair(order[i], order[j])
  <2>1. ASSUME NEW x \in 1 .. Len(order), NEW y \in 1 .. Len(order)
        PROVE  (x < i \/ (x = i /\ y <= j))
                 <=> (x < i \/ (x = i /\ y <= j - 1)) \/ (x = i /\ y = j)
    BY <1>1, <1>2
  <2>2. Pair(order[i], order[j]) \subseteq Members \X Members
    BY <1>3 DEF Pair
  <2>3. ASSUME NEW q \in Seen(order, i, j)
        PROVE  q \in Seen(order, i, j - 1) \union Pair(order[i], order[j])
    BY <2>1 DEF Seen
  <2>4. ASSUME NEW q \in Seen(order, i, j - 1) PROVE q \in Seen(order, i, j)
    BY <2>1 DEF Seen
  <2>5. ASSUME NEW q \in Pair(order[i], order[j]) PROVE q \in Seen(order, i, j)
    BY <1>2, <2>1, <2>2 DEF Seen
  <2> QED
    BY <2>3, <2>4, <2>5
<1>5. ASSUME NEW q \in Pair(order[i], order[j]), q \in Seen(order, i, j - 1) PROVE FALSE
  <2>1. PICK x \in 1 .. Len(order), y \in 1 .. Len(order) :
          /\ x < y
          /\ x < i \/ (x = i /\ y <= j - 1)
          /\ q \in Pair(order[x], order[y])
    BY <1>5 DEF Seen
  <2>2. (order[x] = order[i] /\ order[y] = order[j]) \/ (order[x] = order[j] /\ order[y] = order[i])
    BY <1>5, <2>1 DEF Pair
  <2>3. (x = i /\ y = j) \/ (x = j /\ y = i)
    BY <1>1, <1>2, <2>2
  <2> QED
    BY <1>1, <1>2, <2>1, <2>3
<1> QED
  BY <1>3, <1>4, <1>5

(* The i-th peer starts where the one before it ended; the first starts    *)
(* from nothing; and after the last every pair has been examined.          *)
LEMMA SeenStarts ==
  ASSUME NEW order, Len(order) \in Nat, NEW i \in 1 .. Len(order)
  PROVE  Seen(order, i, i) = Seen(order, i - 1, Len(order))
<1>1. ASSUME NEW x \in 1 .. Len(order), NEW y \in 1 .. Len(order), x < y
      PROVE  (x < i \/ (x = i /\ y <= i))
               <=> (x < i - 1 \/ (x = i - 1 /\ y <= Len(order)))
  BY <1>1
<1> QED
  BY <1>1 DEF Seen

LEMMA SeenNothing ==
  ASSUME NEW order, Len(order) \in Nat
  PROVE  Seen(order, 0, Len(order)) = {}
  BY DEF Seen

LEMMA SeenAll ==
  ASSUME TypeOK, NEW s \in SpaceIds, NEW order \in Orders(s),
         NEW a \in Members, NEW b \in Members
  PROVE  <<a, b>> \in Seen(order, Len(order), Len(order))
           <=> a \in memberIds[s] /\ b \in memberIds[s] /\ a # b
<1>1. /\ Len(order) \in Nat
      /\ \A x \in 1 .. Len(order) : order[x] \in memberIds[s]
      /\ \A x, y \in 1 .. Len(order) : order[x] = order[y] => x = y
      /\ \A m \in memberIds[s] : \E x \in 1 .. Len(order) : order[x] = m
  BY OrderIs
<1>2. ASSUME <<a, b>> \in Seen(order, Len(order), Len(order))
      PROVE  a \in memberIds[s] /\ b \in memberIds[s] /\ a # b
  <2>1. PICK x \in 1 .. Len(order), y \in 1 .. Len(order) :
          x < y /\ <<a, b>> \in Pair(order[x], order[y])
    BY <1>2 DEF Seen
  <2>2. x # y
    BY <2>1
  <2> QED
    BY <1>1, <2>1, <2>2 DEF Pair
<1>3. ASSUME a \in memberIds[s], b \in memberIds[s], a # b
      PROVE  <<a, b>> \in Seen(order, Len(order), Len(order))
  <2>1. PICK x \in 1 .. Len(order) : order[x] = a
    BY <1>1, <1>3
  <2>2. PICK y \in 1 .. Len(order) : order[y] = b
    BY <1>1, <1>3
  <2>3. x < y \/ y < x
    BY <1>3, <2>1, <2>2
  <2>4. CASE x < y
    <3>1. x < Len(order) /\ <<a, b>> \in Pair(order[x], order[y])
      BY <1>1, <2>1, <2>2, <2>4 DEF Pair
    <3> QED
      BY <2>4, <3>1 DEF Seen
  <2>5. CASE y < x
    <3>1. y < Len(order) /\ <<a, b>> \in Pair(order[y], order[x])
      BY <1>1, <2>1, <2>2, <2>5 DEF Pair
    <3> QED
      BY <2>5, <3>1 DEF Seen
  <2> QED
    BY <2>3, <2>4, <2>5
<1> QED
  BY <1>2, <1>3

LEMMA InnerRuns ==
  ASSUME TypeOK, LinksSymmetric, NEW s \in SpaceIds, NEW order \in Orders(s),
         NEW i \in 1 .. Len(order), NEW acc \in Accs
  PROVE  /\ InnerLoop(Floor[s], order, acc, i) \in Accs
         /\ Ran(s, acc, Seen(order, i, i))
              => Ran(s, InnerLoop(Floor[s], order, acc, i), Seen(order, i, Len(order)))
<1> DEFINE hi == Len(order)
           floor == Floor[s]
<1>1. hi \in Nat /\ i \in Nat /\ i <= hi
  BY OrderIs
<1>2. \A x \in Accs, j \in i + 1 .. hi : ExaminePair(floor, x, order[i], order[j]) \in Accs
  <2> SUFFICES ASSUME NEW x \in Accs, NEW j \in i + 1 .. hi
               PROVE  ExaminePair(floor, x, order[i], order[j]) \in Accs
    OBVIOUS
  <2>1. order[i] \in Members /\ order[j] \in Members /\ order[i] # order[j]
    BY SeenOneMore
  <2> QED
    BY <2>1, ExamineTyped
<1>3. PICK inner \in [i .. Len(order) -> Accs] : InnerRun(floor, order, acc, i, inner)
  BY <1>1, <1>2, InnerTurns
<1>4. i \in i .. hi /\ hi \in i .. hi
  BY <1>1
<1>5. ASSUME Ran(s, acc, Seen(order, i, i)) PROVE Ran(s, inner[hi], Seen(order, i, hi))
  <2> DEFINE T == {j \in i .. hi : Ran(s, inner[j], Seen(order, i, j))}
  <2>1. i \in T
    BY <1>3, <1>4, <1>5 DEF InnerRun
  <2>2. ASSUME NEW j \in i .. hi - 1, j \in T PROVE j + 1 \in T
    <3>1. j + 1 \in i + 1 .. hi /\ j + 1 \in i .. hi /\ (j + 1) - 1 = j
      BY <1>1
    <3>2. inner[j + 1] = ExaminePair(floor, inner[j], order[i], order[j + 1])
      BY <1>3, <3>1 DEF InnerRun
    <3>3. /\ order[i] \in Members /\ order[j + 1] \in Members /\ order[i] # order[j + 1]
          /\ Seen(order, i, j + 1) = Seen(order, i, j) \union Pair(order[i], order[j + 1])
          /\ Pair(order[i], order[j + 1]) \cap Seen(order, i, j) = {}
      BY <3>1, SeenOneMore
    <3>4. Ran(s, inner[j], Seen(order, i, j))
      BY <2>2
    <3>5. Ran(s, ExaminePair(floor, inner[j], order[i], order[j + 1]),
              Seen(order, i, j) \union Pair(order[i], order[j + 1]))
      BY <3>3, <3>4, ExamineKeeps
    <3> QED
      BY <3>1, <3>2, <3>3, <3>5
  <2> HIDE DEF T
  <2>3. \A j \in i .. hi : j \in T
    BY <1>1, <2>1, <2>2, TurnByTurn
  <2> QED
    BY <1>4, <2>3 DEF T
<1> QED
  BY <1>3, <1>4, <1>5 DEF InnerRun

LEMMA LoopRuns ==
  ASSUME TypeOK, LinksSymmetric, NEW s \in SpaceIds, NEW order \in Orders(s)
  PROVE  Ran(s, Loop(s, order), Seen(order, Len(order), Len(order)))
<1> DEFINE hi == Len(order)
<1>1. hi \in Nat
  BY OrderIs
<1>2. links[s] \in [Members -> SUBSET Members]
  BY DEF TypeOK
<1>3. Untold(links[s]) \in Accs
  BY <1>2 DEF Untold, Accs
<1>4. Ran(s, Untold(links[s]), Seen(order, 0, hi))
  <2>1. AsExamined(s, Untold(links[s]).sets, {})
    BY DEF AsExamined, Untold, Linked
  <2>2. ASSUME NEW p \in Members PROVE HasTold(p, links[s][p], links[s][p], <<>>, <<>>)
    BY DEF HasTold, ToSet, IsInjective
  <2>3. \A p \in Members : /\ Untold(links[s]).sets[p] = links[s][p]
                           /\ Untold(links[s]).connect[p] = <<>>
                           /\ Untold(links[s]).disconnect[p] = <<>>
    BY DEF Untold
  <2>4. Seen(order, 0, hi) = {}
    BY <1>1, SeenNothing
  <2> QED
    BY <1>3, <2>1, <2>2, <2>3, <2>4 DEF Ran
<1>5. \A x \in Accs, j \in 1 .. hi : InnerLoop(Floor[s], order, x, j) \in Accs
  BY InnerRuns
<1>6. PICK outer \in [0 .. Len(order) -> Accs] : OuterRun(s, order, outer)
  BY <1>1, <1>3, <1>5, OuterTurns
<1> DEFINE T == {j \in 0 .. hi : Ran(s, outer[j], Seen(order, j, hi))}
<1>7. 0 \in T
  BY <1>1, <1>4, <1>6 DEF OuterRun
<1>8. ASSUME NEW j \in 0 .. hi - 1, j \in T PROVE j + 1 \in T
  <2>1. j + 1 \in 1 .. hi /\ j + 1 \in 0 .. hi /\ (j + 1) - 1 = j /\ j \in 0 .. hi
    BY <1>1
  <2>2. outer[j + 1] = InnerLoop(Floor[s], order, outer[j], j + 1)
    BY <1>6, <2>1 DEF OuterRun
  <2>3. Ran(s, outer[j], Seen(order, j, hi)) /\ outer[j] \in Accs
    BY <1>8, <2>1
  <2>4. Seen(order, j + 1, j + 1) = Seen(order, j, hi)
    BY <1>1, <2>1, SeenStarts
  <2>5. Ran(s, outer[j], Seen(order, j + 1, j + 1))
    BY <2>3, <2>4
  <2>6. Ran(s, InnerLoop(Floor[s], order, outer[j], j + 1), Seen(order, j + 1, hi))
    BY <2>1, <2>3, <2>5, InnerRuns
  <2> QED
    BY <2>1, <2>2, <2>6
<1> HIDE DEF T
<1>9. \A j \in 0 .. hi : j \in T
  <2>1. 0 \in Nat /\ 0 <= hi
    BY <1>1
  <2> QED
    BY <1>1, <1>7, <1>8, <2>1, TurnByTurn
<1>10. hi \in 0 .. hi
  BY <1>1
<1> QED
  BY <1>6, <1>9, <1>10 DEF T, OuterRun

LEMMA LoopTells == TypeOK /\ LinkInv => LoopTellsTheChange
<1> SUFFICES ASSUME TypeOK, LinkInv, NEW s \in SpaceIds, NEW order \in Orders(s)
             PROVE  LET run == Loop(s, order)
                    IN  /\ run.sets = UpdateProximity(Floor[s], memberIds[s], pos, dnd, links[s])
                        /\ \A p \in memberIds[s] :
                             /\ ToSet(run.connect[p]) = Connects(links[s], run.sets, p)
                             /\ ToSet(run.disconnect[p]) = Disconnects(links[s], run.sets, p)
                             /\ IsInjective(run.connect[p]) /\ IsInjective(run.disconnect[p])
  BY DEF LoopTellsTheChange
<1> DEFINE run == Loop(s, order)
           all == Seen(order, Len(order), Len(order))
           closed == UpdateProximity(Floor[s], memberIds[s], pos, dnd, links[s])
<1>1. Ran(s, run, all)
  BY LoopRuns DEF LinkInv
<1>2. run.sets \in [Members -> SUBSET Members] /\ AsExamined(s, run.sets, all)
  BY <1>1 DEF Ran, Accs
<1>3. memberIds[s] \subseteq Members /\ links[s] \in [Members -> SUBSET Members]
  BY DEF TypeOK
<1>4. closed \in [Members -> SUBSET Members]
  BY <1>3, UpdateProximityType
<1>5. ASSUME NEW a \in Members, NEW b \in Members PROVE b \in run.sets[a] <=> b \in closed[a]
  <2>1. b \in run.sets[a] <=> IF <<a, b>> \in all THEN After(s, a, b) ELSE b \in links[s][a]
    BY <1>2 DEF AsExamined, Linked
  <2>2. <<a, b>> \in all <=> a \in memberIds[s] /\ b \in memberIds[s] /\ a # b
    BY SeenAll
  <2>3. b \in closed[a] <=> IF a \in memberIds[s] /\ b \in memberIds[s] /\ a # b
                              THEN After(s, a, b) ELSE b \in links[s][a]
    BY <1>3 DEF UpdateProximity, After, Linked
  <2> HIDE DEF run, all, closed
  <2> QED
    BY <2>1, <2>2, <2>3
<1>6. run.sets = closed
  <2> HIDE DEF run, closed
  <2>1. ASSUME NEW a \in Members PROVE run.sets[a] = closed[a]
    BY <1>2, <1>4, <1>5
  <2> QED
    BY <1>2, <1>4, <2>1
<1>7. \A p \in memberIds[s] :
        HasTold(p, links[s][p], run.sets[p], run.connect[p], run.disconnect[p])
  BY <1>1, <1>3 DEF Ran
<1>8. \A p \in memberIds[s] :
        /\ ToSet(run.connect[p]) = Connects(links[s], run.sets, p)
        /\ ToSet(run.disconnect[p]) = Disconnects(links[s], run.sets, p)
        /\ IsInjective(run.connect[p]) /\ IsInjective(run.disconnect[p])
  BY <1>7 DEF HasTold, Connects, Disconnects
<1> QED
  BY <1>6, <1>8

(* The order in which a tick meets the members of a space is whatever the  *)
(* HashSet gives: in every one of them the loop ends in the link sets the  *)
(* model ticks by, and tells each peer exactly how its links changed, each *)
(* change once, one side of a new link to make the offer and not the other.*)
THEOREM LoopTellsTheChangeCorrect == SafetySpec => []LoopTellsTheChange
<1>1. TypeOK /\ LinkInv => LoopTellsTheChange
  BY LoopTells
<1> QED
  BY <1>1, LinkInvCorrect, PTL

(***************************************************************************)
(* Module SpaceViews.                                                      *)
(***************************************************************************)
Statuses == {"active", "dnd"}

(* What a roster knows of a member.                                        *)
Known == [space : SpaceIds \union {Offline}, status : Statuses]

Maps(T) == UNION {[P -> T] : P \in SUBSET Members}

(* Every session a client may have.                                        *)
Views ==
  [space : SpaceIds \union {Offline}, peers : Maps(Statuses), prox : SUBSET Members,
   roster : Maps(Known), offline : SUBSET Members]

ViewTyped ==
  /\ told \in [Members -> Views]
  /\ reply \in [Members -> [space : SpaceIds, peers : SUBSET Members] \union {Nothing}]
  /\ overtaken \in [Members -> BOOLEAN]
  /\ reentered \in [Members -> BOOLEAN]

(* A snapshot its reader still holds is of the space the member is in; and *)
(* as long as nothing overtook it, it is what the server holds by then:    *)
(* those peers, and not yet a link.                                        *)
Holds(m) ==
  reply[m] # Nothing =>
    /\ m \in Online /\ reply[m].space = spaceId[m]
    /\ ~overtaken[m] /\ ~reentered[m] =>
         reply[m].peers = memberIds[spaceId[m]] \ {m} /\ links[spaceId[m]][m] = {}

(* The three properties, of one member.                                    *)
Hears(m) ==
  Settled(m) => told[m].space = spaceId[m] /\ told[m].prox \subseteq links[spaceId[m]][m]

Exact(m) ==
  Settled(m) /\ ~overtaken[m] /\ ~reentered[m] =>
    PeersIn(told[m]) = memberIds[spaceId[m]] \ {m} /\ told[m].prox = links[spaceId[m]][m]

(* Every avatar wears its member's status.                                 *)
Avatars(v) == \A p \in PeersIn(v) : v.peers[p] = Status(v, p)

Lists(m) ==
  m \in Online =>
    /\ DOMAIN told[m].roster \ told[m].offline = Online \ {m}
    /\ \A p \in Online \ {m} : told[m].roster[p] = RosterMember(p)
    /\ Avatars(told[m])

Sees(m) == Holds(m) /\ Hears(m) /\ Exact(m) /\ Lists(m)

ViewInv == TypeOK /\ LinkInv /\ ViewTyped /\ \A m \in Members : Sees(m)

(***************************************************************************)
(* What each handler leaves of a view.                                     *)
(***************************************************************************)
(* Functions whose domain is any set of members.                           *)
LEMMA MapsDo ==
  ASSUME NEW T, NEW f
  PROVE  /\ f \in Maps(T) => DOMAIN f \subseteq Members /\ f = [p \in DOMAIN f |-> f[p]]
                              /\ \A p \in DOMAIN f : f[p] \in T
         /\ \A P \in SUBSET Members : f \in [P -> T] => f \in Maps(T)
  BY DEF Maps

(* An avatar only ever wears a status there is.                            *)
LEMMA StatusType ==
  ASSUME NEW v, v.roster \in Maps(Known), NEW p
  PROVE  Status(v, p) \in Statuses
<1>1. p \in DOMAIN v.roster => v.roster[p] \in Known
  BY MapsDo, Zenon
<1>. QED
  BY <1>1 DEF Status, Known, Statuses

(* A view whose fields are known but for its avatars, which are redrawn.   *)
LEMMA RebuildDoes ==
  ASSUME NEW space \in SpaceIds \union {Offline}, NEW peers, DOMAIN peers \subseteq Members,
         NEW prox \in SUBSET Members, NEW roster \in Maps(Known), NEW offline \in SUBSET Members,
         NEW v, v = [space |-> space, peers |-> peers, prox |-> prox,
                     roster |-> roster, offline |-> offline]
  PROVE  /\ RebuildRoster(v) \in Views
         /\ RebuildRoster(v).space = space /\ RebuildRoster(v).prox = prox
         /\ RebuildRoster(v).roster = roster /\ RebuildRoster(v).offline = offline
         /\ PeersIn(RebuildRoster(v)) = DOMAIN peers
         /\ Avatars(RebuildRoster(v))
<1>. DEFINE drawn == [p \in DOMAIN peers |-> Status(v, p)]
<1>1. RebuildRoster(v) = [space |-> space, peers |-> drawn, prox |-> prox,
                          roster |-> roster, offline |-> offline]
  BY DEF RebuildRoster, PeersIn
<1>2. \A p : Status(RebuildRoster(v), p) = Status(v, p)
  BY <1>1 DEF Status
<1>3. drawn \in Maps(Statuses)
  <2>1. \A p \in DOMAIN peers : Status(v, p) \in Statuses
    BY StatusType
  <2>2. drawn \in [DOMAIN peers -> Statuses]
    BY <2>1
  <2>. QED
    BY <2>2, MapsDo
<1>4. \A p \in DOMAIN peers : drawn[p] = Status(v, p)
  OBVIOUS
<1>5. DOMAIN drawn = DOMAIN peers
  OBVIOUS
<1>. HIDE DEF drawn
<1>6. RebuildRoster(v) \in Views
  BY <1>1, <1>3 DEF Views
<1>7. PeersIn(RebuildRoster(v)) = DOMAIN peers
  BY <1>1, <1>5 DEF PeersIn
<1>8. Avatars(RebuildRoster(v))
  BY <1>1, <1>2, <1>4, <1>7 DEF Avatars
<1>. QED
  BY <1>1, <1>6, <1>7, <1>8

(* A view is the record of its five fields.                                *)
LEMMA ViewIs ==
  ASSUME NEW v \in Views
  PROVE  /\ v.space \in SpaceIds \union {Offline} /\ v.peers \in Maps(Statuses)
         /\ v.prox \in SUBSET Members /\ v.roster \in Maps(Known)
         /\ v.offline \in SUBSET Members /\ PeersIn(v) \subseteq Members
         /\ v = [space |-> v.space, peers |-> v.peers, prox |-> v.prox,
                 roster |-> v.roster, offline |-> v.offline]
<1>1. /\ v.space \in SpaceIds \union {Offline} /\ v.peers \in Maps(Statuses)
      /\ v.prox \in SUBSET Members /\ v.roster \in Maps(Known)
      /\ v.offline \in SUBSET Members
      /\ v = [space |-> v.space, peers |-> v.peers, prox |-> v.prox,
              roster |-> v.roster, offline |-> v.offline]
  BY DEF Views
<1>2. DOMAIN v.peers \subseteq Members
  BY <1>1, MapsDo
<1>. QED
  BY <1>1, <1>2 DEF PeersIn

(* One assignment to a field of a view, and the handlers' several.         *)
LEMMA FieldDoes ==
  ASSUME NEW x1, NEW x2, NEW x3, NEW x4, NEW x5, NEW y,
         NEW v, v = [space |-> x1, peers |-> x2, prox |-> x3, roster |-> x4, offline |-> x5]
  PROVE  /\ [v EXCEPT !.space = y] =
              [space |-> y, peers |-> x2, prox |-> x3, roster |-> x4, offline |-> x5]
         /\ [v EXCEPT !.peers = y] =
              [space |-> x1, peers |-> y, prox |-> x3, roster |-> x4, offline |-> x5]
         /\ [v EXCEPT !.prox = y] =
              [space |-> x1, peers |-> x2, prox |-> y, roster |-> x4, offline |-> x5]
         /\ [v EXCEPT !.roster = y] =
              [space |-> x1, peers |-> x2, prox |-> x3, roster |-> y, offline |-> x5]
         /\ [v EXCEPT !.offline = y] =
              [space |-> x1, peers |-> x2, prox |-> x3, roster |-> x4, offline |-> y]
OBVIOUS

Moved(v, a, b, c) == [v EXCEPT !.space = a, !.prox = b, !.peers = c]

Relisted(v, a, b) == [v EXCEPT !.roster = a, !.offline = b]

LEMMA MovedDoes ==
  ASSUME NEW v \in Views, NEW a, NEW b, NEW c
  PROVE  Moved(v, a, b, c) =
           [space |-> a, peers |-> c, prox |-> b, roster |-> v.roster, offline |-> v.offline]
<1>1. [v EXCEPT !.space = a] =
        [space |-> a, peers |-> v.peers, prox |-> v.prox, roster |-> v.roster, offline |-> v.offline]
  BY ViewIs, FieldDoes
<1>2. ASSUME NEW w, w = [space |-> a, peers |-> v.peers, prox |-> v.prox,
                         roster |-> v.roster, offline |-> v.offline]
      PROVE  [w EXCEPT !.prox = b] =
        [space |-> a, peers |-> v.peers, prox |-> b, roster |-> v.roster, offline |-> v.offline]
  BY <1>2
<1>3. ASSUME NEW w, w = [space |-> a, peers |-> v.peers, prox |-> b,
                         roster |-> v.roster, offline |-> v.offline]
      PROVE  [w EXCEPT !.peers = c] =
        [space |-> a, peers |-> c, prox |-> b, roster |-> v.roster, offline |-> v.offline]
  BY <1>3
<1>4. [v EXCEPT !.space = a, !.prox = b, !.peers = c] =
        [[[v EXCEPT !.space = a] EXCEPT !.prox = b] EXCEPT !.peers = c]
  OBVIOUS
<1>5. [[v EXCEPT !.space = a] EXCEPT !.prox = b] =
        [space |-> a, peers |-> v.peers, prox |-> b, roster |-> v.roster, offline |-> v.offline]
  BY <1>1, <1>2
<1>6. [[[v EXCEPT !.space = a] EXCEPT !.prox = b] EXCEPT !.peers = c] =
        [space |-> a, peers |-> c, prox |-> b, roster |-> v.roster, offline |-> v.offline]
  BY <1>5, <1>3
<1>. QED
  BY <1>4, <1>6 DEF Moved

LEMMA RelistedDoes ==
  ASSUME NEW v \in Views, NEW a, NEW b
  PROVE  Relisted(v, a, b) =
           [space |-> v.space, peers |-> v.peers, prox |-> v.prox, roster |-> a, offline |-> b]
<1>1. [v EXCEPT !.roster = a] =
        [space |-> v.space, peers |-> v.peers, prox |-> v.prox, roster |-> a, offline |-> v.offline]
  BY ViewIs, FieldDoes
<1>2. ASSUME NEW w, w = [space |-> v.space, peers |-> v.peers, prox |-> v.prox,
                         roster |-> a, offline |-> v.offline]
      PROVE  [w EXCEPT !.offline = b] =
        [space |-> v.space, peers |-> v.peers, prox |-> v.prox, roster |-> a, offline |-> b]
  BY <1>2
<1>3. [v EXCEPT !.roster = a, !.offline = b] = [[v EXCEPT !.roster = a] EXCEPT !.offline = b]
  OBVIOUS
<1>4. [[v EXCEPT !.roster = a] EXCEPT !.offline = b] =
        [space |-> v.space, peers |-> v.peers, prox |-> v.prox, roster |-> a, offline |-> b]
  BY <1>1, <1>2
<1>. QED
  BY <1>3, <1>4 DEF Relisted

(* space_joined adds a peer, and touches nothing else.                     *)
LEMMA JoinedDoes ==
  ASSUME NEW v \in Views, NEW p \in Members
  PROVE  LET w == SpaceJoined(v, p)
         IN  /\ w \in Views /\ w.space = v.space /\ w.prox = v.prox
             /\ w.roster = v.roster /\ w.offline = v.offline
             /\ PeersIn(w) = PeersIn(v) \union {p}
<1>. USE ViewIs
<1>1. CASE p \in PeersIn(v)
  BY <1>1 DEF SpaceJoined
<1>2. CASE p \notin PeersIn(v)
  <2>. DEFINE peers == [q \in PeersIn(v) \union {p} |-> IF q = p THEN "active" ELSE v.peers[q]]
  <2>1. \A q \in PeersIn(v) : v.peers[q] \in Statuses
    BY MapsDo DEF PeersIn
  <2>2. peers \in [PeersIn(v) \union {p} -> Statuses]
    BY <2>1 DEF Statuses
  <2>3. peers \in Maps(Statuses)
    BY <2>2, MapsDo
  <2>4. SpaceJoined(v, p) = [v EXCEPT !.peers = peers]
    BY <1>2 DEF SpaceJoined
  <2>5. DOMAIN peers = PeersIn(v) \union {p}
    OBVIOUS
  <2>. HIDE DEF peers
  <2>6. SpaceJoined(v, p) = [space |-> v.space, peers |-> peers, prox |-> v.prox,
                             roster |-> v.roster, offline |-> v.offline]
    BY <2>4
  <2>. QED
    BY <2>3, <2>5, <2>6 DEF Views, PeersIn
<1>. QED
  BY <1>1, <1>2

(* space_left takes a peer away with its link.                             *)
LEMMA LeftDoes ==
  ASSUME NEW v \in Views, NEW p \in Members
  PROVE  LET w == SpaceLeft(v, p)
         IN  /\ w \in Views /\ w.space = v.space /\ w.prox = v.prox \ {p}
             /\ w.roster = v.roster /\ w.offline = v.offline
             /\ PeersIn(w) = PeersIn(v) \ {p}
<1>. USE ViewIs
<1>. DEFINE peers == [q \in PeersIn(v) \ {p} |-> v.peers[q]]
<1>1. \A q \in PeersIn(v) : v.peers[q] \in Statuses
  BY MapsDo DEF PeersIn
<1>2. peers \in [PeersIn(v) \ {p} -> Statuses]
  BY <1>1
<1>3. peers \in Maps(Statuses)
  BY <1>2, MapsDo
<1>4. SpaceLeft(v, p) = [v EXCEPT !.peers = peers, !.prox = @ \ {p}]
  BY DEF SpaceLeft, Restrict
<1>5. DOMAIN peers = PeersIn(v) \ {p}
  OBVIOUS
<1>. HIDE DEF peers
<1>6. SpaceLeft(v, p) = [space |-> v.space, peers |-> peers, prox |-> v.prox \ {p},
                         roster |-> v.roster, offline |-> v.offline]
  BY <1>4
<1>. QED
  BY <1>3, <1>5, <1>6 DEF Views, PeersIn

(* presence lists one member, and redraws the avatars.                     *)
LEMMA PresenceDoes ==
  ASSUME NEW v \in Views, NEW p \in Members, NEW k \in Known
  PROVE  LET w == Presence(v, p, k)
         IN  /\ w \in Views /\ w.space = v.space /\ w.prox = v.prox
             /\ PeersIn(w) = PeersIn(v) /\ Avatars(w)
             /\ DOMAIN w.roster = DOMAIN v.roster \union {p} /\ w.offline = v.offline \ {p}
             /\ w.roster[p] = k
             /\ \A q \in DOMAIN v.roster : q # p => w.roster[q] = v.roster[q]
<1>. USE ViewIs
<1>. DEFINE roster == [q \in DOMAIN v.roster \union {p} |-> IF q = p THEN k ELSE v.roster[q]]
            fresh == [space |-> v.space, peers |-> v.peers, prox |-> v.prox,
                      roster |-> roster, offline |-> v.offline \ {p}]
<1>1. DOMAIN v.roster \subseteq Members /\ \A q \in DOMAIN v.roster : v.roster[q] \in Known
  BY MapsDo
<1>2. roster \in [DOMAIN v.roster \union {p} -> Known]
  BY <1>1
<1>3. roster \in Maps(Known)
  BY <1>1, <1>2, MapsDo
<1>4. Presence(v, p, k) = RebuildRoster(fresh)
  <2>1. Presence(v, p, k) = RebuildRoster(Relisted(v, roster, v.offline \ {p}))
    BY DEF Presence, Relisted
  <2>2. Relisted(v, roster, v.offline \ {p}) = fresh
    <3>. HIDE DEF roster
    <3>. QED
      BY RelistedDoes, ZenonT(30)
  <2>. QED
    BY <2>1, <2>2
<1>5. /\ DOMAIN roster = DOMAIN v.roster \union {p} /\ roster[p] = k
      /\ \A q \in DOMAIN v.roster : q # p => roster[q] = v.roster[q]
  OBVIOUS
<1>. HIDE DEF roster
<1>6. fresh = [space |-> v.space, peers |-> v.peers, prox |-> v.prox,
               roster |-> roster, offline |-> v.offline \ {p}]
  OBVIOUS
<1>. HIDE DEF fresh
<1>7. DOMAIN v.peers \subseteq Members /\ v.offline \ {p} \in SUBSET Members
  BY DEF PeersIn
<1>8. /\ RebuildRoster(fresh) \in Views
      /\ RebuildRoster(fresh).space = v.space /\ RebuildRoster(fresh).prox = v.prox
      /\ RebuildRoster(fresh).roster = roster /\ RebuildRoster(fresh).offline = v.offline \ {p}
      /\ PeersIn(RebuildRoster(fresh)) = DOMAIN v.peers
      /\ Avatars(RebuildRoster(fresh))
  BY <1>3, <1>6, <1>7, RebuildDoes
<1>. QED
  BY <1>4, <1>5, <1>8 DEF PeersIn

(* presence_left greys out one member.                                     *)
LEMMA PresenceLeftDoes ==
  ASSUME NEW v \in Views, NEW p \in Members
  PROVE  LET w == PresenceLeft(v, p)
         IN  /\ w \in Views /\ w.space = v.space /\ w.prox = v.prox
             /\ PeersIn(w) = PeersIn(v) /\ Avatars(w)
             /\ w.roster = v.roster
             /\ w.offline = v.offline \union ({p} \intersect DOMAIN v.roster)
<1>. USE ViewIs
<1>. DEFINE offline == v.offline \union ({p} \intersect DOMAIN v.roster)
            fresh == [space |-> v.space, peers |-> v.peers, prox |-> v.prox,
                      roster |-> v.roster, offline |-> offline]
<1>1. PresenceLeft(v, p) = RebuildRoster(fresh)
  BY SMTT(30) DEF PresenceLeft
<1>2. offline \in SUBSET Members /\ DOMAIN v.peers \subseteq Members
  BY DEF PeersIn
<1>3. fresh = [space |-> v.space, peers |-> v.peers, prox |-> v.prox,
               roster |-> v.roster, offline |-> offline]
  OBVIOUS
<1>. HIDE DEF fresh
<1>4. /\ RebuildRoster(fresh) \in Views
      /\ RebuildRoster(fresh).space = v.space /\ RebuildRoster(fresh).prox = v.prox
      /\ RebuildRoster(fresh).roster = v.roster /\ RebuildRoster(fresh).offline = offline
      /\ PeersIn(RebuildRoster(fresh)) = DOMAIN v.peers
      /\ Avatars(RebuildRoster(fresh))
  BY <1>2, <1>3, RebuildDoes
<1>. QED
  BY <1>1, <1>4 DEF PeersIn

(* proximity changes the links alone.                                      *)
LEMMA ProximityDoes ==
  ASSUME NEW v \in Views, NEW connect \in SUBSET Members, NEW disconnect
  PROVE  /\ Proximity(v, connect, disconnect) \in Views
         /\ Proximity(v, connect, disconnect) =
              [space |-> v.space, peers |-> v.peers, prox |-> (v.prox \union connect) \ disconnect,
               roster |-> v.roster, offline |-> v.offline]
<1>. DEFINE prox == (v.prox \union connect) \ disconnect
<1>1. Proximity(v, connect, disconnect) = [v EXCEPT !.prox = prox]
  BY DEF Proximity
<1>2. prox \in SUBSET Members
  BY ViewIs
<1>. HIDE DEF prox
<1>3. [v EXCEPT !.prox = prox] = [space |-> v.space, peers |-> v.peers, prox |-> prox,
                                  roster |-> v.roster, offline |-> v.offline]
  BY ViewIs, FieldDoes
<1>4. Proximity(v, connect, disconnect) \in Views
  BY <1>1, <1>2, <1>3, ViewIs DEF Views
<1>. QED
  BY <1>1, <1>3, <1>4 DEF prox

(* A snapshot replaces space and peers, and drops the links.               *)
LEMMA SnapshotDoes ==
  ASSUME NEW v \in Views, NEW snapshot \in [space : SpaceIds, peers : SUBSET Members]
  PROVE  LET w == SpaceSnapshot(v, snapshot)
         IN  /\ w \in Views /\ w.space = snapshot.space /\ w.prox = {}
             /\ PeersIn(w) = snapshot.peers /\ Avatars(w)
             /\ w.roster = v.roster /\ w.offline = v.offline
<1>. USE ViewIs
<1>. DEFINE peers == [p \in snapshot.peers |-> "active"]
            fresh == [space |-> snapshot.space, peers |-> peers, prox |-> {},
                      roster |-> v.roster, offline |-> v.offline]
<1>1. SpaceSnapshot(v, snapshot) = RebuildRoster(fresh)
  <2>2. SpaceSnapshot(v, snapshot) = RebuildRoster(Moved(v, snapshot.space, {}, peers))
    BY DEF SpaceSnapshot, Moved
  <2>3. Moved(v, snapshot.space, {}, peers) = fresh
    <3>. HIDE DEF peers
    <3>. QED
      BY MovedDoes
  <2>. QED
    BY <2>2, <2>3
<1>2. DOMAIN peers = snapshot.peers
  OBVIOUS
<1>. HIDE DEF peers
<1>3. fresh = [space |-> snapshot.space, peers |-> peers, prox |-> {},
               roster |-> v.roster, offline |-> v.offline]
  OBVIOUS
<1>. HIDE DEF fresh
<1>4. /\ RebuildRoster(fresh) \in Views
      /\ RebuildRoster(fresh).space = snapshot.space /\ RebuildRoster(fresh).prox = {}
      /\ RebuildRoster(fresh).roster = v.roster /\ RebuildRoster(fresh).offline = v.offline
      /\ PeersIn(RebuildRoster(fresh)) = DOMAIN peers
      /\ Avatars(RebuildRoster(fresh))
  BY <1>2, <1>3, RebuildDoes, SMTT(30)
<1>. QED
  BY <1>1, <1>2, <1>4

LEMMA MemberKnown ==
  ASSUME TypeOK
  PROVE  \A p \in Members : RosterMember(p) \in Known
  BY DEF TypeOK, RosterMember, Known, Statuses

LEMMA NothingSeen == Nothing \in Views
<1>1. {} \in SUBSET Members
  OBVIOUS
<1>2. [p \in {} |-> "active"] \in [{} -> Statuses] /\ [p \in {} |-> "active"] \in [{} -> Known]
  OBVIOUS
<1>3. [p \in {} |-> "active"] \in Maps(Statuses) /\ [p \in {} |-> "active"] \in Maps(Known)
  BY <1>1, <1>2, MapsDo
<1>. QED
  BY <1>1, <1>3 DEF Nothing, NoPeers, NoRoster, Views

(* The welcome starts a view from the lobby and from everyone online.      *)
LEMMA InitSessionDoes ==
  ASSUME TypeOK, NEW peers \in SUBSET Members, NEW members \in SUBSET Members
  PROVE  LET w == InitSession(peers, members)
         IN  /\ w \in Views /\ w.space = Lobby /\ w.prox = {}
             /\ PeersIn(w) = peers /\ Avatars(w)
             /\ DOMAIN w.roster = members /\ w.offline = {}
             /\ \A p \in members : w.roster[p] = RosterMember(p)
<1>. DEFINE drawn == [p \in peers |-> "active"]
            roster == [p \in members |-> RosterMember(p)]
            fresh == [space |-> Lobby, peers |-> drawn, prox |-> {},
                      roster |-> roster, offline |-> {}]
<1>1. InitSession(peers, members) = RebuildRoster(fresh)
  BY DEF InitSession
<1>2. roster \in [members -> Known]
  BY MemberKnown
<1>3. roster \in Maps(Known)
  BY <1>2, MapsDo
<1>4. /\ DOMAIN drawn = peers /\ DOMAIN roster = members
      /\ \A p \in members : roster[p] = RosterMember(p)
  OBVIOUS
<1>. HIDE DEF drawn, roster
<1>5. fresh = [space |-> Lobby, peers |-> drawn, prox |-> {},
               roster |-> roster, offline |-> {}]
  OBVIOUS
<1>. HIDE DEF fresh
<1>6. /\ RebuildRoster(fresh) \in Views
      /\ RebuildRoster(fresh).space = Lobby /\ RebuildRoster(fresh).prox = {}
      /\ RebuildRoster(fresh).roster = roster /\ RebuildRoster(fresh).offline = {}
      /\ PeersIn(RebuildRoster(fresh)) = DOMAIN drawn
      /\ Avatars(RebuildRoster(fresh))
  <2>1. Lobby \in SpaceIds \union {Offline} /\ {} \in SUBSET Members
    BY SpacesAssumption DEF SpacesAssumption
  <2>. QED
    BY <2>1, <1>3, <1>4, <1>5, RebuildDoes
<1>. QED
  BY <1>1, <1>4, <1>6

(***************************************************************************)
(* The steps.                                                              *)
(***************************************************************************)
(* What broadcast_presence brings a client besides what it was told        *)
(* before: the roster stays right, and nothing else moves.                 *)
LEMMA BroadcastDoes ==
  ASSUME ViewInv, TypeOK', NEW m \in Members, NEW q \in Online \ {m}, NEW v \in Views,
         v.roster = told[q].roster, v.offline = told[q].offline,
         told'[q] = Presence(v, m, RosterMember(m)'),
         Online' = Online \union {m},
         \A p \in Online \ {m} : RosterMember(p)' = RosterMember(p)
  PROVE  /\ told'[q] \in Views /\ told'[q].space = v.space /\ told'[q].prox = v.prox
         /\ PeersIn(told'[q]) = PeersIn(v)
         /\ Lists(q)'
<1>1. RosterMember(m)' \in Known
  BY DEF TypeOK, RosterMember, Known, Statuses
<1>. DEFINE k == RosterMember(m)'
<1>2. /\ told'[q] \in Views /\ told'[q].space = v.space /\ told'[q].prox = v.prox
      /\ PeersIn(told'[q]) = PeersIn(v) /\ Avatars(told'[q])
      /\ DOMAIN told'[q].roster = DOMAIN v.roster \union {m}
      /\ told'[q].offline = v.offline \ {m} /\ told'[q].roster[m] = k
      /\ \A p \in DOMAIN v.roster : p # m => told'[q].roster[p] = v.roster[p]
  <2>. HIDE DEF k
  <2>. QED
    BY <1>1, PresenceDoes DEF k
<1>3. q \in Members /\ Lists(q)
  BY DEF ViewInv, Sees, Online
<1>4. /\ DOMAIN v.roster \ v.offline = Online \ {q}
      /\ \A p \in Online \ {q} : v.roster[p] = RosterMember(p)
  BY <1>3 DEF Lists
<1>5. DOMAIN told'[q].roster \ told'[q].offline = Online' \ {q}
  BY <1>2, <1>4
<1>6. ASSUME NEW p \in Online' \ {q} PROVE told'[q].roster[p] = RosterMember(p)'
  <2>1. CASE p = m
    BY <2>1, <1>2
  <2>2. CASE p # m
    BY <2>2, <1>2, <1>4
  <2>. QED
    BY <2>1, <2>2
<1>7. Lists(q)'
  BY <1>2, <1>5, <1>6 DEF Lists, Avatars, PeersIn, Status
<1>. QED
  BY <1>2, <1>7

Kept == ViewTyped' /\ \A q \in Members : Sees(q)'

(* Where a member is, as the two records have it.                          *)
LEMMA Whereabouts ==
  ASSUME ViewInv
  PROVE  /\ Online \in SUBSET Members
         /\ \A p \in Members : p \in Online <=> spaceId[p] \in SpaceIds
         /\ \A p \in Members, s \in SpaceIds : p \in memberIds[s] <=> spaceId[p] = s
         /\ \A p \in Members, s \in SpaceIds : spaceId[p] # s => links[s][p] = {}
         /\ \A p \in Members : reply[p] # Nothing => p \in Online
         /\ told \in [Members -> Views]
<1>1. /\ TypeOK /\ MembershipAgrees /\ LinksStayInSpace
  BY DEF ViewInv, LinkInv
<1>2. \A p \in Members : p \in Online <=> spaceId[p] \in SpaceIds
  BY <1>1, SpacesAssumption DEF Online, TypeOK, SpacesAssumption
<1>3. \A p \in Members, s \in SpaceIds : spaceId[p] # s => links[s][p] = {}
  BY <1>1 DEF LinksStayInSpace, Linked, TypeOK
<1>. QED
  BY <1>1, <1>2, <1>3 DEF MembershipAgrees, Online, ViewInv, ViewTyped, Sees, Holds

(* A join: the newcomer is welcomed, and everyone else told of it.         *)
LEMMA ServeJoinKeeps ==
  ASSUME ViewInv, TypeOK', NEW m \in Members, ServeJoin(m)
  PROVE  Kept
<1>. USE Whereabouts
<1>1. m \notin Online /\ reply[m] = Nothing
  BY DEF ServeJoin, Join, ViewInv, LinkInv, FreshOffline, Online
<1>2. /\ spaceId' = [spaceId EXCEPT ![m] = Lobby] /\ links' = links
      /\ memberIds' = [memberIds EXCEPT ![Lobby] = @ \union {m}]
      /\ dnd' = [dnd EXCEPT ![m] = FALSE] /\ reply' = reply /\ reentered' = reentered
      /\ Lobby \in SpaceIds /\ Offline \notin SpaceIds
  BY SpacesAssumption DEF ServeJoin, Join, SpacesAssumption
<1>3. /\ spaceId \in [Members -> SpaceIds \union {Offline}] /\ dnd \in [Members -> BOOLEAN]
      /\ memberIds \in [SpaceIds -> SUBSET Members]
  BY DEF ViewInv, TypeOK
<1>4. /\ spaceId'[m] = Lobby /\ \A p \in Members \ {m} : spaceId'[p] = spaceId[p]
      /\ \A p \in Members \ {m} : dnd'[p] = dnd[p]
      /\ \A s \in SpaceIds : memberIds'[s] = IF s = Lobby THEN memberIds[s] \union {m}
                                                           ELSE memberIds[s]
  <2>. HIDE Whereabouts
  <2>1. spaceId'[m] = Lobby /\ \A p \in Members \ {m} : spaceId'[p] = spaceId[p]
    BY <1>2, <1>3
  <2>2. \A p \in Members \ {m} : dnd'[p] = dnd[p]
    BY <1>2, <1>3
  <2>3. \A s \in SpaceIds : memberIds'[s] = IF s = Lobby THEN memberIds[s] \union {m}
                                                          ELSE memberIds[s]
    BY <1>2, <1>3
  <2>. QED
    BY <2>1, <2>2, <2>3
<1>5. Online' = Online \union {m}
  BY <1>2, <1>4 DEF Online
<1>6. \A p \in Online : RosterMember(p)' = RosterMember(p)
  BY <1>1, <1>4 DEF RosterMember, Online
<1>7. \A q \in Members : overtaken'[q] <=> overtaken[q] \/ (q \in memberIds[Lobby] /\ reply[q] # Nothing)
  BY DEF ServeJoin, Overtake, ViewInv, ViewTyped
<1>8. /\ told'[m] \in Views /\ told'[m].space = Lobby /\ told'[m].prox = {}
      /\ PeersIn(told'[m]) = memberIds[Lobby] \ {m} /\ Lists(m)'
  <2>. DEFINE w == InitSession(memberIds[Lobby] \ {m}, Online)
  <2>1. told'[m] = w
    BY DEF ServeJoin, PresenceOf, PeersExcept
  <2>2. /\ w \in Views /\ w.space = Lobby /\ w.prox = {}
        /\ PeersIn(w) = memberIds[Lobby] \ {m} /\ Avatars(w)
        /\ DOMAIN w.roster = Online /\ w.offline = {}
        /\ \A p \in Online : w.roster[p] = RosterMember(p)
    <3>1. TypeOK /\ memberIds[Lobby] \ {m} \in SUBSET Members /\ Online \in SUBSET Members
      BY <1>2, <1>3 DEF ViewInv
    <3>. HIDE Whereabouts
    <3>. QED
      BY <3>1, InitSessionDoes
  <2>. HIDE DEF w
  <2>3. Online' \ {m} = Online
    BY <1>1, <1>5
  <2>4. Lists(m)'
    BY <2>1, <2>2, <2>3, <1>6 DEF Lists, Avatars, PeersIn, Status
  <2>. QED
    BY <2>1, <2>2, <2>4
<1>9. ASSUME NEW q \in Online
      PROVE  /\ told'[q] \in Views /\ told'[q].space = told[q].space
             /\ told'[q].prox = told[q].prox /\ Lists(q)'
             /\ PeersIn(told'[q]) = IF q \in memberIds[Lobby] THEN PeersIn(told[q]) \union {m}
                                                            ELSE PeersIn(told[q])
  <2>. DEFINE v == IF q \in memberIds[Lobby] THEN SpaceJoined(told[q], m) ELSE told[q]
  <2>1. q \in Members \ {m} /\ told[q] \in Views
    BY <1>1 DEF Online
  <2>2. told'[q] = Presence(v, m, RosterMember(m)')
    BY <2>1 DEF ServeJoin, PresenceOf
  <2>3. /\ v \in Views /\ v.space = told[q].space /\ v.prox = told[q].prox
        /\ v.roster = told[q].roster /\ v.offline = told[q].offline
        /\ PeersIn(v) = IF q \in memberIds[Lobby] THEN PeersIn(told[q]) \union {m}
                                                ELSE PeersIn(told[q])
    <3>. HIDE Whereabouts
    <3>. QED
      BY <2>1, JoinedDoes
  <2>. HIDE DEF v
  <2>4. \A p \in Online \ {m} : RosterMember(p)' = RosterMember(p)
    BY <1>6
  <2>5. q \in Online \ {m}
    BY <2>1
  <2>6. /\ told'[q] \in Views /\ told'[q].space = v.space /\ told'[q].prox = v.prox
        /\ PeersIn(told'[q]) = PeersIn(v)
        /\ Lists(q)'
    <3>. HIDE Whereabouts
    <3>. QED
      BY <2>2, <2>3, <2>4, <2>5, <1>5, BroadcastDoes
  <2>. QED
    BY <2>3, <2>6
<1>10. ASSUME NEW q \in Members, q \notin Online, q # m PROVE told'[q] = told[q]
  BY <1>10, <1>2 DEF ServeJoin, PresenceOf
<1>11. ViewTyped'
  <2>1. told' = [q \in Members |-> told'[q]]
    BY DEF ServeJoin, PresenceOf
  <2>2. \A q \in Members : told'[q] \in Views
    BY <1>8, <1>9, <1>10
  <2>3. told' \in [Members -> Views]
    BY <2>1, <2>2
  <2>4. overtaken' \in [Members -> BOOLEAN]
    BY DEF ServeJoin, Overtake, ViewInv, ViewTyped
  <2>. QED
    BY <1>2, <2>3, <2>4 DEF ViewInv, ViewTyped
<1>12. ASSUME NEW q \in Members PROVE Sees(q)'
  <2>1. CASE q = m
    <3>1. spaceId'[q] = Lobby /\ links'[Lobby][q] = {} /\ reply'[q] = Nothing
      BY <2>1, <1>1, <1>2, <1>4
    <3>2. memberIds'[Lobby] \ {q} = memberIds[Lobby] \ {q}
      BY <2>1, <1>2, <1>4
    <3>. QED
      BY <2>1, <3>1, <3>2, <1>8 DEF Sees, Holds, Hears, Exact, Settled
  <2>2. CASE q \in Online
    <3>1. q # m /\ spaceId'[q] = spaceId[q] /\ spaceId[q] \in SpaceIds
      BY <2>2, <1>1, <1>4
    <3>2. links'[spaceId[q]][q] = links[spaceId[q]][q] /\ reply'[q] = reply[q]
          /\ (q \in memberIds[Lobby] <=> spaceId[q] = Lobby)
      BY <1>2
    <3>3. Sees(q)
      BY DEF ViewInv
    <3>4. Holds(q)'
      BY <3>1, <3>2, <3>3, <1>2, <1>4, <1>5, <1>7, <2>2 DEF Sees, Holds
    <3>5. Hears(q)'
      BY <3>1, <3>2, <3>3, <1>9, <2>2 DEF Sees, Hears, Settled
    <3>6. Exact(q)'
      <4>. HIDE Whereabouts
      <4>1. q \in Members /\ (overtaken'[q] = FALSE => overtaken[q] = FALSE) /\ reentered'[q] = reentered[q]
        BY <1>2, <1>7 DEF ViewInv, ViewTyped
      <4>2. CASE q \in memberIds[Lobby]
        <5>1. memberIds'[spaceId[q]] = memberIds[spaceId[q]] \union {m}
          BY <3>1, <3>2, <1>4, <4>2
        <5>2. PeersIn(told'[q]) = PeersIn(told[q]) \union {m} /\ told'[q].prox = told[q].prox
          BY <1>9, <2>2, <4>2
        <5>. QED
          BY <5>1, <5>2, <4>1, <3>1, <3>2, <3>3, <2>2, <1>7 DEF Sees, Exact, Settled
      <4>3. CASE q \notin memberIds[Lobby]
        <5>1. memberIds'[spaceId[q]] = memberIds[spaceId[q]]
          BY <3>1, <3>2, <1>4, <4>3
        <5>2. PeersIn(told'[q]) = PeersIn(told[q]) /\ told'[q].prox = told[q].prox
          BY <1>9, <2>2, <4>3
        <5>. QED
          BY <5>1, <5>2, <4>1, <3>1, <3>2, <3>3, <2>2, <1>7 DEF Sees, Exact, Settled
      <4>. QED
        BY <4>2, <4>3
    <3>. QED
      BY <3>4, <3>5, <3>6, <1>9, <2>2 DEF Sees
  <2>3. CASE q \notin Online /\ q # m
    <3>1. q \notin Online' /\ reply'[q] = Nothing
      BY <2>3, <1>2, <1>5
    <3>. QED
      BY <3>1 DEF Sees, Holds, Hears, Exact, Lists, Settled
  <2>. QED
    BY <2>1, <2>2, <2>3
<1>. QED
  BY <1>11, <1>12 DEF Kept

(* A member told of those who came to its space and those who left it.     *)
LEMMA Follows ==
  ASSUME ViewInv, NEW q \in Online, NEW come, NEW gone,
         q \in Online', spaceId'[q] = spaceId[q], reply'[q] = reply[q], reentered'[q] = reentered[q],
         memberIds'[spaceId[q]] = (memberIds[spaceId[q]] \union come) \ gone,
         links'[spaceId[q]][q] = links[spaceId[q]][q] \ gone,
         told'[q].space = told[q].space, told'[q].prox = told[q].prox \ gone,
         PeersIn(told'[q]) = (PeersIn(told[q]) \union come) \ gone,
         q \notin come,
         overtaken[q] => overtaken'[q],
         come # {} \/ gone # {} => reply[q] = Nothing \/ overtaken'[q],
         Lists(q)'
  PROVE  Sees(q)'
<1>1. Sees(q) /\ q \in Members
  BY DEF ViewInv, Online
<1>2. Holds(q)'
  BY <1>1 DEF Sees, Holds
<1>3. Hears(q)'
  BY <1>1 DEF Sees, Hears, Settled
<1>4. Exact(q)'
  BY <1>1 DEF Sees, Exact, Settled
<1>. QED
  BY <1>2, <1>3, <1>4 DEF Sees

(* Nothing is claimed of who is offline.                                   *)
LEMMA OfflineSees ==
  ASSUME NEW q, q \notin Online', reply'[q] = Nothing
  PROVE  Sees(q)'
  BY DEF Sees, Holds, Hears, Exact, Lists, Settled

(* The links of those who stay where the leaver was.                       *)
LEMMA DepartDoes ==
  ASSUME ViewInv, NEW m \in Online, links' = [links EXCEPT ![spaceId[m]] = RemovePeer(m, @)],
         NEW q \in Online \ {m}
  PROVE  links'[spaceId[q]][q] = IF spaceId[q] = spaceId[m] THEN links[spaceId[q]][q] \ {m}
                                                            ELSE links[spaceId[q]][q]
<1>1. m \in Members /\ q \in Members /\ spaceId[m] \in SpaceIds /\ spaceId[q] \in SpaceIds
  BY Whereabouts
<1>2. links \in [SpaceIds -> [Members -> SUBSET Members]] /\ LinksSymmetric
  BY DEF ViewInv, TypeOK, LinkInv
<1>3. CASE spaceId[q] = spaceId[m]
  <2>. DEFINE sets == links[spaceId[m]]
  <2>1. \A a, b \in Members : b \in sets[a] => a \in sets[b]
    BY <1>1, <1>2 DEF LinksSymmetric, Linked
  <2>2. sets \in [Members -> SUBSET Members]
    BY <1>1, <1>2
  <2>3. links'[spaceId[m]] = RemovePeer(m, sets)
    BY <1>1, <1>2
  <2>. HIDE DEF sets
  <2>4. \A b \in Members : b \in RemovePeer(m, sets)[q] <=> b \in sets[q] /\ b # m
    BY <2>1, <2>2, <1>1, RemovePeerErases
  <2>5. RemovePeer(m, sets)[q] \subseteq Members /\ sets[q] \subseteq Members
    BY <2>2, <1>1, RemovePeerType
  <2>6. RemovePeer(m, sets)[q] = sets[q] \ {m}
    BY <2>4, <2>5
  <2>. QED
    BY <1>3, <2>3, <2>6 DEF sets
<1>4. CASE spaceId[q] # spaceId[m]
  BY <1>1, <1>2, <1>4
<1>. QED
  BY <1>3, <1>4

(* A departure erases the leaver from every view, links included.          *)
LEMMA ServeLeaveKeeps ==
  ASSUME ViewInv, TypeOK', NEW m \in Members, ServeLeave(m)
  PROVE  Kept
<1>1. m \in Online /\ reply[m] = Nothing
  BY DEF ServeLeave, Leave
<1>2. /\ spaceId' = [spaceId EXCEPT ![m] = Offline]
      /\ links' = [links EXCEPT ![spaceId[m]] = RemovePeer(m, @)]
      /\ memberIds' = [memberIds EXCEPT ![spaceId[m]] = @ \ {m}]
      /\ dnd' = [dnd EXCEPT ![m] = FALSE] /\ reply' = reply /\ reentered' = reentered
  BY DEF ServeLeave, Leave
<1>3. /\ spaceId \in [Members -> SpaceIds \union {Offline}] /\ dnd \in [Members -> BOOLEAN]
      /\ memberIds \in [SpaceIds -> SUBSET Members] /\ spaceId[m] \in SpaceIds
  BY <1>1, Whereabouts DEF ViewInv, TypeOK
<1>4. \A p \in Members \ {m} : spaceId'[p] = spaceId[p] /\ dnd'[p] = dnd[p]
  BY <1>2, <1>3
<1>5. \A s \in SpaceIds : memberIds'[s] = IF s = spaceId[m] THEN memberIds[s] \ {m}
                                                             ELSE memberIds[s]
  BY <1>2, <1>3
<1>6. Online' = Online \ {m}
  BY <1>2, <1>3, <1>4 DEF Online
<1>7. \A p \in Online \ {m} : RosterMember(p)' = RosterMember(p)
  BY <1>4 DEF RosterMember, Online
<1>8. \A q \in Members : overtaken'[q] <=>
        overtaken[q] \/ (q \in memberIds[spaceId[m]] \ {m} /\ reply[q] # Nothing)
  BY DEF ServeLeave, Overtake, ViewInv, ViewTyped
<1>9. ASSUME NEW q \in Online \ {m}
      PROVE  /\ told'[q] \in Views /\ told'[q].space = told[q].space /\ Lists(q)'
             /\ q \in memberIds[spaceId[m]] =>
                  told'[q].prox = told[q].prox \ {m} /\ PeersIn(told'[q]) = PeersIn(told[q]) \ {m}
             /\ q \notin memberIds[spaceId[m]] =>
                  told'[q].prox = told[q].prox /\ PeersIn(told'[q]) = PeersIn(told[q])
  <2>. DEFINE v == IF q \in memberIds[spaceId[m]] THEN SpaceLeft(told[q], m) ELSE told[q]
              w == PresenceLeft(v, m)
  <2>1. q \in Members /\ told[q] \in Views /\ Lists(q)
    BY Whereabouts DEF ViewInv, Sees
  <2>2. told'[q] = w
    BY <2>1 DEF ServeLeave
  <2>3. /\ v \in Views /\ v.space = told[q].space
        /\ v.roster = told[q].roster /\ v.offline = told[q].offline
        /\ q \in memberIds[spaceId[m]] =>
             v.prox = told[q].prox \ {m} /\ PeersIn(v) = PeersIn(told[q]) \ {m}
        /\ q \notin memberIds[spaceId[m]] =>
             v.prox = told[q].prox /\ PeersIn(v) = PeersIn(told[q])
    BY <2>1, LeftDoes
  <2>. HIDE DEF v
  <2>4. /\ w \in Views /\ w.space = v.space /\ w.prox = v.prox
        /\ PeersIn(w) = PeersIn(v) /\ Avatars(w)
        /\ w.roster = v.roster
        /\ w.offline = v.offline \union ({m} \intersect DOMAIN v.roster)
    BY <2>3, PresenceLeftDoes
  <2>. HIDE DEF w
  <2>5. m \in DOMAIN v.roster
    BY <2>1, <2>3, <1>1 DEF Lists
  <2>6. DOMAIN w.roster \ w.offline = Online' \ {q}
    BY <2>1, <2>3, <2>4, <2>5, <1>6 DEF Lists
  <2>7. \A p \in Online' \ {q} : w.roster[p] = RosterMember(p)'
    BY <2>1, <2>3, <2>4, <1>6, <1>7 DEF Lists
  <2>8. Lists(q)'
    BY <2>2, <2>4, <2>6, <2>7 DEF Lists, Avatars, PeersIn, Status
  <2>. QED
    BY <2>2, <2>3, <2>4, <2>8
<1>10. told'[m] = Nothing /\ \A q \in Members : q \notin Online => told'[q] = told[q]
  BY <1>1 DEF ServeLeave
<1>11. ViewTyped'
  <2>1. told' = [q \in Members |-> told'[q]]
    BY DEF ServeLeave
  <2>2. Nothing \in Views
    BY NothingSeen
  <2>3. \A q \in Members : told'[q] \in Views
    BY <1>9, <1>10, <2>2, Whereabouts
  <2>4. told' \in [Members -> Views]
    BY <2>1, <2>3
  <2>5. overtaken' \in [Members -> BOOLEAN]
    BY DEF ServeLeave, Overtake, ViewInv, ViewTyped
  <2>. QED
    BY <1>2, <2>4, <2>5 DEF ViewInv, ViewTyped
<1>12. ASSUME NEW q \in Members PROVE Sees(q)'
  <2>1. CASE q = m \/ q \notin Online
    <3>1. q \notin Online' /\ reply'[q] = Nothing
      BY <2>1, <1>1, <1>2, <1>6, Whereabouts
    <3>. QED
      BY <3>1, OfflineSees
  <2>2. CASE q \in Online \ {m}
    <3>1. /\ q \in Online' /\ spaceId'[q] = spaceId[q] /\ spaceId[q] \in SpaceIds
          /\ reply'[q] = reply[q] /\ reentered'[q] = reentered[q]
          /\ overtaken[q] => overtaken'[q]
      BY <2>2, <1>2, <1>4, <1>6, <1>8, Whereabouts
    <3>2. q \in memberIds[spaceId[m]] <=> spaceId[q] = spaceId[m]
      BY <1>3, Whereabouts
    <3>3. links'[spaceId[q]][q] = IF spaceId[q] = spaceId[m] THEN links[spaceId[q]][q] \ {m}
                                                            ELSE links[spaceId[q]][q]
      BY <2>2, <1>1, <1>2, DepartDoes
    <3>4. CASE spaceId[q] = spaceId[m]
      <4>. DEFINE come == {} gone == {m}
      <4>1. memberIds'[spaceId[q]] = (memberIds[spaceId[q]] \union come) \ gone
        BY <3>1, <3>4, <1>5
      <4>2. links'[spaceId[q]][q] = links[spaceId[q]][q] \ gone
        BY <3>3, <3>4
      <4>3. /\ told'[q].space = told[q].space /\ told'[q].prox = told[q].prox \ gone
            /\ PeersIn(told'[q]) = (PeersIn(told[q]) \union come) \ gone /\ Lists(q)'
        BY <2>2, <3>2, <3>4, <1>9
      <4>4. q \notin come /\ (reply[q] = Nothing \/ overtaken'[q])
        BY <2>2, <3>2, <3>4, <1>8
      <4>. HIDE DEF come, gone
      <4>. QED
        BY <2>2, <3>1, <4>1, <4>2, <4>3, <4>4, Follows
    <3>5. CASE spaceId[q] # spaceId[m]
      <4>. DEFINE come == {} gone == {}
      <4>1. memberIds'[spaceId[q]] = (memberIds[spaceId[q]] \union come) \ gone
        BY <3>1, <3>5, <1>5
      <4>2. links'[spaceId[q]][q] = links[spaceId[q]][q] \ gone
        BY <3>3, <3>5
      <4>3. /\ told'[q].space = told[q].space /\ told'[q].prox = told[q].prox \ gone
            /\ PeersIn(told'[q]) = (PeersIn(told[q]) \union come) \ gone /\ Lists(q)'
        BY <2>2, <3>2, <3>5, <1>9
      <4>4. q \notin come /\ come = {} /\ gone = {}
        OBVIOUS
      <4>. HIDE DEF come, gone
      <4>. QED
        BY <2>2, <3>1, <4>1, <4>2, <4>3, <4>4, Follows
    <3>. QED
      BY <3>4, <3>5
  <2>. QED
    BY <2>1, <2>2
<1>. QED
  BY <1>11, <1>12 DEF Kept

(* Steps that tell nobody anything.                                        *)
LEMMA QuietKeeps ==
  ASSUME ViewInv, UNCHANGED <<spaceId, memberIds, dnd, links, told, reply, overtaken, reentered>>
  PROVE  Kept
<1>1. ViewTyped'
  BY DEF ViewInv, ViewTyped
<1>2. Online' = Online
  BY DEF Online
<1>3. ASSUME NEW q \in Members PROVE Sees(q)'
  <2>1. Sees(q)
    BY DEF ViewInv
  <2>2. Holds(q)' /\ Hears(q)' /\ Exact(q)'
    BY <2>1, <1>2 DEF Sees, Holds, Hears, Exact, Settled, PeersIn
  <2>3. Lists(q)'
    BY <2>1, <1>2 DEF Sees, Lists, RosterMember, Avatars, PeersIn, Status
  <2>. QED
    BY <2>2, <2>3 DEF Sees
<1>. QED
  BY <1>1, <1>3 DEF Kept

(* A change of status reaches every roster, and the avatars with it.       *)
LEMMA ServeStatusKeeps ==
  ASSUME ViewInv, TypeOK', NEW m \in Members, NEW on \in BOOLEAN, ServeStatus(m, on)
  PROVE  Kept
<1>1. /\ m \in Online /\ dnd' = [dnd EXCEPT ![m] = on]
      /\ UNCHANGED <<spaceId, memberIds, links, reply, overtaken, reentered>>
  BY DEF ServeStatus, SetDnd
<1>2. Online' = Online
  BY <1>1 DEF Online
<1>3. \A p \in Online \ {m} : RosterMember(p)' = RosterMember(p)
  BY <1>1 DEF RosterMember, Online, ViewInv, TypeOK
<1>4. ASSUME NEW q \in Online \ {m}
      PROVE  /\ told'[q] \in Views /\ told'[q].space = told[q].space
             /\ told'[q].prox = told[q].prox /\ PeersIn(told'[q]) = PeersIn(told[q])
             /\ Lists(q)'
  <2>1. q \in Members /\ told[q] \in Views
    BY Whereabouts
  <2>2. told'[q] = Presence(told[q], m, RosterMember(m)')
    BY <2>1 DEF ServeStatus, PresenceOf
  <2>3. Online' = Online \union {m}
    BY <1>1, <1>2
  <2>. QED
    BY <2>1, <2>2, <2>3, <1>3, BroadcastDoes
<1>5. \A q \in Members : q \notin Online \ {m} => told'[q] = told[q]
  BY DEF ServeStatus, PresenceOf
<1>6. ViewTyped'
  <2>1. told' = [q \in Members |-> told'[q]]
    BY DEF ServeStatus, PresenceOf
  <2>2. \A q \in Members : told'[q] \in Views
    BY <1>4, <1>5, Whereabouts
  <2>3. told' \in [Members -> Views]
    BY <2>1, <2>2
  <2>. QED
    BY <1>1, <2>3 DEF ViewInv, ViewTyped
<1>7. ASSUME NEW q \in Members PROVE Sees(q)'
  <2>1. Sees(q)
    BY DEF ViewInv
  <2>2. /\ told'[q].space = told[q].space /\ told'[q].prox = told[q].prox
        /\ PeersIn(told'[q]) = PeersIn(told[q])
    BY <1>4, <1>5
  <2>3. Holds(q)' /\ Hears(q)' /\ Exact(q)'
    BY <2>1, <2>2, <1>1, <1>2 DEF Sees, Holds, Hears, Exact, Settled
  <2>4. Lists(q)'
    <3>1. CASE q \in Online \ {m}
      BY <3>1, <1>4
    <3>2. CASE q = m
      BY <3>2, <2>1, <1>1, <1>2, <1>3, <1>5 DEF Sees, Lists, Avatars, PeersIn, Status
    <3>3. CASE q \notin Online
      BY <3>3, <1>2 DEF Lists
    <3>. QED
      BY <3>1, <3>2, <3>3
  <2>. QED
    BY <2>3, <2>4 DEF Sees
<1>. QED
  BY <1>6, <1>7 DEF Kept

(* The snapshot is what the server holds, if nothing overtook it.          *)
LEMMA ReplyKeeps ==
  ASSUME ViewInv, NEW m \in Members, Reply(m)
  PROVE  Kept
<1>1. /\ UNCHANGED <<spaceId, memberIds, dnd, links, overtaken, reentered>>
      /\ reply[m] # Nothing
      /\ told' = [told EXCEPT ![m] = SpaceSnapshot(@, reply[m])]
      /\ reply' = [reply EXCEPT ![m] = Nothing]
  BY DEF Reply, spacesVars
<1>2. Online' = Online /\ \A p : RosterMember(p)' = RosterMember(p)
  BY <1>1 DEF Online, RosterMember
<1>3. /\ told \in [Members -> Views]
      /\ reply \in [Members -> [space : SpaceIds, peers : SUBSET Members] \union {Nothing}]
  BY DEF ViewInv, ViewTyped
<1>4. \A q \in Members \ {m} : told'[q] = told[q] /\ reply'[q] = reply[q]
  BY <1>1, <1>3
<1>. DEFINE w == SpaceSnapshot(told[m], reply[m])
<1>5. told'[m] = w /\ reply'[m] = Nothing
  BY <1>1, <1>3
<1>6. /\ w \in Views /\ w.space = reply[m].space /\ w.prox = {}
      /\ PeersIn(w) = reply[m].peers /\ Avatars(w)
      /\ w.roster = told[m].roster /\ w.offline = told[m].offline
  <2>1. told[m] \in Views /\ reply[m] \in [space : SpaceIds, peers : SUBSET Members]
    BY <1>1, <1>3
  <2>. QED
    BY <2>1, SnapshotDoes
<1>. HIDE DEF w
<1>7. ViewTyped'
  <2>1. told' \in [Members -> Views] /\ reply' \in [Members -> [space : SpaceIds, peers : SUBSET Members] \union {Nothing}]
    <3>1. told' = [q \in Members |-> told'[q]] /\ reply' = [q \in Members |-> reply'[q]]
      BY <1>1, <1>3
    <3>2. \A q \in Members : told'[q] \in Views
      BY <1>3, <1>4, <1>5, <1>6
    <3>3. \A q \in Members : reply'[q] \in [space : SpaceIds, peers : SUBSET Members] \union {Nothing}
      BY <1>3, <1>4, <1>5
    <3>4. told' \in [Members -> Views]
      BY <3>1, <3>2
    <3>5. reply' \in [Members -> [space : SpaceIds, peers : SUBSET Members] \union {Nothing}]
      BY <3>1, <3>3
    <3>. QED
      BY <3>4, <3>5
  <2>. QED
    BY <2>1, <1>1 DEF ViewInv, ViewTyped
<1>8. ASSUME NEW q \in Members PROVE Sees(q)'
  <2>1. Sees(q)
    BY DEF ViewInv
  <2>2. CASE q = m
    <3>1. Holds(q)'
      BY <2>2, <1>5 DEF Holds
    <3>2. /\ m \in Online /\ reply[m].space = spaceId[m]
          /\ ~overtaken[m] /\ ~reentered[m] =>
               reply[m].peers = memberIds[spaceId[m]] \ {m} /\ links[spaceId[m]][m] = {}
      BY <2>1, <2>2, <1>1 DEF Sees, Holds
    <3>3. Hears(q)' /\ Exact(q)'
      BY <2>2, <3>2, <1>1, <1>2, <1>5, <1>6 DEF Hears, Exact, Settled
    <3>4. Lists(q)'
      BY <2>1, <2>2, <1>2, <1>5, <1>6 DEF Sees, Lists, Avatars, PeersIn, Status
    <3>. QED
      BY <3>1, <3>3, <3>4 DEF Sees
  <2>3. CASE q # m
    <3>1. Holds(q)' /\ Hears(q)' /\ Exact(q)'
      BY <2>1, <2>3, <1>1, <1>2, <1>4 DEF Sees, Holds, Hears, Exact, Settled, PeersIn
    <3>2. Lists(q)'
      BY <2>1, <2>3, <1>2, <1>4 DEF Sees, Lists, Avatars, PeersIn, Status
    <3>. QED
      BY <3>1, <3>2 DEF Sees
  <2>. QED
    BY <2>2, <2>3
<1>. QED
  BY <1>7, <1>8 DEF Kept

(* A request for the space one is in takes a snapshot and tells nobody.    *)
LEMMA ReenterKeeps ==
  ASSUME ViewInv, NEW m \in Members, Reenter(m)
  PROVE  Kept
<1>1. /\ UNCHANGED <<spaceId, memberIds, dnd, links, told>>
      /\ m \in Online
      /\ reply' = [reply EXCEPT ![m] = [space |-> spaceId[m], peers |-> memberIds[spaceId[m]] \ {m}]]
      /\ overtaken' = [overtaken EXCEPT ![m] = FALSE]
      /\ reentered' = [reentered EXCEPT ![m] = TRUE]
  BY DEF Reenter, Requested, PeersExcept, spacesVars
<1>2. Online' = Online /\ \A p : RosterMember(p)' = RosterMember(p)
  BY <1>1 DEF Online, RosterMember
<1>3. /\ overtaken \in [Members -> BOOLEAN] /\ reentered \in [Members -> BOOLEAN]
      /\ reply \in [Members -> [space : SpaceIds, peers : SUBSET Members] \union {Nothing}]
  BY DEF ViewInv, ViewTyped
<1>4. memberIds[spaceId[m]] \subseteq Members /\ spaceId[m] \in SpaceIds
  BY <1>1, Whereabouts DEF ViewInv, TypeOK
<1>5. ViewTyped'
  BY <1>1, <1>3, <1>4 DEF ViewInv, ViewTyped
<1>. DEFINE r == [space |-> spaceId[m], peers |-> memberIds[spaceId[m]] \ {m}]
<1>6. r # Nothing
  BY <1>4, SpacesAssumption DEF Nothing, SpacesAssumption
<1>7. ASSUME NEW q \in Members PROVE Sees(q)'
  <2>1. Sees(q)
    BY DEF ViewInv
  <2>2. Lists(q)'
    BY <2>1, <1>1, <1>2 DEF Sees, Lists, Avatars, PeersIn, Status
  <2>3. CASE q = m
    <3>1. reply'[q] = r /\ reentered'[q] /\ q \in Online'
      BY <2>3, <1>1, <1>2, <1>3
    <3>2. Holds(q)'
      BY <2>3, <3>1, <1>1 DEF Holds
    <3>3. Hears(q)' /\ Exact(q)'
      BY <3>1, <1>6 DEF Hears, Exact, Settled
    <3>. QED
      BY <2>2, <3>2, <3>3 DEF Sees
  <2>4. CASE q # m
    <3>1. reply'[q] = reply[q] /\ overtaken'[q] = overtaken[q] /\ reentered'[q] = reentered[q]
      BY <2>4, <1>1, <1>3
    <3>2. Holds(q)' /\ Hears(q)' /\ Exact(q)'
      BY <2>1, <3>1, <1>1, <1>2 DEF Sees, Holds, Hears, Exact, Settled, PeersIn
    <3>. QED
      BY <2>2, <3>2 DEF Sees
  <2>. QED
    BY <2>3, <2>4
<1>. QED
  BY <1>5, <1>7 DEF Kept

(* A move: those left behind and those ahead are told at once, the mover   *)
(* only by the snapshot its reader now holds.                              *)
LEMMA EnterKeeps ==
  ASSUME ViewInv, TypeOK', NEW m \in Members, NEW s \in SpaceIds, Enter(m, s)
  PROVE  Kept
<1>1. m \in Online /\ s # spaceId[m] /\ reply[m] = Nothing
  BY DEF Enter, Requested, EnterSpace
<1>. DEFINE old == spaceId[m]
            r == [space |-> s, peers |-> memberIds[s] \ {m}]
<1>2. /\ spaceId' = [spaceId EXCEPT ![m] = s] /\ dnd' = dnd
      /\ links' = [links EXCEPT ![spaceId[m]] = RemovePeer(m, @)]
      /\ memberIds' = [memberIds EXCEPT ![old] = @ \ {m}, ![s] = @ \union {m}]
      /\ reply' = [reply EXCEPT ![m] = r]
      /\ reentered' = [reentered EXCEPT ![m] = FALSE]
  BY DEF Enter, EnterSpace, PeersExcept
<1>3. /\ spaceId \in [Members -> SpaceIds \union {Offline}]
      /\ memberIds \in [SpaceIds -> SUBSET Members] /\ old \in SpaceIds
      /\ links \in [SpaceIds -> [Members -> SUBSET Members]]
      /\ reentered \in [Members -> BOOLEAN]
      /\ reply \in [Members -> [space : SpaceIds, peers : SUBSET Members] \union {Nothing}]
  BY <1>1, Whereabouts DEF ViewInv, TypeOK, ViewTyped
<1>4. /\ spaceId'[m] = s /\ \A p \in Members \ {m} : spaceId'[p] = spaceId[p]
      /\ reply'[m] = r /\ \A p \in Members \ {m} : reply'[p] = reply[p]
      /\ ~reentered'[m] /\ \A p \in Members \ {m} : reentered'[p] = reentered[p]
  BY <1>2, <1>3
<1>5. /\ memberIds'[old] = memberIds[old] \ {m} /\ memberIds'[s] = memberIds[s] \union {m}
      /\ \A t \in SpaceIds \ {old, s} : memberIds'[t] = memberIds[t]
  BY <1>1, <1>2, <1>3
<1>6. Online' = Online
  BY <1>1, <1>3, <1>4, SpacesAssumption DEF Online, SpacesAssumption
<1>7. \A p \in Members \ {m} : RosterMember(p)' = RosterMember(p)
  BY <1>2, <1>4 DEF RosterMember
<1>8. \A q \in Members : overtaken'[q] <=>
        q # m /\ (overtaken[q] \/ (q \in memberIds[old] \union memberIds[s] /\ reply[q] # Nothing))
  BY DEF Enter, ViewInv, ViewTyped
<1>9. \A q \in Members : /\ q \in memberIds[old] <=> spaceId[q] = old
                         /\ q \in memberIds[s] <=> spaceId[q] = s
  BY <1>3, Whereabouts
<1>10. ASSUME NEW q \in Online \ {m}
      PROVE  /\ told'[q] \in Views /\ told'[q].space = told[q].space /\ Lists(q)'
             /\ spaceId[q] = old =>
                  told'[q].prox = told[q].prox \ {m} /\ PeersIn(told'[q]) = PeersIn(told[q]) \ {m}
             /\ spaceId[q] = s =>
                  told'[q].prox = told[q].prox /\ PeersIn(told'[q]) = PeersIn(told[q]) \union {m}
             /\ spaceId[q] \notin {old, s} =>
                  told'[q].prox = told[q].prox /\ PeersIn(told'[q]) = PeersIn(told[q])
  <2>. DEFINE v == IF q \in memberIds[old] THEN SpaceLeft(told[q], m)
                   ELSE IF q \in memberIds[s] THEN SpaceJoined(told[q], m) ELSE told[q]
  <2>1. q \in Members /\ told[q] \in Views
    BY Whereabouts
  <2>2. told'[q] = Presence(v, m, RosterMember(m)')
    BY <2>1 DEF Enter, PresenceOf
  <2>3. /\ v \in Views /\ v.space = told[q].space
        /\ v.roster = told[q].roster /\ v.offline = told[q].offline
        /\ spaceId[q] = old => v.prox = told[q].prox \ {m} /\ PeersIn(v) = PeersIn(told[q]) \ {m}
        /\ spaceId[q] = s => v.prox = told[q].prox /\ PeersIn(v) = PeersIn(told[q]) \union {m}
        /\ spaceId[q] \notin {old, s} => v.prox = told[q].prox /\ PeersIn(v) = PeersIn(told[q])
    <3>1. CASE spaceId[q] = old
      <4>1. v = SpaceLeft(told[q], m)
        BY <2>1, <3>1, <1>9
      <4>. QED
        BY <4>1, <2>1, <3>1, <1>1, LeftDoes
    <3>2. CASE spaceId[q] = s
      <4>1. v = SpaceJoined(told[q], m)
        BY <2>1, <3>2, <1>1, <1>9
      <4>. QED
        BY <4>1, <2>1, <3>2, <1>1, JoinedDoes
    <3>3. CASE spaceId[q] \notin {old, s}
      <4>1. v = told[q]
        BY <2>1, <3>3, <1>9
      <4>. QED
        BY <4>1, <2>1, <3>3
    <3>. QED
      BY <3>1, <3>2, <3>3
  <2>. HIDE DEF v
  <2>4. Online' = Online \union {m} /\ \A p \in Online \ {m} : RosterMember(p)' = RosterMember(p)
    BY <1>1, <1>6, <1>7 DEF Online
  <2>5. /\ told'[q] \in Views /\ told'[q].space = v.space /\ told'[q].prox = v.prox
        /\ PeersIn(told'[q]) = PeersIn(v) /\ Lists(q)'
    BY <2>2, <2>3, <2>4, BroadcastDoes
  <2>. QED
    BY <2>3, <2>5
<1>11. \A q \in Members : q \notin Online \ {m} => told'[q] = told[q]
  <2>1. \A q \in Members : q \notin Online => spaceId[q] \notin SpaceIds
    BY Whereabouts
  <2>. QED
    BY <2>1, <1>3, <1>9 DEF Enter, PresenceOf
<1>12. ViewTyped'
  <2>1. told' = [q \in Members |-> told'[q]]
    BY DEF Enter, PresenceOf
  <2>2. \A q \in Members : told'[q] \in Views
    BY <1>10, <1>11, Whereabouts
  <2>3. told' \in [Members -> Views]
    BY <2>1, <2>2
  <2>4. overtaken' \in [Members -> BOOLEAN]
    BY DEF Enter, ViewInv, ViewTyped
  <2>5. r \in [space : SpaceIds, peers : SUBSET Members]
    BY <1>3
  <2>6. reply' \in [Members -> [space : SpaceIds, peers : SUBSET Members] \union {Nothing}]
    <3>. HIDE DEF r
    <3>. QED
      BY <1>2, <1>3, <2>5
  <2>7. reentered' \in [Members -> BOOLEAN]
    BY <1>2, <1>3
  <2>. QED
    BY <2>3, <2>4, <2>6, <2>7 DEF ViewTyped
<1>13. ASSUME NEW q \in Members PROVE Sees(q)'
  <2>0. Sees(q)
    BY DEF ViewInv
  <2>1. CASE q \notin Online
    <3>1. q \notin Online' /\ reply'[q] = Nothing
      BY <2>1, <1>1, <1>4, <1>6, Whereabouts
    <3>. QED
      BY <3>1, OfflineSees
  <2>2. CASE q = m
    <3>1. r # Nothing
      BY SpacesAssumption DEF Nothing, SpacesAssumption
    <3>2. links[s][m] = {}
      BY <1>1, Whereabouts
    <3>3. links'[s] = links[s]
      BY <1>1, <1>2, <1>3
    <3>4. r.space = s /\ r.peers = memberIds[s] \ {m}
      OBVIOUS
    <3>. HIDE DEF r
    <3>5. Holds(q)'
      BY <2>2, <3>2, <3>3, <3>4, <1>1, <1>4, <1>5, <1>6 DEF Holds
    <3>6. Hears(q)' /\ Exact(q)'
      BY <2>2, <3>1, <1>4 DEF Hears, Exact, Settled
    <3>7. Lists(q)'
      BY <2>0, <2>2, <1>6, <1>7, <1>11 DEF Sees, Lists, Avatars, PeersIn, Status, Online
    <3>. QED
      BY <3>5, <3>6, <3>7 DEF Sees
  <2>3. CASE q \in Online \ {m}
    <3>1. /\ q \in Online /\ q \in Online' /\ spaceId'[q] = spaceId[q] /\ spaceId[q] \in SpaceIds
          /\ reply'[q] = reply[q] /\ reentered'[q] = reentered[q]
          /\ overtaken[q] => overtaken'[q]
      BY <2>3, <1>4, <1>6, <1>8, Whereabouts
    <3>2. links'[spaceId[q]][q] = IF spaceId[q] = old THEN links[spaceId[q]][q] \ {m}
                                                     ELSE links[spaceId[q]][q]
      BY <2>3, <1>1, <1>2, DepartDoes
    <3>3. links[s][m] = {} /\ (m \notin links[s][q])
      <4>1. LinksSymmetric /\ m \in Members
        BY DEF ViewInv, LinkInv
      <4>. QED
        BY <4>1, <1>1, Whereabouts DEF LinksSymmetric, Linked
    <3>. DEFINE come == IF spaceId[q] = s THEN {m} ELSE {}
                gone == IF spaceId[q] = old THEN {m} ELSE {}
    <3>4. memberIds'[spaceId[q]] = (memberIds[spaceId[q]] \union come) \ gone
      BY <3>1, <1>1, <1>5
    <3>5. links'[spaceId[q]][q] = links[spaceId[q]][q] \ gone
      BY <3>2
    <3>6. /\ told'[q].space = told[q].space /\ Lists(q)'
          /\ told'[q].prox = told[q].prox \ gone
          /\ PeersIn(told'[q]) = (PeersIn(told[q]) \union come) \ gone
      <4>1. CASE spaceId[q] = old
        BY <4>1, <2>3, <1>1, <1>10
      <4>2. CASE spaceId[q] = s
        BY <4>2, <2>3, <1>1, <1>10
      <4>3. CASE spaceId[q] \notin {old, s}
        BY <4>3, <2>3, <1>10
      <4>. QED
        BY <4>1, <4>2, <4>3
    <3>7. q \notin come
      BY <2>3
    <3>8. come # {} \/ gone # {} => reply[q] = Nothing \/ overtaken'[q]
      BY <2>3, <1>8, <1>9
    <3>. HIDE DEF come, gone
    <3>. QED
      BY <3>1, <3>4, <3>5, <3>6, <3>7, <3>8, Follows
  <2>. QED
    BY <2>1, <2>2, <2>3
<1>. QED
  BY <1>12, <1>13 DEF Kept

(* A tick tells each member just how its own links changed.                *)
LEMMA ServeTickKeeps ==
  ASSUME ViewInv, TypeOK', ServeTick
  PROVE  Kept
<1>1. /\ UNCHANGED <<spaceId, memberIds, dnd, reply, reentered>>
      /\ links' \in [SpaceIds -> [Members -> SUBSET Members]]
  BY DEF ServeTick, Tick, TypeOK
<1>2. Online' = Online /\ \A p : RosterMember(p)' = RosterMember(p)
  BY <1>1 DEF Online, RosterMember
<1>. DEFINE was(q) == links[spaceId[q]][q]  now(q) == links'[spaceId[q]][q]
<1>3. \A q \in Members : ConnectedTo(q) = now(q) \ was(q) /\ DisconnectedFrom(q) = was(q) \ now(q)
  <2>1. ASSUME NEW q \in Members PROVE ConnectedTo(q) = now(q) \ was(q)
    <3>. DEFINE S == now(q) \ was(q)
                C == {[id |-> b, initiator |-> q < b] : b \in S}
    <3>1. ConnectedTo(q) = {c.id : c \in C}
      BY DEF ConnectedTo, Connects
    <3>. HIDE DEF S
    <3>2. \A b \in S : [id |-> b, initiator |-> q < b] \in C /\ [id |-> b, initiator |-> q < b].id = b
      OBVIOUS
    <3>3. \A c \in C : c.id \in S
      OBVIOUS
    <3>. HIDE DEF C
    <3>4. {c.id : c \in C} = S
      BY <3>2, <3>3
    <3>. QED
      BY <3>1, <3>4 DEF S
  <2>2. \A q \in Members : DisconnectedFrom(q) = was(q) \ now(q)
    BY DEF DisconnectedFrom, Disconnects
  <2>. QED
    BY <2>1, <2>2
<1>4. ASSUME NEW q \in Online
      PROVE  /\ told'[q] \in Views /\ told'[q].space = told[q].space
             /\ told'[q].prox = (told[q].prox \union (now(q) \ was(q))) \ (was(q) \ now(q))
             /\ told'[q].peers = told[q].peers /\ told'[q].roster = told[q].roster
             /\ told'[q].offline = told[q].offline
  <2>. DEFINE come == now(q) \ was(q)  gone == was(q) \ now(q)
  <2>1. q \in Members /\ told[q] \in Views /\ spaceId[q] \in SpaceIds
    BY Whereabouts
  <2>2. told'[q] = Proximity(told[q], come, gone)
    BY <2>1, <1>3 DEF ServeTick
  <2>3. come \in SUBSET Members /\ gone \in SUBSET Members
    BY <2>1, <1>1 DEF ViewInv, TypeOK
  <2>. HIDE DEF come, gone
  <2>4. /\ told'[q] \in Views /\ told'[q].space = told[q].space
        /\ told'[q].prox = (told[q].prox \union come) \ gone
        /\ told'[q].peers = told[q].peers /\ told'[q].roster = told[q].roster
        /\ told'[q].offline = told[q].offline
    <3>1. Proximity(told[q], come, gone) \in Views
      BY <2>1, <2>3, ProximityDoes
    <3>2. Proximity(told[q], come, gone) =
            [space |-> told[q].space, peers |-> told[q].peers,
             prox |-> (told[q].prox \union come) \ gone,
             roster |-> told[q].roster, offline |-> told[q].offline]
      BY <2>1, <2>3, ProximityDoes, Zenon
    <3>. QED
      BY <2>2, <3>1, <3>2
  <2>. QED
    BY <2>4 DEF come, gone
<1>5. \A q \in Members : q \notin Online => told'[q] = told[q]
  BY DEF ServeTick
<1>6. \A q \in Online : overtaken'[q] <=>
        overtaken[q] \/ ((now(q) \ was(q)) \union (was(q) \ now(q)) # {} /\ reply[q] # Nothing)
  <2>1. \A q \in Online : q \in Members
    BY DEF Online
  <2>. QED
    BY <2>1, <1>3 DEF ServeTick, Overtake, ViewInv, ViewTyped
<1>7. ViewTyped'
  <2>1. told' = [q \in Members |-> told'[q]]
    BY DEF ServeTick
  <2>2. \A q \in Members : told'[q] \in Views
    BY <1>4, <1>5, Whereabouts
  <2>3. told' \in [Members -> Views]
    BY <2>1, <2>2
  <2>4. overtaken' \in [Members -> BOOLEAN]
    BY DEF ServeTick, Overtake, ViewInv, ViewTyped
  <2>. QED
    BY <2>3, <2>4, <1>1 DEF ViewInv, ViewTyped
<1>8. ASSUME NEW q \in Members PROVE Sees(q)'
  <2>0. Sees(q)
    BY DEF ViewInv
  <2>1. CASE q \notin Online
    BY <2>1, <1>1, <1>2, Whereabouts, OfflineSees
  <2>2. CASE q \in Online
    <3>1. /\ links'[spaceId'[q]][q] = now(q) /\ memberIds'[spaceId'[q]] = memberIds[spaceId[q]]
          /\ spaceId'[q] = spaceId[q] /\ reply'[q] = reply[q] /\ reentered'[q] = reentered[q]
      BY <1>1
    <3>2. Lists(q)'
      BY <2>0, <2>2, <1>2, <1>4 DEF Sees, Lists, Avatars, PeersIn, Status
    <3>3. Holds(q)'
      BY <2>0, <2>2, <3>1, <1>2, <1>6 DEF Sees, Holds
    <3>4. Hears(q)'
      BY <2>0, <2>2, <3>1, <1>2, <1>4 DEF Sees, Hears, Settled
    <3>5. Exact(q)'
      <4>. SUFFICES ASSUME Settled(q)', ~overtaken'[q], ~reentered'[q]
                    PROVE  /\ PeersIn(told[q])' = memberIds'[spaceId'[q]] \ {q}
                           /\ told'[q].prox = links'[spaceId'[q]][q]
        BY DEF Exact
      <4>1. Settled(q) /\ ~overtaken[q] /\ ~reentered[q]
        BY <2>2, <3>1, <1>6 DEF Settled
      <4>2. PeersIn(told[q]) = memberIds[spaceId[q]] \ {q} /\ told[q].prox = was(q)
        BY <2>0, <4>1 DEF Sees, Exact
      <4>3. PeersIn(told[q])' = PeersIn(told[q])
        BY <2>2, <1>4 DEF PeersIn
      <4>4. told'[q].prox = now(q)
        BY <2>2, <1>4, <4>2
      <4>. QED
        BY <3>1, <4>2, <4>3, <4>4
    <3>. QED
      BY <3>2, <3>3, <3>4, <3>5 DEF Sees
  <2>. QED
    BY <2>1, <2>2
<1>. QED
  BY <1>7, <1>8 DEF Kept

(* The server under the views takes the steps of module Spaces.            *)
LEMMA ViewStepSpaces == [ViewNext]_viewVars => [Next]_spacesVars
<1>. SUFFICES ASSUME ViewNext PROVE [Next]_spacesVars
  BY DEF viewVars, spacesVars
<1>1. ASSUME NEW m \in Members, ServeJoin(m) \/ ServeLeave(m) \/ ServeMove(m)
      PROVE  Next
  BY <1>1 DEF ServeJoin, ServeLeave, ServeMove, Next
<1>2. ASSUME NEW m \in Members, Reenter(m) \/ Reply(m) \/ CatchUp(m)
      PROVE  UNCHANGED spacesVars
  BY <1>2 DEF Reenter, Reply, CatchUp
<1>3. ASSUME NEW m \in Members, NEW on \in BOOLEAN, ServeStatus(m, on)
      PROVE  Next
  BY <1>3 DEF ServeStatus, Next
<1>4. ASSUME NEW m \in Members, NEW s \in SpaceIds, Enter(m, s)
      PROVE  Next
  BY <1>4 DEF Enter, Next
<1>5. ASSUME NEW m \in Members, NEW s \in SpaceIds, Ask(m, s) \/ Refuse(m, s)
      PROVE  UNCHANGED spacesVars
  BY <1>5 DEF Ask, Refuse
<1>6. ServeTick => Next
  BY DEF ServeTick, Next
<1>. QED
  BY <1>1, <1>2, <1>3, <1>4, <1>5, <1>6 DEF ViewNext

LEMMA ViewInvInit == ViewInit => ViewInv
<1>. SUFFICES ASSUME ViewInit PROVE ViewInv
  OBVIOUS
<1>1. TypeOK /\ LinkInv
  BY InitType, InitLink DEF ViewInit
<1>2. Online = {}
  BY DEF ViewInit, Init, Online
<1>3. Nothing \in Views
  BY NothingSeen
<1>4. ViewTyped
  BY <1>3 DEF ViewInit, ViewTyped
<1>5. \A m \in Members : Sees(m)
  BY <1>2 DEF ViewInit, Sees, Holds, Hears, Exact, Lists, Settled
<1>. QED
  BY <1>1, <1>4, <1>5 DEF ViewInv

LEMMA ViewInvStep == ViewInv /\ [ViewNext]_viewVars => ViewInv'
<1>. SUFFICES ASSUME ViewInv, [ViewNext]_viewVars PROVE ViewInv'
  OBVIOUS
<1>1. TypeOK' /\ LinkInv'
  BY ViewStepSpaces, TypeStep, LinkStep DEF ViewInv
<1>2. ASSUME NEW m \in Members, ServeJoin(m) \/ ServeLeave(m) \/ Reenter(m) \/ Reply(m)
      PROVE  Kept
  BY <1>1, <1>2, ServeJoinKeeps, ServeLeaveKeeps, ReenterKeeps, ReplyKeeps
<1>3. ASSUME NEW m \in Members, ServeMove(m) \/ CatchUp(m)
      PROVE  Kept
  BY <1>3, QuietKeeps DEF ServeMove, SetPos, CatchUp, spacesVars
<1>4. ASSUME NEW m \in Members, NEW on \in BOOLEAN, ServeStatus(m, on)
      PROVE  Kept
  BY <1>1, <1>4, ServeStatusKeeps
<1>5. ASSUME NEW m \in Members, NEW s \in SpaceIds, Enter(m, s)
      PROVE  Kept
  BY <1>1, <1>5, EnterKeeps
<1>6. ASSUME NEW m \in Members, NEW s \in SpaceIds, Ask(m, s) \/ Refuse(m, s)
      PROVE  Kept
  BY <1>6, QuietKeeps DEF Ask, Refuse, spacesVars
<1>7. ServeTick => Kept
  BY <1>1, ServeTickKeeps
<1>8. UNCHANGED viewVars => Kept
  BY QuietKeeps DEF viewVars
<1>9. Kept
  BY <1>2, <1>3, <1>4, <1>5, <1>6, <1>7, <1>8 DEF ViewNext
<1>. QED
  BY <1>1, <1>9 DEF Kept, ViewInv

LEMMA ViewInvCorrect == ViewSpec => []ViewInv
  BY ViewInvInit, ViewInvStep, PTL DEF ViewSpec

(* However its requests, their answers and everyone's coming and going     *)
(* cross, a client whose messages are handled knows its space and keeps no *)
(* audio link that the server does not hold.                               *)
THEOREM NoGhostLinksCorrect == ViewSpec => []NoGhostLinks
<1>1. ViewInv => NoGhostLinks
  BY DEF ViewInv, Sees, Hears, NoGhostLinks
<1>. QED
  BY <1>1, ViewInvCorrect, PTL

(* The roster is exact whatever overtakes what; the space is, as long as   *)
(* no snapshot was overtaken or asked for again.                           *)
THEOREM ViewExactCorrect == ViewSpec => []ViewExact
<1>1. ViewInv => ViewExact
  <2>. SUFFICES ASSUME ViewInv PROVE ViewExact
    OBVIOUS
  <2>1. SpaceExact
    BY DEF ViewInv, Sees, Exact, SpaceExact
  <2>2. RosterExact
    BY DEF ViewInv, Sees, Lists, Avatars, RosterExact, Online
  <2>. QED
    BY <2>1, <2>2 DEF ViewExact
<1>. QED
  BY <1>1, ViewInvCorrect, PTL

(* Under the views the server is module Spaces, step for step: what is     *)
(* proved of Spaces holds there.                                           *)
THEOREM ViewServesSpaces == ViewSpec => SafetySpec
  BY ViewStepSpaces, PTL DEF ViewSpec, ViewInit, SafetySpec

(***************************************************************************)
(* Module VideoPanel.  What a selection of videos is.                      *)
(***************************************************************************)
WhereRun(videos, S, kept) ==
  /\ kept[0] = <<>> /\ Where(videos, S) = kept[Len(videos)]
  /\ \A n \in 1 .. Len(videos) :
       kept[n] = IF videos[n] \in S THEN Append(kept[n - 1], videos[n]) ELSE kept[n - 1]

LEMMA WhereTurns ==
  ASSUME NEW V, NEW videos \in Seq(V), NEW S
  PROVE  \E kept \in [0 .. Len(videos) -> Seq(V)] : WhereRun(videos, S, kept)
<1> DEFINE hi == Len(videos)
           step(n, w) == IF videos[n] \in S THEN Append(w, videos[n]) ELSE w
           Is(f) == f = [n \in 0 .. hi |->
                           IF n = 0 THEN <<>>
                           ELSE IF videos[n] \in S THEN Append(f[n - 1], videos[n])
                           ELSE f[n - 1]]
           turn == [q \in (0 .. hi) \X Seq(V) |-> IF q[1] = 0 THEN <<>> ELSE step(q[1], q[2])]
           kept == CHOOSE f : Is(f)
<1>1. hi \in Nat /\ \A n \in 1 .. hi : videos[n] \in V
  OBVIOUS
<1>2. <<>> \in Seq(V) /\ \A n \in 1 .. hi : \A w \in Seq(V) : step(n, w) \in Seq(V)
  BY <1>1
<1>3. \A n \in 0 .. hi : n = 0 \/ (n \in 1 .. hi /\ n # 0 /\ n - 1 \in 0 .. hi)
  BY <1>1
<1>4. turn \in [(0 .. hi) \X Seq(V) -> Seq(V)]
  <2> HIDE DEF step, hi
  <2> QED
    BY <1>2, <1>3
<1>5. \A n \in 1 .. hi : \A w \in Seq(V) : turn[<<n, w>>] = step(n, w)
  <2> HIDE DEF step
  <2>1. \A n \in 1 .. hi : n \in 0 .. hi /\ n # 0
    BY <1>1
  <2> QED
    BY <2>1
<1> HIDE DEF turn
<1>6. PICK f \in [0 .. hi -> Seq(V)] : Turned(f, <<>>, 0, hi, turn)
  <2>1. 0 \in Nat /\ hi \in Nat /\ 0 <= hi /\ <<>> \in Seq(V)
          /\ turn \in [(0 .. hi) \X Seq(V) -> Seq(V)]
    BY <1>1, <1>2, <1>4
  <2> HIDE DEF Is, kept, hi
  <2> QED
    BY <2>1, TurnsExist
<1>7. f[0] = <<>> /\ \A n \in 1 .. hi : f[n] = turn[<<n, f[n - 1]>>]
  BY <1>6 DEF Turned
<1>8. \A n \in 0 .. hi :
        f[n] = IF n = 0 THEN <<>>
               ELSE IF videos[n] \in S THEN Append(f[n - 1], videos[n])
               ELSE f[n - 1]
  <2> SUFFICES ASSUME NEW n \in 1 .. hi, n - 1 \in 0 .. hi
               PROVE  f[n] = IF videos[n] \in S THEN Append(f[n - 1], videos[n]) ELSE f[n - 1]
    BY <1>3, <1>7
  <2>1. f[n - 1] \in Seq(V)
    OBVIOUS
  <2>2. f[n] = step(n, f[n - 1])
    <3> HIDE DEF step
    <3> QED
      BY <1>5, <1>7, <2>1
  <2> QED
    BY <2>2
<1>9. Is(f)
  BY <1>8
<1>10. Is(kept)
  BY <1>9
<1>11. Where(videos, S) = kept[hi]
  BY DEF Where, hi
<1> HIDE DEF kept
<1>12. /\ 0 \in 0 .. hi /\ hi \in 0 .. hi /\ DOMAIN kept = 0 .. hi /\ kept[0] = <<>>
       /\ \A n \in 1 .. hi :
            kept[n] = IF videos[n] \in S THEN Append(kept[n - 1], videos[n]) ELSE kept[n - 1]
  <2>1. 0 \in 0 .. hi /\ hi \in 0 .. hi /\ \A n \in 1 .. hi : n \in 0 .. hi /\ n # 0
    BY <1>1
  <2> QED
    BY <1>10, <2>1
<1>13. \A n \in 0 .. hi : kept[n] \in Seq(V)
  <2> DEFINE T == {n \in 0 .. hi : kept[n] \in Seq(V)}
  <2>1. 0 \in T
    BY <1>2, <1>12
  <2>2. ASSUME NEW n \in 0 .. hi - 1, n \in T PROVE n + 1 \in T
    <3>1. n + 1 \in 1 .. hi /\ n + 1 \in 0 .. hi /\ (n + 1) - 1 = n
      BY <1>1
    <3>2. kept[n + 1] = step(n + 1, kept[n])
      BY <1>12, <3>1
    <3> HIDE DEF step
    <3> QED
      BY <1>2, <2>2, <3>1, <3>2
  <2> HIDE DEF T
  <2>3. \A n \in 0 .. hi : n \in T
    <3>1. 0 \in Nat /\ 0 <= hi
      BY <1>1
    <3> HIDE DEF hi
    <3> QED
      BY <1>1, <2>1, <2>2, <3>1, TurnByTurn
  <2> QED
    BY <2>3 DEF T
<1>14. kept \in [0 .. hi -> Seq(V)]
  <2>1. kept = [n \in DOMAIN kept |-> kept[n]]
    BY <1>10
  <2> QED
    BY <1>12, <1>13, <2>1
<1> QED
  BY <1>11, <1>12, <1>14 DEF WhereRun

LEMMA WhereNothing ==
  ASSUME NEW S
  PROVE  Where(<<>>, S) = <<>>
<1>1. <<>> \in Seq({}) /\ Len(<<>>) = 0
  OBVIOUS
<1>2. PICK kept \in [0 .. Len(<<>>) -> Seq({})] : WhereRun(<<>>, S, kept)
  BY <1>1, WhereTurns
<1> QED
  BY <1>1, <1>2 DEF WhereRun

(* The videos among the first n that are in S, each as often as there.     *)
Upto(videos, n) == {videos[i] : i \in 1 .. n}

LEMMA WhereDoes ==
  ASSUME NEW V, NEW videos \in Seq(V), NEW S
  PROVE  /\ Where(videos, S) \in Seq(V)
         /\ ToSet(Where(videos, S)) = ToSet(videos) \cap S
         /\ IsInjective(videos) => IsInjective(Where(videos, S))
<1> DEFINE hi == Len(videos)
<1>1. PICK kept \in [0 .. Len(videos) -> Seq(V)] : WhereRun(videos, S, kept)
  BY WhereTurns
<1>2. hi \in Nat /\ DOMAIN videos = 1 .. hi /\ \A n \in 1 .. hi : videos[n] \in V
  OBVIOUS
<1>3. 0 \in 0 .. hi /\ hi \in 0 .. hi /\ 0 <= hi
  BY <1>2
<1> DEFINE Good(n) == /\ ToSet(kept[n]) = Upto(videos, n) \cap S
                      /\ IsInjective(videos) => IsInjective(kept[n])
           T == {n \in 0 .. hi : Good(n)}
<1>4. 0 \in T
  <2>1. kept[0] = <<>>
    BY <1>1 DEF WhereRun
  <2>2. ToSet(<<>>) = {} /\ IsInjective(<<>>)
    BY DEF ToSet, IsInjective
  <2>3. Upto(videos, 0) = {}
    BY DEF Upto
  <2> QED
    BY <1>3, <2>1, <2>2, <2>3
<1>5. ASSUME NEW n \in 0 .. hi - 1, n \in T PROVE n + 1 \in T
  <2>1. n + 1 \in 1 .. hi /\ n + 1 \in 0 .. hi /\ (n + 1) - 1 = n /\ n \in 0 .. hi
    BY <1>2
  <2>2. kept[n + 1] = IF videos[n + 1] \in S THEN Append(kept[n], videos[n + 1]) ELSE kept[n]
    BY <1>1, <2>1 DEF WhereRun
  <2>3. kept[n] \in Seq(V) /\ videos[n + 1] \in V
    BY <1>2, <2>1
  <2>4. Good(n)
    BY <1>5
  <2>5. Upto(videos, n + 1) = Upto(videos, n) \union {videos[n + 1]}
    <3>1. \A i \in 1 .. n + 1 : i = n + 1 \/ i \in 1 .. n
      BY <2>1
    <3>2. n + 1 \in 1 .. n + 1 /\ \A i \in 1 .. n : i \in 1 .. n + 1
      BY <2>1
    <3> QED
      BY <3>1, <3>2 DEF Upto
  <2>6. IsInjective(videos) => videos[n + 1] \notin Upto(videos, n)
    <3>1. \A i \in 1 .. n : i \in 1 .. hi /\ i # n + 1
      BY <1>2, <2>1
    <3> QED
      BY <1>2, <2>1, <3>1 DEF Upto, IsInjective
  <2>7. ToSet(Append(kept[n], videos[n + 1])) = ToSet(kept[n]) \union {videos[n + 1]}
    <3> DEFINE q == kept[n]
               x == videos[n + 1]
    <3>1. q \in Seq(V) /\ x \in V
      BY <2>3
    <3> HIDE DEF q, x
    <3>2. ToSet(Append(q, x)) = ToSet(q) \union {x}
      BY <3>1, AppendToSet
    <3> QED
      BY <3>2 DEF q, x
  <2>8. CASE videos[n + 1] \in S
    <3>1. kept[n + 1] = Append(kept[n], videos[n + 1])
      BY <2>2, <2>8
    <3>2. ToSet(kept[n + 1]) = Upto(videos, n + 1) \cap S
      BY <2>4, <2>5, <2>7, <2>8, <3>1
    <3>3. ASSUME IsInjective(videos) PROVE IsInjective(kept[n + 1])
      <4>1. IsInjective(kept[n]) /\ videos[n + 1] \notin ToSet(kept[n])
        BY <2>4, <2>6, <3>3
      <4> HIDE DEF T, Good
      <4> QED
        BY <2>3, <3>1, <4>1, AppendSet
    <3> QED
      BY <2>1, <3>2, <3>3
  <2>9. CASE videos[n + 1] \notin S
    <3>1. kept[n + 1] = kept[n]
      BY <2>2, <2>9
    <3>2. Upto(videos, n + 1) \cap S = Upto(videos, n) \cap S
      BY <2>5, <2>9
    <3> QED
      BY <2>1, <2>4, <3>1, <3>2
  <2> QED
    BY <2>8, <2>9
<1> HIDE DEF T
<1>6. \A n \in 0 .. hi : n \in T
  BY <1>2, <1>3, <1>4, <1>5, TurnByTurn
<1>7. Good(hi)
  BY <1>3, <1>6 DEF T
<1>8. Where(videos, S) = kept[hi] /\ kept[hi] \in Seq(V)
  BY <1>1, <1>3 DEF WhereRun
<1>9. Upto(videos, hi) = ToSet(videos)
  BY <1>2 DEF Upto, ToSet
<1> QED
  BY <1>7, <1>8, <1>9

LEMMA ConcatSet ==
  ASSUME NEW V, NEW q \in Seq(V), NEW r \in Seq(V)
  PROVE  /\ q \o r \in Seq(V) /\ Len(q \o r) = Len(q) + Len(r)
         /\ ToSet(q \o r) = ToSet(q) \union ToSet(r)
<1> DEFINE m == Len(q)
           n == Len(r)
           w == q \o r
<1>1. w \in Seq(V) /\ Len(w) = m + n
        /\ \A i \in 1 .. m + n : w[i] = IF i <= m THEN q[i] ELSE r[i - m]
  BY ConcatProperties
<1>2. /\ m \in Nat /\ n \in Nat /\ DOMAIN q = 1 .. m /\ DOMAIN r = 1 .. n
  OBVIOUS
<1>3. DOMAIN w = 1 .. m + n
  BY <1>1, <1>2, LenProperties
<1> HIDE DEF m, n, w
<1>4. \A i \in 1 .. m : i \in 1 .. m + n /\ i <= m
  BY <1>2
<1>5. \A i \in 1 .. n : i + m \in 1 .. m + n /\ ~(i + m <= m) /\ (i + m) - m = i
  BY <1>2
<1>6. \A i \in 1 .. m + n : (i <= m => i \in 1 .. m) /\ (~(i <= m) => i - m \in 1 .. n)
  BY <1>2
<1>7. ASSUME NEW x \in ToSet(w) PROVE x \in ToSet(q) \union ToSet(r)
  BY <1>1, <1>2, <1>3, <1>6 DEF ToSet
<1>8. ASSUME NEW x \in ToSet(q) PROVE x \in ToSet(w)
  <2>1. PICK i \in 1 .. m : x = q[i]
    BY <1>2 DEF ToSet
  <2>2. i \in DOMAIN w /\ w[i] = x
    BY <1>1, <1>3, <1>4, <2>1
  <2> QED
    BY <2>2 DEF ToSet
<1>9. ASSUME NEW x \in ToSet(r) PROVE x \in ToSet(w)
  <2>1. PICK i \in 1 .. n : x = r[i]
    BY <1>2 DEF ToSet
  <2>2. i + m \in DOMAIN w /\ w[i + m] = x
    BY <1>1, <1>3, <1>5, <2>1
  <2> QED
    BY <2>2 DEF ToSet
<1>10. ToSet(w) = ToSet(q) \union ToSet(r)
  BY <1>7, <1>8, <1>9
<1> QED
  BY <1>1, <1>10 DEF m, n, w

(* Without repetition, a sequence is as long as its set is large; so that  *)
(* one taken away leaves one less.                                         *)
LEMMA InjectiveLen ==
  ASSUME NEW V, NEW q \in Seq(V), IsInjective(q)
  PROVE  IsFiniteSet(ToSet(q)) /\ Cardinality(ToSet(q)) = Len(q)
<1> DEFINE n == Len(q)
<1>1. n \in Nat /\ DOMAIN q = 1 .. n /\ q \in [1 .. n -> V]
  BY LenProperties
<1>2. IsFiniteSet(1 .. n) /\ Cardinality(1 .. n) = n
  <2>1. 1 \in Int /\ n \in Int
    BY <1>1
  <2> HIDE DEF n
  <2> QED
    BY <1>1, <2>1, FS_Interval
<1> HIDE DEF n
<1>3. q \in [1 .. n -> ToSet(q)]
  <2>1. q = [i \in 1 .. n |-> q[i]]
    BY <1>1
  <2>2. \A i \in 1 .. n : q[i] \in ToSet(q)
    BY <1>1 DEF ToSet
  <2> QED
    BY <2>1, <2>2
<1>4. q \in Injection(1 .. n, ToSet(q))
  BY <1>3 DEF Injection
<1>5. q \in Surjection(1 .. n, ToSet(q))
  BY <1>1, <1>3 DEF Surjection, ToSet
<1>6. IsFiniteSet(ToSet(q)) /\ Cardinality(ToSet(q)) = Cardinality(1 .. n)
  BY <1>2, <1>4, <1>5, FS_Surjection
<1> QED
  BY <1>2, <1>6 DEF n

LEMMA OneLess ==
  ASSUME NEW V, NEW videos \in Seq(V), IsInjective(videos), NEW h \in ToSet(videos)
  PROVE  LET rest == Where(videos, V \ {h})
         IN  /\ rest \in Seq(V) /\ Len(rest) = Len(videos) - 1
             /\ ToSet(rest) = ToSet(videos) \ {h}
<1> DEFINE rest == Where(videos, V \ {h})
<1>1. /\ rest \in Seq(V) /\ IsInjective(rest)
      /\ ToSet(rest) = ToSet(videos) \cap (V \ {h})
  BY WhereDoes
<1>2. ToSet(videos) \subseteq V
  BY DEF ToSet
<1>3. ToSet(rest) = ToSet(videos) \ {h}
  BY <1>1, <1>2
<1> HIDE DEF rest
<1>4. IsFiniteSet(ToSet(videos)) /\ Cardinality(ToSet(videos)) = Len(videos)
  BY InjectiveLen
<1>5. Cardinality(ToSet(rest)) = Len(rest)
  BY <1>1, InjectiveLen
<1>6. Cardinality(ToSet(videos) \ {h}) = Cardinality(ToSet(videos)) - 1
  BY <1>4, FS_RemoveElement
<1> QED
  BY <1>1, <1>3, <1>4, <1>5, <1>6 DEF rest

(***************************************************************************)
(* The layout gives every video one place.                                 *)
(***************************************************************************)
OnceEach(videos) == \A i, j \in DOMAIN videos : videos[i].key = videos[j].key => i = j

LEMMA StagesAre ==
  ASSUME NEW videos \in Seq(Videos), NEW pick
  PROVE  Stages(videos, pick) \in Seq(ToSet(videos))
<1> DEFINE T == ToSet(videos)
           chosen == {v \in Videos : v.key = pick}
           screens == {v \in Videos : v.mode = "screen"}
           peers == Where(videos, {v \in Videos : v.key # Local})
           few == IF Len(peers) > 1 THEN <<>> ELSE peers \o videos
<1>1. videos \in Seq(T)
  <2>1. /\ Len(videos) \in Nat /\ DOMAIN videos = 1 .. Len(videos)
        /\ videos = [i \in DOMAIN videos |-> videos[i]]
    OBVIOUS
  <2>2. \A i \in 1 .. Len(videos) : videos[i] \in T
    BY <2>1 DEF ToSet
  <2> HIDE DEF T
  <2>3. videos \in [1 .. Len(videos) -> T]
    BY <2>1, <2>2
  <2> QED
    BY <2>1, <2>3, SeqDef
<1> HIDE DEF T
<1>2. peers \in Seq(T) /\ Where(videos, chosen) \in Seq(T) /\ Where(videos, screens) \in Seq(T)
  BY <1>1, WhereDoes
<1> HIDE DEF chosen, screens, peers
<1>3. Where(peers, screens) \in Seq(T)
  BY <1>2, WhereDoes
<1>4. few \in Seq(T)
  BY <1>1, <1>2
<1> HIDE DEF few
<1>5. Where(videos, chosen) \o Where(peers, screens) \o Where(videos, screens) \o few \in Seq(T)
  BY <1>2, <1>3, <1>4
<1> QED
  BY <1>5 DEF Stages, T, chosen, screens, peers, few

PanelViews == [stage : Seq(Videos), pip : Seq(Videos), tiles : Seq(Videos)]

LEMMA LayoutWhole ==
  ASSUME NEW videos \in Seq(Videos), IsInjective(videos), NEW pick
  PROVE  LET lay == LayoutVideos(videos, pick)
             all == lay.stage \o lay.pip \o lay.tiles
         IN  /\ lay \in PanelViews /\ all \in Seq(Videos)
             /\ Len(all) = Len(videos) /\ ToSet(all) = ToSet(videos)
<1> DEFINE lay == LayoutVideos(videos, pick)
           all == lay.stage \o lay.pip \o lay.tiles
           stages == Stages(videos, pick)
           h == Head(stages)
           rest == Where(videos, Videos \ {h})
<1>1. <<>> \in Seq(Videos) /\ \A q \in Seq(Videos) : <<>> \o q = q /\ q \o <<>> = q
  BY ConcatEmptySeq, EmptySeq
<1>2. CASE stages = <<>>
  <2>1. lay = [stage |-> <<>>, pip |-> <<>>, tiles |-> videos]
    BY <1>2 DEF LayoutVideos
  <2> HIDE DEF lay
  <2>2. all = videos
    BY <1>1, <2>1
  <2>3. lay \in PanelViews
    BY <1>1, <2>1 DEF PanelViews
  <2> QED
    BY <2>2, <2>3 DEF lay
<1>3. CASE stages # <<>>
  <2>1. h \in ToSet(videos)
    BY <1>3, StagesAre
  <2> DEFINE one == <<h>>
  <2>2. one \in Seq(Videos) /\ Len(one) = 1 /\ ToSet(one) = {h}
    <3>1. h \in Videos
      BY <2>1 DEF ToSet
    <3> HIDE DEF h
    <3> QED
      BY <3>1 DEF ToSet
  <2>3. /\ rest \in Seq(Videos) /\ Len(rest) = Len(videos) - 1
        /\ ToSet(rest) = ToSet(videos) \ {h}
    BY <2>1, OneLess
  <2>4. \/ lay = [stage |-> one, pip |-> rest, tiles |-> <<>>]
        \/ lay = [stage |-> one, pip |-> <<>>, tiles |-> rest]
    BY <1>3 DEF LayoutVideos
  <2> HIDE DEF lay, rest, h, one
  <2>5. one \o rest \in Seq(Videos) /\ Len(one \o rest) = 1 + Len(rest)
          /\ ToSet(one \o rest) = {h} \union ToSet(rest)
    <3>1. one \o rest \in Seq(Videos) /\ Len(one \o rest) = Len(one) + Len(rest)
            /\ ToSet(one \o rest) = ToSet(one) \union ToSet(rest)
      <4>1. one \in Seq(Videos) /\ rest \in Seq(Videos)
        BY <2>2, <2>3
      <4> QED
        BY <4>1, ConcatSet
    <3> QED
      BY <2>2, <3>1
  <2>6. all = one \o rest /\ lay \in PanelViews
    <3>1. CASE lay = [stage |-> one, pip |-> rest, tiles |-> <<>>]
      BY <1>1, <2>2, <2>3, <2>5, <3>1 DEF PanelViews
    <3>2. CASE lay = [stage |-> one, pip |-> <<>>, tiles |-> rest]
      BY <1>1, <2>2, <2>3, <2>5, <3>2 DEF PanelViews
    <3> QED
      BY <2>4, <3>1, <3>2
  <2>8. 1 + (Len(videos) - 1) = Len(videos)
    OBVIOUS
  <2> QED
    BY <2>1, <2>3, <2>5, <2>6, <2>8 DEF lay
<1> QED
  BY <1>2, <1>3

(***************************************************************************)
(* The videos kept: none twice, ours not among them.                       *)
(***************************************************************************)
VideosKept(videos) ==
  videos \in Seq(Videos) /\ OnceEach(videos) /\ Local \notin Keys(videos)

LEMMA KeysAre ==
  ASSUME NEW videos
  PROVE  Keys(videos) = {v.key : v \in ToSet(videos)}
  BY DEF Keys, ToSet

LEMMA OnceIs ==
  ASSUME NEW videos, OnceEach(videos)
  PROVE  /\ IsInjective(videos)
         /\ \A v, w \in ToSet(videos) : v.key = w.key => v = w
  BY DEF OnceEach, IsInjective, ToSet

LEMMA WhereOnce ==
  ASSUME NEW videos \in Seq(Videos), OnceEach(videos), NEW S
  PROVE  /\ Where(videos, S) \in Seq(Videos) /\ OnceEach(Where(videos, S))
         /\ ToSet(Where(videos, S)) = ToSet(videos) \cap S
<1> DEFINE w == Where(videos, S)
<1>1. w \in Seq(Videos) /\ ToSet(w) = ToSet(videos) \cap S /\ IsInjective(w)
  BY OnceIs, WhereDoes
<1> HIDE DEF w
<1>2. ASSUME NEW i \in DOMAIN w, NEW j \in DOMAIN w, w[i].key = w[j].key PROVE i = j
  <2>1. w[i] \in ToSet(videos) /\ w[j] \in ToSet(videos)
    BY <1>1 DEF ToSet
  <2>2. w[i] = w[j]
    BY <1>2, <2>1, OnceIs
  <2> QED
    BY <1>1, <2>2 DEF IsInjective
<1>3. OnceEach(w)
  BY <1>2 DEF OnceEach
<1> QED
  BY <1>1, <1>3 DEF w

LEMMA WithoutDoes ==
  ASSUME NEW videos, VideosKept(videos), NEW ks
  PROVE  VideosKept(Without(videos, ks)) /\ Keys(Without(videos, ks)) = Keys(videos) \ ks
<1> DEFINE w == Without(videos, ks)
<1>1. w \in Seq(Videos) /\ OnceEach(w)
        /\ ToSet(w) = ToSet(videos) \cap {v \in Videos : v.key \notin ks}
  BY WhereOnce DEF Without, VideosKept
<1>2. ToSet(videos) \subseteq Videos
  BY DEF VideosKept, ToSet
<1> HIDE DEF w
<1>3. Keys(w) = Keys(videos) \ ks
  BY <1>1, <1>2, KeysAre
<1> QED
  BY <1>1, <1>3 DEF VideosKept, w

(* Taking nobody's videos off leaves them all in their places.             *)
LEMMA WithoutNobody ==
  ASSUME NEW videos, VideosKept(videos)
  PROVE  Without(videos, {}) = videos
<1> DEFINE hi == Len(videos)
           S == {v \in Videos : v.key \notin {}}
<1>1. videos \in Seq(Videos) /\ hi \in Nat /\ \A n \in 1 .. hi : videos[n] \in Videos
  BY DEF VideosKept
<1>2. PICK kept \in [0 .. Len(videos) -> Seq(Videos)] : WhereRun(videos, S, kept)
  BY <1>1, WhereTurns
<1> DEFINE T == {n \in 0 .. hi : Len(kept[n]) = n /\ \A i \in 1 .. n : kept[n][i] = videos[i]}
<1>3. 0 \in T
  BY <1>1, <1>2 DEF WhereRun
<1>4. ASSUME NEW n \in 0 .. hi - 1, n \in T PROVE n + 1 \in T
  <2>1. n + 1 \in 1 .. hi /\ n + 1 \in 0 .. hi /\ (n + 1) - 1 = n /\ n \in 0 .. hi /\ n \in Nat
    BY <1>1
  <2>2. videos[n + 1] \in Videos /\ kept[n] \in Seq(Videos)
    BY <1>1, <2>1
  <2>3. kept[n + 1] = Append(kept[n], videos[n + 1])
    BY <1>2, <2>1, <2>2 DEF WhereRun
  <2>4. Len(kept[n]) = n /\ \A i \in 1 .. n : kept[n][i] = videos[i]
    BY <1>4
  <2> DEFINE q == kept[n]
             x == videos[n + 1]
  <2>5. q \in Seq(Videos) /\ x \in Videos
    BY <2>2
  <2> HIDE DEF q, x
  <2>6. /\ Len(Append(q, x)) = Len(q) + 1 /\ Append(q, x)[Len(q) + 1] = x
        /\ \A i \in 1 .. Len(q) : Append(q, x)[i] = q[i]
    BY <2>5, AppendProperties
  <2>7. Len(kept[n + 1]) = n + 1 /\ kept[n + 1][n + 1] = videos[n + 1]
          /\ \A i \in 1 .. n : kept[n + 1][i] = videos[i]
    BY <2>3, <2>4, <2>6 DEF q, x
  <2>8. \A i \in 1 .. n + 1 : i = n + 1 \/ i \in 1 .. n
    BY <2>1
  <2> QED
    BY <2>1, <2>7, <2>8
<1> HIDE DEF T
<1>5. \A n \in 0 .. hi : n \in T
  <2>1. 0 \in Nat /\ 0 <= hi
    BY <1>1
  <2> QED
    BY <1>1, <1>3, <1>4, <2>1, TurnByTurn
<1>6. hi \in 0 .. hi
  BY <1>1
<1>7. kept[hi] \in Seq(Videos) /\ Len(kept[hi]) = hi /\ \A i \in 1 .. hi : kept[hi][i] = videos[i]
  BY <1>2, <1>5, <1>6 DEF T
<1>8. kept[hi] = videos
  <2> DEFINE w == kept[hi]
  <2>1. w \in Seq(Videos) /\ Len(w) = Len(videos) /\ \A i \in 1 .. Len(w) : w[i] = videos[i]
    BY <1>7
  <2> HIDE DEF w
  <2>2. w = videos
    BY <1>1, <2>1, SeqEqual
  <2> QED
    BY <2>2 DEF w
<1> QED
  BY <1>2, <1>8 DEF WhereRun, Without

LEMMA WithDoes ==
  ASSUME NEW videos, VideosKept(videos), NEW p \in Peers, NEW mode \in Modes \union {"none"}
  PROVE  VideosKept(With(videos, p, mode)) /\ Keys(With(videos, p, mode)) = Keys(videos) \union {p}
<1> DEFINE w == With(videos, p, mode)
           x == Video(p, mode)
           n == Len(videos)
<1>1. x \in Videos /\ x.key = p /\ p # Local
  BY PanelAssumption DEF Video, Videos, PanelAssumption
<1>2. videos \in Seq(Videos) /\ n \in Nat /\ DOMAIN videos = 1 .. n
        /\ \A i \in 1 .. n : videos[i] \in Videos
  BY DEF VideosKept
<1> HIDE DEF x, n
<1>3. CASE p \in Keys(videos)
  <2>1. w = [i \in 1 .. n |-> IF videos[i].key = p THEN x ELSE videos[i]]
    BY <1>2, <1>3 DEF With, x
  <2> HIDE DEF w
  <2>2. w \in Seq(Videos) /\ DOMAIN w = 1 .. n /\ \A i \in 1 .. n : w[i].key = videos[i].key
    <3>1. w \in [1 .. n -> Videos]
      BY <1>1, <1>2, <2>1
    <3> QED
      BY <1>1, <1>2, <2>1, <3>1, SeqDef
  <2>3. Keys(w) = Keys(videos) /\ Keys(videos) = Keys(videos) \union {p}
    BY <1>2, <1>3, <2>2 DEF Keys
  <2>4. OnceEach(w)
    BY <1>2, <2>2 DEF VideosKept, OnceEach
  <2> QED
    BY <2>2, <2>3, <2>4 DEF VideosKept, w
<1>4. CASE p \notin Keys(videos)
  <2>1. w = Append(videos, x)
    BY <1>4 DEF With, x
  <2> HIDE DEF w
  <2>2. /\ w \in Seq(Videos) /\ DOMAIN w = 1 .. n + 1 /\ w[n + 1] = x
        /\ \A i \in 1 .. n : w[i] = videos[i]
    BY <1>1, <1>2, <2>1 DEF n
  <2>3. n + 1 \in 1 .. n + 1 /\ \A i \in 1 .. n : i \in 1 .. n + 1
    BY <1>2
  <2>4. \A i \in 1 .. n + 1 : i = n + 1 \/ i \in 1 .. n
    BY <1>2
  <2>5. Keys(w) = Keys(videos) \union {p}
    BY <1>1, <1>2, <2>2, <2>3, <2>4 DEF Keys
  <2>6. \A i \in 1 .. n : videos[i].key # p
    BY <1>2, <1>4 DEF Keys
  <2>7. \A i, j \in 1 .. n : videos[i].key = videos[j].key => i = j
    BY <1>2 DEF VideosKept, OnceEach
  <2>8. ASSUME NEW i \in 1 .. n + 1, NEW j \in 1 .. n + 1, w[i].key = w[j].key PROVE i = j
    BY <1>1, <2>2, <2>4, <2>6, <2>7, <2>8
  <2>9. OnceEach(w)
    BY <2>2, <2>8 DEF OnceEach
  <2> QED
    BY <1>1, <2>2, <2>5, <2>9 DEF VideosKept, w
<1> QED
  BY <1>3, <1>4

(* What is shown is in order too, with ours at the end.                    *)
LEMMA ShownDoes ==
  ASSUME NEW videos, VideosKept(videos), NEW c, NEW own \in Modes \union {"off"}
  PROVE  ShownVideos(videos, c, own) \in Seq(Videos) /\ IsInjective(ShownVideos(videos, c, own))
<1> DEFINE call == Where(videos, {v \in Videos : v.key \in Calls(c)})
           theirs == IF call # <<>> THEN call ELSE videos
           ours == Video(Local, own)
<1>1. theirs \in Seq(Videos) /\ IsInjective(theirs) /\ ToSet(theirs) \subseteq ToSet(videos)
  <2>1. videos \in Seq(Videos) /\ IsInjective(videos)
    BY OnceIs DEF VideosKept
  <2>2. /\ call \in Seq(Videos) /\ IsInjective(call)
        /\ ToSet(call) = ToSet(videos) \cap {v \in Videos : v.key \in Calls(c)}
    BY <2>1, WhereDoes
  <2> HIDE DEF call
  <2> QED
    BY <2>1, <2>2
<1> HIDE DEF theirs
<1>2. CASE own = "off"
  <2>1. ShownVideos(videos, c, own) = theirs \o <<>>
    BY <1>2 DEF ShownVideos, theirs, call
  <2>2. theirs \o <<>> = theirs
    BY <1>1, ConcatEmptySeq
  <2> QED
    BY <1>1, <2>1, <2>2
<1>3. CASE own # "off"
  <2>1. ours \in Videos /\ ours.key = Local
    BY <1>3 DEF Video, Videos
  <2>2. ShownVideos(videos, c, own) = theirs \o <<ours>>
    BY <1>3 DEF ShownVideos, theirs, call, ours
  <2> HIDE DEF ours
  <2>3. theirs \o <<ours>> = Append(theirs, ours)
    BY <1>1, <2>1, AppendIsConcat
  <2>4. ours \notin ToSet(theirs)
    BY <1>1, <2>1, KeysAre DEF VideosKept
  <2>5. IsInjective(Append(theirs, ours)) /\ Append(theirs, ours) \in Seq(Videos)
    BY <1>1, <2>1, <2>4, AppendSet, AppendProperties
  <2> QED
    BY <2>2, <2>3, <2>5
<1> QED
  BY <1>2, <1>3

(***************************************************************************)
(* The inductive invariant.                                                *)
(***************************************************************************)
Conns ==
  [links : SUBSET {"proximity", "page"}, track : BOOLEAN, label : Modes \union {"none"}]

ConnsKept(c) ==
  c \in [Peers -> Conns] /\ \A p \in Peers : c[p].links = {} => ~c[p].track

(* No video is received without a link, and nothing is left of a session   *)
(* in the engine.                                                          *)
PanelInv ==
  /\ ConnsKept(conn) /\ capture \in Modes \union {"off"} /\ VideosKept(remotes)
  /\ inSession \in BOOLEAN
  /\ ~inSession => conn = [p \in Peers |-> NoConn] /\ capture = "off"
  /\ PanelSound

LEMMA InitPanel == PanelInit => PanelInv
<1> SUFFICES ASSUME PanelInit PROVE PanelInv
  OBVIOUS
<1>1. ConnsKept(conn)
  BY DEF PanelInit, ConnsKept, Conns, NoConn
<1>2. VideosKept(remotes)
  BY DEF PanelInit, VideosKept, OnceEach, Keys
<1> QED
  BY <1>1, <1>2 DEF PanelInit, PanelInv, PanelSound

(* Whatever is drawn anew is current.                                      *)
LEMMA SyncDoes ==
  ASSUME VideosKept(remotes'), capture' \in Modes \union {"off"}, NEW dis, NEW pick,
         SyncVideoViews(dis, pick)
  PROVE  PanelCurrent'
<1> DEFINE videos == ShownVideos(remotes', conn', capture')
           lay == LayoutVideos(videos, picked')
           all == lay.stage \o lay.pip \o lay.tiles
<1>1. videos \in Seq(Videos) /\ IsInjective(videos)
  BY ShownDoes
<1>2. /\ dismissed' = (dis /\ Keys(videos) \ {Local} # {}) /\ reopen' = dismissed'
      /\ panel' = IF dismissed' THEN Hidden ELSE lay
  BY DEF SyncVideoViews, SetVideoPanel, SetScreenReopenVisible
<1> HIDE DEF videos
<1>3. all \in Seq(Videos) /\ Len(all) = Len(videos) /\ ToSet(all) = ToSet(videos)
  BY <1>1, LayoutWhole
<1>4. dismissed' => reopen' /\ Keys(videos) \ {Local} # {}
  BY <1>2
<1>5. Drawn' = panel'.stage \o panel'.pip \o panel'.tiles
  BY DEF Drawn
<1>6. CASE dismissed'
  <2>1. panel' = Hidden
    BY <1>2, <1>6
  <2>2. <<>> \o <<>> \o <<>> = <<>>
    OBVIOUS
  <2>3. Drawn' = <<>>
    BY <1>5, <2>1, <2>2 DEF Hidden
  <2> QED
    BY <1>4, <1>6, <2>3 DEF PanelCurrent, videos
<1>7. CASE ~dismissed'
  <2>1. Drawn' = all
    BY <1>2, <1>5, <1>7
  <2> HIDE DEF lay, all
  <2>2. Drawn' = <<>> <=> videos = <<>>
    BY <1>1, <1>3, <2>1
  <2>3. \A i \in DOMAIN videos : \E j \in DOMAIN Drawn' : Drawn'[j] = videos[i]
    BY <1>3, <2>1 DEF ToSet
  <2> QED
    BY <1>3, <1>4, <1>7, <2>1, <2>2, <2>3 DEF PanelCurrent, videos
<1> QED
  BY <1>6, <1>7

LEMMA SyncKeeps ==
  ASSUME inSession', ConnsKept(conn'), capture' \in Modes \union {"off"}, VideosKept(remotes'),
         NoVideoLost', NoFrozenFrame', inSession' \in BOOLEAN,
         NEW dis, NEW pick, SyncVideoViews(dis, pick)
  PROVE  PanelInv'
<1>1. PanelCurrent'
  BY SyncDoes
<1> QED
  BY <1>1 DEF PanelInv, PanelSound

(* And what need not be drawn anew stays so.                               *)
LEMMA StillKeeps ==
  ASSUME PanelInv, inSession, inSession' = inSession, ConnsKept(conn'),
         Calls(conn') = Calls(conn), NoVideoLost', NoFrozenFrame',
         UNCHANGED <<capture, remotes, dismissed, panel, reopen>>
  PROVE  PanelInv'
<1>1. ShownVideos(remotes', conn', capture') = ShownVideos(remotes, conn, capture)
  BY DEF ShownVideos
<1>2. Drawn' = Drawn
  BY DEF Drawn
<1>3. PanelCurrent
  BY DEF PanelInv, PanelSound
<1>4. PanelCurrent'
  BY <1>1, <1>2, <1>3 DEF PanelCurrent
<1> QED
  BY <1>4 DEF PanelInv, PanelSound

(* What taking one reason from some connections leaves.                    *)
LEMMA UnlinkedDoes ==
  ASSUME ConnsKept(conn), NEW ps, NEW reason
  PROVE  LET c == Unlinked(ps, reason)
         IN  /\ ConnsKept(c)
             /\ \A p \in Peers :
                  /\ c[p].track <=> conn[p].track /\ p \notin Closed(ps, reason)
                  /\ c[p].track => c[p].label = conn[p].label
                  /\ p \notin ps => c[p] = conn[p]
                  /\ c[p].links = {} => ~c[p].track
             /\ reason # "page" => Calls(c) = Calls(conn)
<1> DEFINE c == Unlinked(ps, reason)
<1>1. \A p \in Peers : /\ conn[p] \in Conns
                       /\ conn[p].links = {} => ~conn[p].track
  BY DEF ConnsKept
<1>2. ASSUME NEW p \in Peers
      PROVE  /\ c[p] \in Conns
             /\ c[p].track <=> conn[p].track /\ p \notin Closed(ps, reason)
             /\ c[p].track => c[p].label = conn[p].label
             /\ p \notin ps => c[p] = conn[p]
             /\ c[p].links = {} => ~c[p].track
             /\ reason # "page" => ("page" \in c[p].links <=> "page" \in conn[p].links)
  <2>1. conn[p] \in Conns /\ (conn[p].links = {} => ~conn[p].track)
    BY <1>1
  <2>2. CASE p \notin ps
    <3>1. c[p] = conn[p]
      BY <2>2 DEF Unlinked
    <3> QED
      BY <2>1, <2>2, <3>1 DEF Closed
  <2>3. CASE p \in ps /\ conn[p].links \subseteq {reason}
    <3>1. c[p] = NoConn
      BY <2>3 DEF Unlinked
    <3>2. NoConn \in Conns /\ NoConn.links = {} /\ NoConn.track = FALSE
      BY DEF NoConn, Conns
    <3> QED
      BY <2>1, <2>3, <3>1, <3>2 DEF Closed
  <2>4. CASE p \in ps /\ ~(conn[p].links \subseteq {reason})
    <3>1. c[p] = [conn[p] EXCEPT !.links = conn[p].links \ {reason}]
      BY <2>4 DEF Unlinked
    <3>2. /\ c[p] \in Conns /\ c[p].links = conn[p].links \ {reason}
          /\ c[p].track = conn[p].track /\ c[p].label = conn[p].label
      BY <2>1, <3>1 DEF Conns
    <3> QED
      BY <2>1, <2>4, <3>2 DEF Closed
  <2> QED
    BY <2>2, <2>3, <2>4
<1>3. c \in [Peers -> Conns]
  <2>1. c = [p \in Peers |-> c[p]]
    BY DEF Unlinked
  <2> HIDE DEF c
  <2> QED
    BY <1>2, <2>1
<1> HIDE DEF c
<1>4. ConnsKept(c)
  BY <1>2, <1>3 DEF ConnsKept
<1>5. reason # "page" => Calls(c) = Calls(conn)
  BY <1>2 DEF Calls
<1> QED
  BY <1>2, <1>4, <1>5 DEF c

LEMMA KeysOfPeers ==
  ASSUME NEW videos, VideosKept(videos)
  PROVE  Keys(videos) \subseteq Peers
<1>1. \A i \in DOMAIN videos : videos[i] \in Videos
  BY DEF VideosKept
<1>2. \A i \in DOMAIN videos : videos[i].key \in Peers \union {Local}
  BY <1>1 DEF Videos
<1> QED
  BY <1>2 DEF VideosKept, Keys

(* A step that closes some connections and takes their videos off.         *)
LEMMA GoneKeeps ==
  ASSUME PanelInv, inSession, NEW ps, NEW reason, NEW ks,
         conn' = Unlinked(ps, reason), remotes' = Without(remotes, ks),
         Closed(ps, reason) \subseteq ks,
         \A p \in ks \ Closed(ps, reason) : p \in hungUp' \/ (p \in Peers => ~conn'[p].track),
         \A p \in hungUp : p \in hungUp' \/ (p \in Peers => conn'[p].links = {})
  PROVE  ConnsKept(conn') /\ VideosKept(remotes') /\ NoVideoLost' /\ NoFrozenFrame'
<1>1. ConnsKept(conn) /\ VideosKept(remotes) /\ NoVideoLost /\ NoFrozenFrame
  BY DEF PanelInv, PanelSound
<1>2. ConnsKept(conn')
  BY <1>1, UnlinkedDoes
<1>3. VideosKept(remotes') /\ Keys(remotes') = Keys(remotes) \ ks
  BY <1>1, WithoutDoes
<1>4. \A p \in Peers :
        /\ conn'[p].track <=> conn[p].track /\ p \notin Closed(ps, reason)
        /\ conn'[p].track => conn'[p].label = conn[p].label
        /\ conn'[p].links = {} => ~conn'[p].track
  BY <1>1, UnlinkedDoes
<1>5. Keys(remotes) \subseteq Peers
  BY <1>1, KeysOfPeers
<1>6. NoFrozenFrame'
  BY <1>1, <1>3, <1>4, <1>5 DEF NoFrozenFrame
<1>7. NoVideoLost'
  <2> SUFFICES ASSUME NEW p \in Peers, Live(p)', p \notin hungUp' PROVE p \in Keys(remotes')
    BY DEF NoVideoLost
  <2>1. conn'[p].track /\ conn'[p].label # "none"
    BY DEF Live
  <2>2. Live(p) /\ p \notin Closed(ps, reason)
    BY <1>4, <2>1 DEF Live
  <2>3. p \notin hungUp /\ p \notin ks
    BY <1>4, <2>1, <2>2
  <2> QED
    BY <1>1, <1>3, <2>2, <2>3 DEF NoVideoLost
<1> QED
  BY <1>2, <1>3, <1>6, <1>7

(* The steps, one by one.                                                  *)
LEMMA PanelStart == PanelInv /\ StartSession => PanelInv'
<1> SUFFICES ASSUME PanelInv, StartSession PROVE PanelInv'
  OBVIOUS
<1>1. conn' = [p \in Peers |-> NoConn] /\ capture' = "off" /\ ConnsKept(conn')
  BY DEF PanelInv, StartSession
<1>2. inSession' = TRUE /\ remotes' = <<>> /\ dismissed' = FALSE /\ panel' = Hidden
  BY DEF StartSession, SetVideoPanel
<1>3. VideosKept(remotes') /\ Keys(remotes') = {}
  BY <1>2 DEF VideosKept, OnceEach, Keys
<1>4. NoVideoLost' /\ NoFrozenFrame'
  BY <1>1, <1>3 DEF NoVideoLost, NoFrozenFrame, Live, NoConn
<1>5. ShownVideos(remotes', conn', capture') = <<>> /\ Drawn' = <<>>
  <2>1. Calls(conn') = {}
    BY <1>1 DEF Calls, NoConn
  <2>2. Where(<<>>, {v \in Videos : v.key \in Calls(conn')}) = <<>>
    BY WhereNothing
  <2>3. <<>> \o <<>> = <<>>
    OBVIOUS
  <2> QED
    BY <1>1, <1>2, <2>2, <2>3 DEF ShownVideos, Drawn, Hidden
<1>6. PanelCurrent'
  BY <1>2, <1>5 DEF PanelCurrent
<1> QED
  BY <1>1, <1>2, <1>3, <1>4, <1>6 DEF PanelInv, PanelSound

LEMMA PanelTeardown == PanelInv /\ TeardownSession => PanelInv'
<1> SUFFICES ASSUME PanelInv, TeardownSession PROVE PanelInv'
  OBVIOUS
<1>1. /\ inSession' = FALSE /\ conn' = [p \in Peers |-> NoConn] /\ capture' = "off"
      /\ remotes' = remotes
  BY DEF TeardownSession
<1>2. ConnsKept(conn')
  BY <1>1 DEF ConnsKept, Conns, NoConn
<1> QED
  BY <1>1, <1>2 DEF PanelInv, PanelSound

(* A link is added: whose video is live does not change by that.           *)
LEMMA LinkedForDoes ==
  ASSUME ConnsKept(conn), NEW p \in Peers, NEW reason \in {"proximity", "page"}
  PROVE  LET c == LinkedFor(p, reason)
         IN  /\ ConnsKept(c)
             /\ \A q \in Peers : c[q].track = conn[q].track /\ c[q].label = conn[q].label
             /\ reason # "page" => Calls(c) = Calls(conn)
<1> DEFINE c == LinkedFor(p, reason)
<1>1. conn \in [Peers -> Conns] /\ \A q \in Peers : conn[q].links = {} => ~conn[q].track
  BY DEF ConnsKept
<1>2. c[p] = [conn[p] EXCEPT !.links = conn[p].links \union {reason}]
        /\ \A q \in Peers : q # p => c[q] = conn[q]
  BY <1>1 DEF LinkedFor
<1>3. conn[p] \in Conns
  BY <1>1
<1>4. /\ c[p] \in Conns /\ c[p].links = conn[p].links \union {reason}
      /\ c[p].track = conn[p].track /\ c[p].label = conn[p].label
  BY <1>2, <1>3 DEF Conns
<1>5. c = [q \in Peers |-> c[q]]
  BY <1>1 DEF LinkedFor
<1> HIDE DEF c
<1>6. c \in [Peers -> Conns]
  BY <1>1, <1>2, <1>4, <1>5
<1>7. ConnsKept(c)
  BY <1>1, <1>2, <1>4, <1>6 DEF ConnsKept
<1>8. reason # "page" => Calls(c) = Calls(conn)
  BY <1>2, <1>4 DEF Calls
<1> QED
  BY <1>2, <1>4, <1>7, <1>8 DEF c

LEMMA PanelConnect ==
  ASSUME PanelInv, NEW p \in Peers, Connect(p) PROVE PanelInv'
<1>1. inSession /\ inSession' = inSession /\ conn' = LinkedFor(p, "proximity")
        /\ hungUp' = hungUp /\ UNCHANGED <<capture, remotes, dismissed, panel, reopen>>
  BY DEF Connect
<1>2. ConnsKept(conn') /\ Calls(conn') = Calls(conn)
        /\ \A q \in Peers : conn'[q].track = conn[q].track /\ conn'[q].label = conn[q].label
  BY <1>1, LinkedForDoes DEF PanelInv
<1>3. NoVideoLost' /\ NoFrozenFrame'
  <2>1. NoVideoLost /\ NoFrozenFrame /\ VideosKept(remotes)
    BY <1>1 DEF PanelInv, PanelSound
  <2>2. Keys(remotes) \subseteq Peers
    BY <2>1, KeysOfPeers
  <2> QED
    BY <1>1, <1>2, <2>1, <2>2 DEF NoVideoLost, NoFrozenFrame, Live
<1> QED
  BY <1>1, <1>2, <1>3, StillKeeps

LEMMA PanelPageConnect ==
  ASSUME PanelInv, NEW p \in Peers, PageConnect(p) PROVE PanelInv'
<1>1. inSession /\ inSession' = inSession /\ conn' = LinkedFor(p, "page")
        /\ hungUp' = hungUp /\ remotes' = remotes /\ SyncVideoViews(dismissed, picked)
  BY DEF PageConnect
<1>2. ConnsKept(conn')
        /\ \A q \in Peers : conn'[q].track = conn[q].track /\ conn'[q].label = conn[q].label
  BY <1>1, LinkedForDoes DEF PanelInv
<1>3. capture' \in Modes \union {"off"}
  BY DEF PageConnect, MayStop, PanelInv
<1>4. NoVideoLost /\ NoFrozenFrame /\ VideosKept(remotes) /\ inSession \in BOOLEAN
  BY <1>1 DEF PanelInv, PanelSound
<1>5. NoVideoLost' /\ NoFrozenFrame'
  <2>1. Keys(remotes) \subseteq Peers
    BY <1>4, KeysOfPeers
  <2> QED
    BY <1>1, <1>2, <1>4, <2>1 DEF NoVideoLost, NoFrozenFrame, Live
<1> QED
  BY <1>1, <1>2, <1>3, <1>4, <1>5, SyncKeeps

LEMMA PanelDisconnectProximity ==
  ASSUME PanelInv, NEW p \in Peers, DisconnectProximity(p) PROVE PanelInv'
<1>1. /\ inSession /\ inSession' = inSession /\ capture' = capture
      /\ conn' = Unlinked({p}, "proximity")
      /\ remotes' = Without(remotes, Closed({p}, "proximity"))
      /\ hungUp' = {q \in hungUp : conn'[q].links # {}}
  BY DEF DisconnectProximity, ProximityGone
<1>2. ConnsKept(conn') /\ VideosKept(remotes') /\ NoVideoLost' /\ NoFrozenFrame'
  BY <1>1, GoneKeeps
<1>3. CASE Closed({p}, "proximity") # {}
  <2>1. SyncVideoViews(dismissed, picked)
    BY <1>3 DEF DisconnectProximity
  <2>2. capture' \in Modes \union {"off"} /\ inSession \in BOOLEAN
    BY <1>1 DEF PanelInv
  <2> QED
    BY <1>1, <1>2, <2>1, <2>2, SyncKeeps
<1>4. CASE Closed({p}, "proximity") = {}
  <2>1. UNCHANGED <<dismissed, panel, reopen>>
    BY <1>4 DEF DisconnectProximity
  <2>2. remotes' = remotes
    BY <1>1, <1>4, WithoutNobody DEF PanelInv
  <2>3. Calls(conn') = Calls(conn)
    BY <1>1, UnlinkedDoes DEF PanelInv
  <2> QED
    BY <1>1, <1>2, <2>1, <2>2, <2>3, StillKeeps
<1> QED
  BY <1>3, <1>4

LEMMA PanelDisconnectAll ==
  ASSUME PanelInv, DisconnectAllProximity PROVE PanelInv'
<1>1. /\ inSession /\ inSession' = inSession
      /\ conn' = Unlinked(Peers, "proximity")
      /\ remotes' = Without(remotes, Closed(Peers, "proximity"))
      /\ hungUp' = {q \in hungUp : conn'[q].links # {}}
  BY DEF DisconnectAllProximity, ProximityGone
<1>2. ConnsKept(conn') /\ VideosKept(remotes') /\ NoVideoLost' /\ NoFrozenFrame'
  BY <1>1, GoneKeeps
<1>3. capture' \in Modes \union {"off"} /\ inSession \in BOOLEAN
  BY DEF DisconnectAllProximity, MayStop, PanelInv
<1>4. CASE Closed(Peers, "proximity") # {} \/ capture' # capture
  <2>1. SyncVideoViews(dismissed, picked)
    BY <1>4 DEF DisconnectAllProximity
  <2> QED
    BY <1>1, <1>2, <1>3, <2>1, SyncKeeps
<1>5. CASE ~(Closed(Peers, "proximity") # {} \/ capture' # capture)
  <2>1. UNCHANGED <<capture, dismissed, panel, reopen>>
    BY <1>5 DEF DisconnectAllProximity
  <2>2. remotes' = remotes
    BY <1>1, <1>5, WithoutNobody DEF PanelInv
  <2>3. Calls(conn') = Calls(conn)
    BY <1>1, UnlinkedDoes DEF PanelInv
  <2> QED
    BY <1>1, <1>2, <2>1, <2>2, <2>3, StillKeeps
<1> QED
  BY <1>4, <1>5

LEMMA PanelPageEnd ==
  ASSUME PanelInv, NEW p \in Peers, PageEnd(p) PROVE PanelInv'
<1>1. /\ inSession /\ inSession' = inSession
      /\ conn' = Unlinked({p}, "page") /\ remotes' = Without(remotes, {p})
      /\ hungUp' = {q \in hungUp \union {p} : conn'[q].links # {}}
      /\ SyncVideoViews(dismissed, picked)
  BY DEF PageEnd
<1>2. capture' \in Modes \union {"off"} /\ inSession \in BOOLEAN
  BY DEF PageEnd, MayStop, PanelInv
<1>3. \A q \in Peers : conn'[q].links = {} => ~conn'[q].track
  <2>1. ConnsKept(conn)
    BY DEF PanelInv
  <2>2. ConnsKept(Unlinked({p}, "page"))
    BY ONLY <2>1, UnlinkedDoes
  <2> QED
    BY ONLY <1>1, <2>2 DEF ConnsKept
<1>4. Closed({p}, "page") \subseteq {p}
  BY DEF Closed
<1>5. ConnsKept(conn') /\ VideosKept(remotes') /\ NoVideoLost' /\ NoFrozenFrame'
  BY <1>1, <1>3, <1>4, GoneKeeps
<1> QED
  BY <1>1, <1>2, <1>5, SyncKeeps

LEMMA PanelHangUp ==
  ASSUME PanelInv, HandleHangUp PROVE PanelInv'
<1>1. /\ inSession /\ inSession' = inSession
      /\ conn' = Unlinked(Calls(conn), "page") /\ remotes' = Without(remotes, Calls(conn))
      /\ hungUp' = {q \in hungUp \union Calls(conn) : conn'[q].links # {}}
      /\ SyncVideoViews(FALSE, picked)
  BY DEF HandleHangUp
<1>2. capture' \in Modes \union {"off"} /\ inSession \in BOOLEAN
  BY DEF HandleHangUp, MayStop, PanelInv
<1>3. \A q \in Peers : conn'[q].links = {} => ~conn'[q].track
  BY <1>1, UnlinkedDoes DEF PanelInv
<1>4. Closed(Calls(conn), "page") \subseteq Calls(conn) /\ Calls(conn) \subseteq Peers
  BY DEF Closed, Calls
<1>5. ConnsKept(conn') /\ VideosKept(remotes') /\ NoVideoLost' /\ NoFrozenFrame'
  BY <1>1, <1>3, <1>4, GoneKeeps
<1> QED
  BY <1>1, <1>2, <1>5, SyncKeeps

(* A peer's video comes, changes or goes.                                  *)
LEMMA PanelTrack ==
  ASSUME PanelInv, NEW p \in Peers, Track(p) PROVE PanelInv'
<1>1. /\ inSession /\ inSession' = inSession /\ capture' = capture
      /\ conn[p].links # {} /\ conn' = [conn EXCEPT ![p].track = TRUE]
      /\ remotes' = With(remotes, p, conn[p].label)
      /\ hungUp' = hungUp \ {p} /\ SyncVideoViews(dismissed, picked)
  BY DEF Track, HandleRemoteVideo
<1>2. ConnsKept(conn) /\ VideosKept(remotes) /\ NoVideoLost /\ NoFrozenFrame
        /\ capture \in Modes \union {"off"} /\ inSession \in BOOLEAN
  BY <1>1 DEF PanelInv, PanelSound
<1>3. conn[p] \in Conns /\ conn[p].label \in Modes \union {"none"}
  BY <1>2 DEF ConnsKept, Conns
<1>4. VideosKept(remotes') /\ Keys(remotes') = Keys(remotes) \union {p}
  BY <1>1, <1>2, <1>3, WithDoes
<1>5. /\ conn'[p] = [conn[p] EXCEPT !.track = TRUE]
      /\ \A q \in Peers : q # p => conn'[q] = conn[q]
      /\ conn' = [q \in Peers |-> conn'[q]]
  BY <1>1, <1>2 DEF ConnsKept
<1>6. conn'[p] \in Conns /\ conn'[p].links = conn[p].links /\ conn'[p].track = TRUE
  BY <1>3, <1>5 DEF Conns
<1>7. ConnsKept(conn')
  <2>1. \A q \in Peers : conn[q] \in Conns /\ (conn[q].links = {} => ~conn[q].track)
    BY <1>2 DEF ConnsKept
  <2>2. \A q \in Peers : conn'[q] \in Conns /\ (conn'[q].links = {} => ~conn'[q].track)
    BY <1>1, <1>5, <1>6, <2>1
  <2> QED
    BY <1>5, <2>2 DEF ConnsKept
<1>8. NoVideoLost' /\ NoFrozenFrame'
  <2>1. Keys(remotes) \subseteq Peers
    BY <1>2, KeysOfPeers
  <2>2. \A q \in Peers : q # p => (Live(q)' <=> Live(q)) /\ conn'[q].track = conn[q].track
    BY <1>5 DEF Live
  <2> QED
    BY <1>1, <1>2, <1>4, <1>6, <2>1, <2>2 DEF NoVideoLost, NoFrozenFrame
<1> QED
  BY <1>1, <1>2, <1>4, <1>7, <1>8, SyncKeeps

LEMMA PanelTrackEnded ==
  ASSUME PanelInv, NEW p \in Peers, TrackEnded(p) PROVE PanelInv'
<1>1. /\ inSession /\ inSession' = inSession /\ capture' = capture
      /\ conn' = [conn EXCEPT ![p].track = FALSE]
      /\ remotes' = Without(remotes, {p})
      /\ hungUp' = hungUp /\ SyncVideoViews(dismissed, picked)
  BY DEF TrackEnded, VideoGone
<1>2. ConnsKept(conn) /\ VideosKept(remotes) /\ NoVideoLost /\ NoFrozenFrame
        /\ capture \in Modes \union {"off"} /\ inSession \in BOOLEAN
  BY <1>1 DEF PanelInv, PanelSound
<1>3. conn[p] \in Conns
  BY <1>2 DEF ConnsKept
<1>4. VideosKept(remotes') /\ Keys(remotes') = Keys(remotes) \ {p}
  BY <1>1, <1>2, WithoutDoes
<1>5. /\ conn'[p] = [conn[p] EXCEPT !.track = FALSE]
      /\ \A q \in Peers : q # p => conn'[q] = conn[q]
      /\ conn' = [q \in Peers |-> conn'[q]]
  BY <1>1, <1>2 DEF ConnsKept
<1>6. conn'[p] \in Conns /\ conn'[p].track = FALSE
  BY <1>3, <1>5 DEF Conns
<1>7. ConnsKept(conn')
  <2>1. \A q \in Peers : conn[q] \in Conns /\ (conn[q].links = {} => ~conn[q].track)
    BY <1>2 DEF ConnsKept
  <2>2. \A q \in Peers : conn'[q] \in Conns /\ (conn'[q].links = {} => ~conn'[q].track)
    BY <1>5, <1>6, <2>1
  <2> QED
    BY <1>5, <2>2 DEF ConnsKept
<1>8. NoVideoLost' /\ NoFrozenFrame'
  <2>1. Keys(remotes) \subseteq Peers
    BY <1>2, KeysOfPeers
  <2>2. \A q \in Peers : q # p => (Live(q)' <=> Live(q)) /\ conn'[q].track = conn[q].track
    BY <1>5 DEF Live
  <2>3. ~Live(p)'
    BY <1>6 DEF Live
  <2> QED
    BY <1>1, <1>2, <1>4, <2>1, <2>2, <2>3 DEF NoVideoLost, NoFrozenFrame
<1> QED
  BY <1>1, <1>2, <1>4, <1>7, <1>8, SyncKeeps

LEMMA PanelVideoMode ==
  ASSUME PanelInv, NEW p \in Peers, NEW mode \in Modes \union {"none"}, VideoMode(p, mode)
  PROVE  PanelInv'
<1>1. /\ inSession /\ inSession' = inSession /\ capture' = capture
      /\ conn' = [conn EXCEPT ![p].label = mode] /\ hungUp' = hungUp \ {p}
  BY DEF VideoMode
<1>2. ConnsKept(conn) /\ VideosKept(remotes) /\ NoVideoLost /\ NoFrozenFrame
        /\ capture \in Modes \union {"off"} /\ inSession \in BOOLEAN
  BY <1>1 DEF PanelInv, PanelSound
<1>3. conn[p] \in Conns /\ conn[p].track \in BOOLEAN
  BY <1>2 DEF ConnsKept, Conns
<1>4. /\ conn'[p] = [conn[p] EXCEPT !.label = mode]
      /\ \A q \in Peers : q # p => conn'[q] = conn[q]
      /\ conn' = [q \in Peers |-> conn'[q]]
  BY <1>1, <1>2 DEF ConnsKept
<1>5. /\ conn'[p] \in Conns /\ conn'[p].links = conn[p].links
      /\ conn'[p].track = conn[p].track /\ conn'[p].label = mode
  BY <1>3, <1>4 DEF Conns
<1>6. ConnsKept(conn')
  <2>1. \A q \in Peers : conn[q] \in Conns /\ (conn[q].links = {} => ~conn[q].track)
    BY <1>2 DEF ConnsKept
  <2>2. \A q \in Peers : conn'[q] \in Conns /\ (conn'[q].links = {} => ~conn'[q].track)
    BY <1>4, <1>5, <2>1
  <2> QED
    BY <1>4, <2>2 DEF ConnsKept
<1>7. Keys(remotes) \subseteq Peers
  BY <1>2, KeysOfPeers
<1>8. \A q \in Peers : /\ q # p => (Live(q)' <=> Live(q))
                       /\ conn'[q].track = conn[q].track
  BY <1>4, <1>5 DEF Live
<1>9. Live(p)' <=> conn[p].track /\ mode # "none"
  BY <1>5 DEF Live
<1>10. CASE ~conn[p].track
  <2>1. UNCHANGED <<remotes, dismissed, panel, reopen>>
    BY <1>10 DEF VideoMode
  <2>2. NoVideoLost' /\ NoFrozenFrame'
    BY <1>1, <1>2, <1>7, <1>8, <1>9, <1>10, <2>1 DEF NoVideoLost, NoFrozenFrame
  <2>3. Calls(conn') = Calls(conn)
    BY <1>4, <1>5 DEF Calls
  <2> QED
    BY <1>1, <1>6, <2>1, <2>2, <2>3, StillKeeps
<1>11. CASE conn[p].track /\ mode = "none"
  <2>1. remotes' = Without(remotes, {p}) /\ SyncVideoViews(dismissed, picked)
    BY <1>11 DEF VideoMode, VideoGone
  <2>2. VideosKept(remotes') /\ Keys(remotes') = Keys(remotes) \ {p}
    BY <1>2, <2>1, WithoutDoes
  <2>3. NoVideoLost' /\ NoFrozenFrame'
    BY <1>1, <1>2, <1>7, <1>8, <1>9, <1>11, <2>2 DEF NoVideoLost, NoFrozenFrame
  <2> QED
    BY <1>1, <1>2, <1>6, <2>1, <2>2, <2>3, SyncKeeps
<1>12. CASE conn[p].track /\ mode # "none"
  <2>1. remotes' = With(remotes, p, mode) /\ SyncVideoViews(dismissed, picked)
    BY <1>12 DEF VideoMode, HandleRemoteVideo
  <2>2. VideosKept(remotes') /\ Keys(remotes') = Keys(remotes) \union {p}
    BY <1>2, <2>1, WithDoes
  <2>3. NoVideoLost' /\ NoFrozenFrame'
    BY <1>1, <1>2, <1>7, <1>8, <1>9, <1>12, <2>2 DEF NoVideoLost, NoFrozenFrame
  <2> QED
    BY <1>1, <1>2, <1>6, <2>1, <2>2, <2>3, SyncKeeps
<1> QED
  BY <1>3, <1>10, <1>11, <1>12

(* Our own video, and the user at the panel: only what is shown changes.   *)
LEMMA PanelRedrawn ==
  ASSUME PanelInv, inSession, inSession' = inSession, UNCHANGED <<conn, remotes, hungUp>>,
         capture' \in Modes \union {"off"}, NEW dis, NEW pick, SyncVideoViews(dis, pick)
  PROVE  PanelInv'
<1>1. ConnsKept(conn) /\ VideosKept(remotes) /\ NoVideoLost /\ NoFrozenFrame
        /\ inSession \in BOOLEAN
  BY DEF PanelInv, PanelSound
<1>2. ConnsKept(conn') /\ VideosKept(remotes')
  BY <1>1
<1>3. NoVideoLost' /\ NoFrozenFrame'
  BY <1>1 DEF NoVideoLost, NoFrozenFrame, Live
<1> QED
  BY <1>1, <1>2, <1>3, SyncKeeps

LEMMA PanelStep == PanelInv /\ [PanelNext]_panelVars => PanelInv'
<1> SUFFICES ASSUME PanelInv, [PanelNext]_panelVars PROVE PanelInv'
  OBVIOUS
<1>1. CASE StartSession \/ TeardownSession \/ DisconnectAllProximity \/ HandleHangUp
  BY <1>1, PanelStart, PanelTeardown, PanelDisconnectAll, PanelHangUp
<1>2. CASE HandleCloseScreenShare
  <2>1. inSession /\ inSession' = inSession /\ UNCHANGED <<conn, remotes, hungUp>>
    BY <1>2 DEF HandleCloseScreenShare
  <2>2. capture' \in Modes \union {"off"}
    BY <1>2 DEF HandleCloseScreenShare, PanelInv
  <2>3. SyncVideoViews(dismissed, picked) \/ SyncVideoViews(TRUE, Nobody)
    BY <1>2 DEF HandleCloseScreenShare
  <2> QED
    BY <2>1, <2>2, <2>3, PanelRedrawn
<1>3. CASE HandleReopenScreenShare
  <2>1. inSession /\ inSession' = inSession /\ UNCHANGED <<conn, remotes, hungUp>>
          /\ capture' \in Modes \union {"off"} /\ SyncVideoViews(FALSE, picked)
    BY <1>3 DEF HandleReopenScreenShare, PanelInv
  <2> QED
    BY <2>1, PanelRedrawn
<1>4. ASSUME NEW p \in Peers,
             \/ Connect(p) \/ PageConnect(p) \/ DisconnectProximity(p) \/ PageEnd(p)
             \/ Track(p) \/ TrackEnded(p)
      PROVE  PanelInv'
  BY <1>4, PanelConnect, PanelPageConnect, PanelDisconnectProximity, PanelPageEnd, PanelTrack,
     PanelTrackEnded
<1>5. ASSUME NEW p \in Peers, NEW mode \in Modes \union {"none"}, VideoMode(p, mode)
      PROVE  PanelInv'
  BY <1>5, PanelVideoMode
<1>6. ASSUME NEW mode \in Modes \union {"off"}, HandleLocalVideo(mode)
      PROVE  PanelInv'
  <2>1. inSession /\ inSession' = inSession /\ UNCHANGED <<conn, remotes, hungUp>>
          /\ capture' \in Modes \union {"off"} /\ SyncVideoViews(dismissed /\ mode = "off", picked)
    BY <1>6 DEF HandleLocalVideo
  <2> QED
    BY <2>1, PanelRedrawn
<1>7. ASSUME NEW key \in Peers \union {Local}, HandleVideoClick(key)
      PROVE  PanelInv'
  <2>1. inSession /\ inSession' = inSession /\ UNCHANGED <<conn, remotes, hungUp>>
          /\ capture' \in Modes \union {"off"} /\ SyncVideoViews(dismissed, key)
    BY <1>7 DEF HandleVideoClick, PanelInv
  <2> QED
    BY <2>1, PanelRedrawn
<1>8. CASE UNCHANGED panelVars
  <2>1. UNCHANGED <<inSession, conn, capture, remotes, dismissed, picked, panel, reopen, hungUp>>
    BY <1>8 DEF panelVars
  <2>2. ConnsKept(conn)' <=> ConnsKept(conn)
    BY <2>1 DEF ConnsKept
  <2>3. PanelSound' <=> PanelSound
    BY <2>1 DEF PanelSound, NoVideoLost, NoFrozenFrame, Live, PanelCurrent, Drawn
  <2> QED
    BY <2>1, <2>2, <2>3 DEF PanelInv
<1> QED
  BY <1>1, <1>2, <1>3, <1>4, <1>5, <1>6, <1>7, <1>8 DEF PanelNext

(* However tracks and their labels come, calls, captures and links end and *)
(* the user closes, picks and reopens, what is drawn is what is live: no   *)
(* video without its place, in it once, no frozen frame, and a way back to *)
(* a panel that was closed.                                                *)
THEOREM PanelSoundCorrect == PanelSpec => []PanelSound
<1>1. PanelInit => PanelInv
  BY InitPanel
<1>2. PanelInv /\ [PanelNext]_panelVars => PanelInv'
  BY PanelStep
<1>3. PanelInv => PanelSound
  BY DEF PanelInv
<1> QED
  BY <1>1, <1>2, <1>3, PTL DEF PanelSpec
=============================================================================
