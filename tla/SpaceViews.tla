---------------------------- MODULE SpaceViews -----------------------------
(***************************************************************************)
(* What each client believes of its space and of the roster, beside what   *)
(* the server holds (module Spaces): the control messages of join, leave,  *)
(* set_status, enter_space and the tick loop, and the client's handlers of *)
(* them (client/src/main.ts).                                              *)
(*                                                                         *)
(* A client handles its messages in the order they were queued, so its     *)
(* queue is folded away: told[m] is the session of client m once it has    *)
(* handled everything queued for it so far.  Only the space it shows on    *)
(* screen (viewed) lags, since that decides what it asks next.             *)
(*                                                                         *)
(* The one message not queued under the org's lock is the answer to        *)
(* enter_space: the connection's reader (server/src/ws.rs) holds it        *)
(* (reply) after releasing the lock, and then queues it.                   *)
(***************************************************************************)
EXTENDS Spaces, Sequences, Functions

CONSTANT MaxAsks  (* enter_space requests in flight per client             *)

VARIABLES
  told,        (* [member -> its client's session, all messages handled]   *)
  viewed,      (* [member -> the space its client shows now]               *)
  asked,       (* [member -> enter_space requests on their way]            *)
  reply,       (* [member -> snapshot its reader holds, or Nothing]        *)
  overtaken,   (* history: was anything queued while the reader held it?   *)
  reentered    (* history: was the last snapshot of the space it was in?   *)

viewVars == <<freeIds, spaceId, memberIds, pos, dnd, links,
              told, viewed, asked, reply, overtaken, reentered>>

(* What the org is told of a member (RosterMember).                        *)
RosterMember(m) ==
  [space |-> spaceId[m], status |-> IF dnd[m] THEN "dnd" ELSE "active"]

(***************************************************************************)
(* The client's handlers.  A view holds the space's peers, each with the   *)
(* status its avatar wears, and its proximity links; the roster, of        *)
(* everyone ever heard of, and who of them is offline.                     *)
(***************************************************************************)
NoPeers == [p \in {} |-> "active"]
NoRoster == [p \in {} |-> "active"]

Nothing ==
  [space |-> Offline, peers |-> NoPeers, prox |-> {}, roster |-> NoRoster, offline |-> {}]

PeersIn(view) == DOMAIN view.peers

Status(view, p) == IF p \in DOMAIN view.roster THEN view.roster[p].status ELSE "active"

(* Mutant of RebuildRoster: the avatars are left as they are.              *)
RosterOnly(view) == view

(* rebuildRoster, with syncAvatarStatuses.                                 *)
RebuildRoster(view) == [view EXCEPT !.peers = [p \in PeersIn(view) |-> Status(view, p)]]

InitSession(peers, members) ==
  RebuildRoster([space |-> Lobby, peers |-> [p \in peers |-> "active"], prox |-> {},
                 roster |-> [p \in members |-> RosterMember(p)], offline |-> {}])

(* A snapshot drops every proximity link.                                  *)
SpaceSnapshot(view, snapshot) ==
  RebuildRoster([view EXCEPT !.space = snapshot.space, !.prox = {},
                             !.peers = [p \in snapshot.peers |-> "active"]])

(* upsertPeer: a new avatar wears no status.                               *)
SpaceJoined(view, p) ==
  IF p \in PeersIn(view) THEN view
  ELSE [view EXCEPT !.peers = [q \in PeersIn(view) \union {p} |->
                                 IF q = p THEN "active" ELSE view.peers[q]]]

(* Mutant of SpaceLeft: the link is kept.                                  *)
KeepLink(view, p) == [view EXCEPT !.peers = Restrict(@, PeersIn(view) \ {p})]

(* space_left, and the proximity disconnect sent beside it.                *)
SpaceLeft(view, p) ==
  [view EXCEPT !.peers = Restrict(@, PeersIn(view) \ {p}), !.prox = @ \ {p}]

Presence(view, p, member) ==
  RebuildRoster([view EXCEPT !.roster = [q \in DOMAIN @ \union {p} |->
                                           IF q = p THEN member ELSE view.roster[q]],
                             !.offline = @ \ {p}])

(* Kept in the list, as offline.                                           *)
PresenceLeft(view, p) ==
  RebuildRoster([view EXCEPT !.offline = @ \union ({p} \intersect DOMAIN view.roster)])

Proximity(view, connect, disconnect) ==
  [view EXCEPT !.prox = (@ \union connect) \ disconnect]

(***************************************************************************)
(* The server's messages, queued under the lock.                           *)
(***************************************************************************)
PeersExcept(s, m) == memberIds[s] \ {m}

Overtake(to) ==
  overtaken' = [p \in Members |-> overtaken[p] \/ (p \in to /\ reply[p] # Nothing)]

ViewInit ==
  /\ Init
  /\ told = [m \in Members |-> Nothing]
  /\ viewed = [m \in Members |-> Offline]
  /\ asked = [m \in Members |-> <<>>]
  /\ reply = [m \in Members |-> Nothing]
  /\ overtaken = [m \in Members |-> FALSE]
  /\ reentered = [m \in Members |-> FALSE]

(* broadcast_presence, after what the step has told its space.             *)
PresenceOf(m, views) ==
  [p \in Members |->
     IF p \in Online \ {m} THEN Presence(views[p], m, RosterMember(m)') ELSE views[p]]

(* The welcome goes out before anything queued, and starts the session.    *)
ServeJoin(m) ==
  /\ Join(m)
  /\ told' = PresenceOf(m, [p \in Members |->
       IF p = m THEN InitSession(PeersExcept(Lobby, m), Online)
       ELSE IF p \in memberIds[Lobby] THEN SpaceJoined(told[p], m) ELSE told[p]])
  /\ viewed' = [viewed EXCEPT ![m] = Lobby]
  /\ Overtake(memberIds[Lobby])
  /\ UNCHANGED <<asked, reply, reentered>>

(* The reader has stopped, so it holds no reply.                           *)
ServeLeave(m) ==
  /\ reply[m] = Nothing
  /\ Leave(m)
  /\ told' = [p \in Members |->
       IF p = m THEN Nothing
       ELSE IF p \notin Online THEN told[p]
       ELSE IF p \in memberIds[spaceId[m]] THEN PresenceLeft(SpaceLeft(told[p], m), m)
       ELSE PresenceLeft(told[p], m)]
  /\ viewed' = [viewed EXCEPT ![m] = Offline]
  /\ asked' = [asked EXCEPT ![m] = <<>>]
  /\ Overtake(memberIds[spaceId[m]] \ {m})
  /\ UNCHANGED <<reply, reentered>>

ServeMove(m) ==
  /\ SetPos(m)
  /\ UNCHANGED <<told, viewed, asked, reply, overtaken, reentered>>

ServeStatus(m, on) ==
  /\ SetDnd(m, on)
  /\ told' = PresenceOf(m, told)
  /\ UNCHANGED <<viewed, asked, reply, overtaken, reentered>>

(* A click on the tab of a space other than the one shown.                 *)
Ask(m, s) ==
  /\ m \in Online /\ s # viewed[m]
  /\ Len(asked[m]) < MaxAsks
  /\ asked' = [asked EXCEPT ![m] = Append(@, s)]
  /\ UNCHANGED <<spacesVars, told, viewed, reply, overtaken, reentered>>

(* The reader takes the next request, if it is not still busy with one.    *)
Requested(m, s) ==
  /\ m \in Online
  /\ reply[m] = Nothing
  /\ asked[m] # <<>> /\ s = Head(asked[m])
  /\ asked' = [asked EXCEPT ![m] = Tail(@)]

(* enter_space for another space: all but the mover are told at once.      *)
Enter(m, s) ==
  /\ Requested(m, s)
  /\ EnterSpace(m, s)
  /\ reply' = [reply EXCEPT ![m] = [space |-> s, peers |-> PeersExcept(s, m)]]
  /\ told' = PresenceOf(m, [p \in Members |->
       IF p = m THEN told[p]
       ELSE IF p \in memberIds[spaceId[m]] THEN SpaceLeft(told[p], m)
       ELSE IF p \in memberIds[s] THEN SpaceJoined(told[p], m) ELSE told[p]])
  /\ overtaken' = [p \in Members |->
       p # m /\ (\/ overtaken[p]
                 \/ p \in memberIds[spaceId[m]] \union memberIds[s] /\ reply[p] # Nothing)]
  /\ reentered' = [reentered EXCEPT ![m] = FALSE]
  /\ UNCHANGED viewed

(* enter_space for the space one is in: a fresh snapshot, nothing else.    *)
Reenter(m) ==
  /\ Requested(m, spaceId[m])
  /\ reply' = [reply EXCEPT ![m] = [space |-> spaceId[m], peers |-> PeersExcept(spaceId[m], m)]]
  /\ overtaken' = [overtaken EXCEPT ![m] = FALSE]
  /\ reentered' = [reentered EXCEPT ![m] = TRUE]
  /\ UNCHANGED <<spacesVars, told, viewed>>

(* The space is full: an error, which changes nothing.                     *)
Refuse(m, s) ==
  /\ Requested(m, s)
  /\ s # spaceId[m] /\ Full(s)
  /\ UNCHANGED <<spacesVars, told, viewed, reply, overtaken, reentered>>

(* The reader queues the snapshot it holds.                                *)
Reply(m) ==
  /\ reply[m] # Nothing
  /\ told' = [told EXCEPT ![m] = SpaceSnapshot(@, reply[m])]
  /\ reply' = [reply EXCEPT ![m] = Nothing]
  /\ UNCHANGED <<spacesVars, viewed, asked, overtaken, reentered>>

(* The client has caught up.                                               *)
CatchUp(m) ==
  /\ viewed' = [viewed EXCEPT ![m] = told[m].space]
  /\ UNCHANGED <<spacesVars, told, asked, reply, overtaken, reentered>>

(* A tick tells each member how its own links changed.                     *)
ConnectedTo(m) == {c.id : c \in Connects(links[spaceId[m]], links'[spaceId[m]], m)}

DisconnectedFrom(m) == Disconnects(links[spaceId[m]], links'[spaceId[m]], m)

ServeTick ==
  /\ Tick
  /\ told' = [m \in Members |->
       IF m \in Online THEN Proximity(told[m], ConnectedTo(m), DisconnectedFrom(m))
       ELSE told[m]]
  /\ Overtake({m \in Online : ConnectedTo(m) \union DisconnectedFrom(m) # {}})
  /\ UNCHANGED <<viewed, asked, reply, reentered>>

ViewNext ==
  \/ \E m \in Members : \/ ServeJoin(m) \/ ServeLeave(m) \/ ServeMove(m)
                        \/ Reenter(m) \/ Reply(m) \/ CatchUp(m)
  \/ \E m \in Members, on \in BOOLEAN : ServeStatus(m, on)
  \/ \E m \in Members, s \in SpaceIds : Ask(m, s) \/ Enter(m, s) \/ Refuse(m, s)
  \/ ServeTick

ViewSpec == ViewInit /\ [][ViewNext]_viewVars

(***************************************************************************)
(* Properties.                                                             *)
(***************************************************************************)
Settled(m) == m \in Online /\ reply[m] = Nothing

(* PROTOCOL.md, Isolation guarantee: once its messages are handled, no     *)
(* client keeps an audio link the server does not hold, whatever overtook  *)
(* its snapshot.                                                           *)
NoGhostLinks ==
  \A m \in Members : Settled(m) =>
    /\ told[m].space = spaceId[m]
    /\ told[m].prox \subseteq links[spaceId[m]][m]

(* Deltas alone keep a client exact: as long as nothing was queued between *)
(* enter_space and its snapshot, and it did not re-enter its own space,    *)
(* it holds the server's peers and the server's links, no more, no less.   *)
SpaceExact ==
  \A m \in Members :
    Settled(m) /\ ~overtaken[m] /\ ~reentered[m] =>
      /\ PeersIn(told[m]) = memberIds[spaceId[m]] \ {m}
      /\ told[m].prox = links[spaceId[m]][m]

(* Whatever overtakes what, the roster is exact: everyone online with the  *)
(* space and the status the server has for them, the others listed as      *)
(* offline, and every avatar in the space wears its member's status.       *)
RosterExact ==
  \A m \in Online :
    LET view == told[m]
    IN  /\ DOMAIN view.roster \ view.offline = Online \ {m}
        /\ \A p \in Online \ {m} : view.roster[p] = RosterMember(p)
        /\ \A p \in PeersIn(view) : view.peers[p] = Status(view, p)

ViewExact == SpaceExact /\ RosterExact
=============================================================================
