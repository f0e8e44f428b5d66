-------------------------------- MODULE Floor --------------------------------
(***************************************************************************)
(* One client walking a space: keys and clicks (client/src/input.ts), the  *)
(* demand-driven frame loop (main.ts, loop.ts), the canvas it paints       *)
(* (render.ts), the hints and the board's chat that follow the avatar, the *)
(* idle clock, and the positions the server hears of across space switches.*)
(*                                                                         *)
(* A space is a line of places 0 .. Width; a frame's time is the distance  *)
(* walked in it.  Whether a drag went past the slop of a click on a seat   *)
(* is whether the drag comes.                                              *)
(* Calls are module CallView's; voices and links only keep the loop awake. *)
(***************************************************************************)
EXTENDS Integers, Sequences

CONSTANTS
  Width,
  SendEps,       (* SEND_EPSILON: how far from the position last sent      *)
  Steps,         (* what a frame may walk, once the clock runs             *)
  Clicks,        (* where the user clicks                                  *)
  Seats, HitR,   (* the seats, and how far from one a click is on it       *)
  PeerPlaces,    (* where the one peer may stand                           *)
  NearRadius,
  Spaces, Teams, (* the spaces, and those that are one group place         *)
  RoomPlaces,    (* the places of a meeting room, elsewhere than in Teams  *)
  BoardAt, OpenR, CloseR,
  Spawns,
  Nil,
  MaxInFlight    (* bound: messages on their way, each way                 *)

ASSUME FloorAssumption ==
  /\ Width \in Nat /\ SendEps \in Nat /\ Steps \subseteq Nat \ {0}
  /\ OpenR \in Nat /\ CloseR \in Nat /\ OpenR <= CloseR
  /\ HitR \in Nat
  /\ (Clicks \union Seats \union PeerPlaces \union Spawns \union RoomPlaces \union {BoardAt})
       \subseteq 0 .. Width
  /\ Nil \notin Int /\ Teams \subseteq Spaces

VARIABLES
  c,          (* the client's memory, see ClientType                       *)
  srv,        (* the server's member: its space and position               *)
  toServer,   (* move and enter_space on their way                         *)
  toClient,   (* space_snapshot and notes on their way                     *)
  drawn,      (* history: the canvas shows what is so now                  *)
  crossed     (* history: the last move sent crossed an enter_space        *)

floorVars == <<c, srv, toServer, toClient, drawn, crossed>>

Places == 0 .. Width

Directions == {"left", "right"}

Dist(p, q) == IF p < q THEN q - p ELSE p - q

Clamp(p) == IF p < 0 THEN 0 ELSE IF p > Width THEN Width ELSE p

InRoom(s, p) == s \notin Teams /\ p \in RoomPlaces

InGroupPlace(s, p) == s \in Teams \/ p \in RoomPlaces

(***************************************************************************)
(* The loop.  running: a frame is being made, and a wake only marks it.    *)
(***************************************************************************)
Wake(v) == [v EXCEPT !.dirty = TRUE, !.scheduled = @ \/ ~v.running]

ResetIdleTimer(v) == [v EXCEPT !.idle = TRUE]

(* The roster is rebuilt, and wakes the loop when our status changed.      *)
MarkActive(v) ==
  ResetIdleTimer(IF v.away THEN Wake([v EXCEPT !.away = FALSE]) ELSE v)

OnInputActivity(v) == Wake(MarkActive(v))

(***************************************************************************)
(* The board and its chat.                                                 *)
(***************************************************************************)
(* Opening with a chat to show marks it read, which repaints the badge.    *)
SetChatOpen(v, open, byWalk) ==
  LET set == [v EXCEPT !.chatByWalk = open /\ byWalk, !.chatOpen = open]
  IN  IF open /\ ~v.chatOpen /\ v.notes THEN Wake(set) ELSE set

BoardOpen(wasOpen, dist) == dist <= (IF wasOpen THEN CloseR ELSE OpenR)

UpdateBoardProximity(v) ==
  LET near == v.notes /\ BoardOpen(v.nearBoard, Dist(v.pos, BoardAt))
      came == [v EXCEPT !.nearBoard = near]
  IN  IF near = v.nearBoard THEN v
      ELSE IF near THEN IF v.chatOpen THEN came ELSE SetChatOpen(came, TRUE, TRUE)
      ELSE IF v.chatByWalk THEN SetChatOpen(came, FALSE, FALSE) ELSE came

(***************************************************************************)
(* Walking.  timed: the time of the last frame is known.                   *)
(***************************************************************************)
Velocity(v) ==
  (IF "right" \in v.keys THEN 1 ELSE 0) - (IF "left" \in v.keys THEN 1 ELSE 0)

Toward(p, q, step) ==
  IF Dist(p, q) <= step THEN q ELSE IF p < q THEN p + step ELSE p - step

Walked(v, step) ==
  IF Velocity(v) # 0 THEN Clamp(v.pos + Velocity(v) * step)
  ELSE IF v.target # Nil THEN Toward(v.pos, v.target, step)
  ELSE v.pos

(* How far this frame takes us: the first one of a walk starts the clock.  *)
StepsOf(v) == IF v.timed /\ (Velocity(v) # 0 \/ v.target # Nil) THEN Steps ELSE {0}

(* Keys win over a click; a click's walk ends on arrival.                  *)
Step(v, step) ==
  LET to == Walked(v, step)
  IN  UpdateBoardProximity(
        [v EXCEPT !.pos = to, !.timed = TRUE,
                  !.target = IF Velocity(v) # 0 \/ to = @ THEN Nil ELSE @])

Moving(v) == Velocity(v) # 0 \/ v.target # Nil

(* Mutant of MaySend: the last position waits for the throttle too.        *)
Throttled(v) == IF Dist(v.pos, v.sent) > SendEps THEN BOOLEAN ELSE {FALSE}

(* While we move the throttle decides.                                     *)
MaySend(v) ==
  IF Dist(v.pos, v.sent) <= SendEps THEN {FALSE} ELSE IF Moving(v) THEN BOOLEAN ELSE {TRUE}

(* Where a press of the pointer sends us: the closest seat under it, if    *)
(* any (closest by CHOOSE), or the floor there.                            *)
SeatAt(p) ==
  LET hit == {s \in Seats : Dist(s, p) <= HitR}
  IN  IF hit = {} THEN p ELSE CHOOSE s \in hit : \A r \in hit : Dist(s, p) <= Dist(r, p)

SetMoveTarget(v, p) ==
  OnInputActivity(
    [v EXCEPT !.target = p, !.timed = @ /\ ~(v.keys = {} /\ v.target = Nil)])

(***************************************************************************)
(* What a frame shows.                                                     *)
(***************************************************************************)
Muted(v) == v.mic # "live" /\ v.mic # "asking"

(* spatialGain > 0: the room's wall first, then the distance.              *)
Hears(s, p, q) ==
  IF InRoom(s, p) \/ InRoom(s, q) THEN InRoom(s, p) /\ InRoom(s, q)
  ELSE Dist(p, q) < NearRadius

SomeoneInRange(v) == v.peer # Nil /\ Hears(v.space, v.pos, v.peer)

Nudged(v) == Muted(v) /\ SomeoneInRange(v)

UpdateHints(v) ==
  [v EXCEPT !.nudge = Nudged(v), !.room = InRoom(v.space, v.pos),
            !.place = InGroupPlace(v.space, v.pos)]

(* Mutant of Draw: a walk's marker is no animation.                        *)
DrawStill(v, eases) == [v EXCEPT !.dirty = FALSE, !.active = eases]

(* eases: the entrance swing, or a peer gliding, fading in or out, goes on.*)
Draw(v, eases) == [v EXCEPT !.dirty = FALSE, !.active = eases \/ v.target # Nil]

(* What the canvas is meant to show.                                       *)
Picture(v) == <<v.up, v.space, v.pos, v.target, v.peer, v.away, v.mic = "live">>

(* A step of the client that draws nothing.                                *)
Handled(v) == c' = v /\ drawn' = (drawn /\ Picture(v) = Picture(c))

(***************************************************************************)
(* The session.                                                            *)
(***************************************************************************)
Down ==
  [up |-> FALSE, space |-> Nil, pos |-> 0, sent |-> 0, target |-> Nil, keys |-> {},
   timed |-> FALSE, dirty |-> FALSE, scheduled |-> FALSE, running |-> FALSE,
   active |-> FALSE, peer |-> Nil, mic |-> "muted", away |-> FALSE,
   idle |-> FALSE, notes |-> FALSE, chatOpen |-> FALSE, chatByWalk |-> FALSE,
   nearBoard |-> FALSE, nudge |-> FALSE, room |-> FALSE, place |-> FALSE]

ClientType ==
  [up : BOOLEAN, space : Spaces \union {Nil}, pos : Places, sent : Places,
   target : Clicks \union Seats \union {Nil}, keys : SUBSET Directions, timed : BOOLEAN,
   dirty : BOOLEAN, scheduled : BOOLEAN, running : {FALSE}, active : BOOLEAN,
   peer : PeerPlaces \union {Nil}, mic : {"muted", "asking", "live"},
   away : BOOLEAN, idle : BOOLEAN, notes : BOOLEAN, chatOpen : BOOLEAN,
   chatByWalk : BOOLEAN, nearBoard : BOOLEAN, nudge : BOOLEAN, room : BOOLEAN,
   place : BOOLEAN]

FloorInit ==
  /\ c = Down /\ srv = [space |-> Nil, pos |-> 0]
  /\ toServer = <<>> /\ toClient = <<>>
  /\ drawn = TRUE /\ crossed = FALSE

(* The room fades in from its corner view; what is on screen is old.       *)
Shown(v, s, p, peer) ==
  [v EXCEPT !.space = s, !.pos = p, !.sent = p, !.target = Nil, !.peer = peer]

(* One joins in the lobby.                                                 *)
StartSession(s, p, peer) ==
  /\ ~c.up /\ s \notin Teams
  /\ c' = Wake(ResetIdleTimer([Shown(Down, s, p, peer) EXCEPT !.up = TRUE]))
  /\ srv' = [space |-> s, pos |-> p]
  /\ toClient' = <<[t |-> "notes", space |-> s]>>
  /\ drawn' = FALSE
  /\ UNCHANGED <<toServer, crossed>>

(* dirty alone outlives a session.                                         *)
TeardownSession ==
  /\ c.up
  /\ c' = [Down EXCEPT !.dirty = c.dirty]
  /\ srv' = [space |-> Nil, pos |-> 0]
  /\ toServer' = <<>> /\ toClient' = <<>>
  /\ drawn' = TRUE /\ crossed' = FALSE

(***************************************************************************)
(* The user.                                                               *)
(***************************************************************************)
network == <<srv, toServer, toClient, crossed>>

KeyDown(k) ==
  /\ c.up /\ k \notin c.keys
  /\ LET held == [c EXCEPT !.keys = @ \union {k}]
     IN  Handled(IF c.keys = {} THEN OnInputActivity([held EXCEPT !.timed = FALSE]) ELSE held)
  /\ UNCHANGED network

KeyUp(k) ==
  /\ c.up /\ k \in c.keys
  /\ Handled([c EXCEPT !.keys = @ \ {k}])
  /\ UNCHANGED network

(* On a peer that may be paged, it is paged (module CallView).             *)
PointerDown(p) ==
  /\ c.up
  /\ \/ c.peer = p /\ Handled(Wake(MarkActive(c)))
     \/ Handled(SetMoveTarget(c, SeatAt(p)))
  /\ UNCHANGED network

Drag(p) ==
  /\ c.up
  /\ Handled(SetMoveTarget(c, p))
  /\ UNCHANGED network

(* From the board on the wall, or the button.                              *)
OnSetChatOpen(open) ==
  /\ c.up
  /\ Handled(SetChatOpen(c, open, FALSE))
  /\ UNCHANGED network

HandleEnterSpace(s) ==
  /\ c.up /\ s # c.space
  /\ Len(toServer) < MaxInFlight
  /\ Handled(MarkActive(c))
  /\ toServer' = Append(toServer, [t |-> "enter", space |-> s])
  /\ UNCHANGED <<srv, toClient, crossed>>

(* The microphone may have to be asked for, or be held already.            *)
HandleMicToggle(mic) ==
  /\ c.up /\ mic \in IF Muted(c) THEN {"asking", "live"} ELSE {"muted"}
  /\ LET pressed == [MarkActive(c) EXCEPT !.mic = mic]
     IN  Handled(IF mic = "asking" THEN pressed ELSE Wake(pressed))
  /\ UNCHANGED network

MicLands(granted) ==
  /\ c.up /\ c.mic = "asking"
  /\ Handled(Wake([c EXCEPT !.mic = IF granted THEN "live" ELSE "muted"]))
  /\ UNCHANGED network

HandleSetStatus(away) ==
  /\ c.up
  /\ LET set == [c EXCEPT !.away = away, !.idle = ~away]
     IN  Handled(IF away # c.away THEN Wake(set) ELSE set)
  /\ UNCHANGED network

GoAway ==
  /\ c.up /\ c.idle
  /\ Handled(IF c.away THEN [c EXCEPT !.idle = FALSE]
             ELSE Wake([c EXCEPT !.idle = FALSE, !.away = TRUE]))
  /\ UNCHANGED network

(* A hover, a resize, the light of the hour, a decoded face.               *)
Repaint ==
  /\ c.up
  /\ c' = Wake(c) /\ drawn' = FALSE
  /\ UNCHANGED network

(***************************************************************************)
(* The server and its messages.                                            *)
(***************************************************************************)
ServerReads ==
  /\ toServer # <<>>
  /\ toServer' = Tail(toServer)
  /\ UNCHANGED <<c, drawn, crossed>>

SetPos ==
  /\ ServerReads /\ Head(toServer).t = "move"
  /\ srv' = [srv EXCEPT !.pos = Head(toServer).pos]
  /\ UNCHANGED toClient

(* The answer, and the notes after it; or an error, which changes nothing. *)
EnterSpace(spawn, full) ==
  /\ ServerReads /\ Head(toServer).t = "enter"
  /\ Len(toClient) + 2 <= MaxInFlight
  /\ LET to == Head(toServer).space
     IN  /\ full => to # srv.space
         /\ srv' = IF to = srv.space \/ full THEN srv ELSE [space |-> to, pos |-> spawn]
         /\ toClient' =
              IF full THEN toClient
              ELSE toClient \o <<[t |-> "snapshot", space |-> to, pos |-> srv'.pos],
                                 [t |-> "notes", space |-> to]>>

ClientReads(t) ==
  /\ toClient # <<>> /\ Head(toClient).t = t
  /\ toClient' = Tail(toClient)
  /\ UNCHANGED <<srv, toServer, crossed>>

OnSpaceSnapshot(peer) ==
  /\ ClientReads("snapshot")
  /\ LET m == Head(toClient)
         cleared == [c EXCEPT !.notes = FALSE, !.nearBoard = FALSE]
     IN  /\ c' = Wake(UpdateBoardProximity(Shown(cleared, m.space, m.pos, peer)))
         /\ drawn' = FALSE

(* Mutant of OnNotes: where we stand is not looked at again.               *)
NotesOnly ==
  /\ ClientReads("notes")
  /\ Handled(IF Head(toClient).space = c.space
               THEN Wake([c EXCEPT !.notes = TRUE]) ELSE c)

OnNotes ==
  /\ ClientReads("notes")
  /\ Handled(IF Head(toClient).space = c.space
               THEN UpdateBoardProximity(Wake([c EXCEPT !.notes = TRUE])) ELSE c)

(* space_joined, a changed state, space_left.                              *)
OnPeer(place) ==
  /\ c.up /\ place # c.peer
  /\ Handled(Wake([c EXCEPT !.peer = place]))
  /\ UNCHANGED network

(***************************************************************************)
(* A frame.  heard: nothing, open links, voices on the canvas (or a slow   *)
(* effect), or our own voice among them.                                   *)
(***************************************************************************)
EnterInFlight ==
  \/ \E i \in DOMAIN toServer : toServer[i].t = "enter"
  \/ \E i \in DOMAIN toClient : toClient[i].t = "snapshot"

KeepAwake(v, heard) == Moving(v) \/ heard # "nothing" \/ v.active \/ ~Muted(v)

ShouldDraw(v, heard) == Moving(v) \/ heard \in {"voices", "us"} \/ v.active \/ v.dirty

Send(v) ==
  /\ Len(toServer) < MaxInFlight
  /\ toServer' = Append(toServer, [t |-> "move", pos |-> v.pos])
  /\ crossed' = EnterInFlight

Frame(heard) ==
  /\ c.scheduled
  /\ heard = "us" => c.mic = "live"
  /\ \E step \in StepsOf(c) :
       LET walked == Step([c EXCEPT !.scheduled = FALSE, !.running = TRUE], step)
       IN  \E sends \in MaySend(walked) :
             LET sent == IF sends THEN [walked EXCEPT !.sent = walked.pos] ELSE walked
                 spoke == IF heard = "us" THEN MarkActive(sent) ELSE sent
                 draws == ShouldDraw(spoke, heard)
             IN  \E eases \in IF draws THEN BOOLEAN ELSE {FALSE} :
                   LET painted == IF draws THEN Draw(spoke, eases) ELSE spoke
                   IN  /\ c' = [UpdateHints(painted) EXCEPT
                                  !.running = FALSE, !.scheduled = KeepAwake(painted, heard)]
                       /\ drawn' = (draws \/ (drawn /\ Picture(painted) = Picture(c)))
                       /\ IF sends THEN Send(walked) ELSE UNCHANGED <<toServer, crossed>>
  /\ UNCHANGED <<srv, toClient>>

FloorNext ==
  \/ \E s \in Spaces, p \in Spawns, peer \in PeerPlaces \union {Nil} : StartSession(s, p, peer)
  \/ TeardownSession
  \/ \E k \in Directions : KeyDown(k) \/ KeyUp(k)
  \/ \E p \in Clicks : PointerDown(p) \/ Drag(p)
  \/ \E on \in BOOLEAN : OnSetChatOpen(on) \/ MicLands(on) \/ HandleSetStatus(on)
  \/ \E s \in Spaces : HandleEnterSpace(s)
  \/ \E mic \in {"muted", "asking", "live"} : HandleMicToggle(mic)
  \/ GoAway \/ Repaint \/ SetPos \/ OnNotes
  \/ \E p \in Spawns, full \in BOOLEAN : EnterSpace(p, full)
  \/ \E peer \in PeerPlaces \union {Nil} : OnSpaceSnapshot(peer) \/ OnPeer(peer)
  \/ \E heard \in {"nothing", "links", "voices", "us"} : Frame(heard)

FloorSpec == FloorInit /\ [][FloorNext]_floorVars

-----------------------------------------------------------------------------
(***************************************************************************)
(* When no frame is to come, the canvas shows what is so, nothing on it is *)
(* half way, and the hints are those of where we stand: no handler may     *)
(* change what is seen without waking the loop, and no wake may be lost,   *)
(* in a frame or out of one (wake and runFrame, main.ts:1898-1964).  While *)
(* the microphone is being asked for, the nudge may be the old one.  And   *)
(* the idle clock runs exactly while we are not away (main.ts:2038-2067).  *)
(***************************************************************************)
AsleepIsCurrent ==
  c.up =>
    /\ c.idle = ~c.away
    /\ ~c.scheduled =>
         /\ drawn /\ ~c.active /\ ~c.dirty
         /\ c.mic # "asking" => c.nudge = Nudged(c)
         /\ c.room = InRoom(c.space, c.pos) /\ c.place = InGroupPlace(c.space, c.pos)

AtRest ==
  /\ c.up /\ ~c.scheduled
  /\ toServer = <<>> /\ ~EnterInFlight

(***************************************************************************)
(* Once we stand still and all is delivered, the server has us, and shows  *)
(* us to the peers, where we are (input.ts:196-209): unless the last move  *)
(* was sent while an enter_space was on its way.                           *)
(***************************************************************************)
PeersSeeUs ==
  AtRest /\ ~crossed => srv.space = c.space /\ Dist(srv.pos, c.pos) <= SendEps

(***************************************************************************)
(* The board knows whether we stand at it, whatever the order of walking,  *)
(* switching and notes arriving, and a chat that closes by walking off is  *)
(* open (main.ts:427-477).                                                 *)
(***************************************************************************)
ChatAtBoard ==
  c.up =>
    /\ c.chatByWalk => c.chatOpen
    /\ c.nearBoard => c.notes /\ Dist(c.pos, BoardAt) <= CloseR
    /\ c.notes /\ ~c.nearBoard => Dist(c.pos, BoardAt) > OpenR
=============================================================================
