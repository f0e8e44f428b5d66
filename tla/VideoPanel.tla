----------------------------- MODULE VideoPanel -----------------------------
(***************************************************************************)
(* The video panel of one client: the videos its engine hears of           *)
(* (client/src/audio.ts), those its session remembers and shows            *)
(* (client/src/main.ts), and where each goes (client/src/videolayout.ts).  *)
(* The panel is drawn by syncVideoViews alone and kept until it runs again.*)
(*                                                                         *)
(* When our own capture starts and ends is module LocalVideo's; here it    *)
(* does so at any time.  A peer's video is a track, which the browser      *)
(* brings, and a label, which the peer signals: either may come first.     *)
(***************************************************************************)
EXTENDS Naturals, Sequences, FiniteSets

CONSTANTS
  Peers,   (* the other clients                                            *)
  Local,   (* LOCAL_VIDEO, the key of our own video                        *)
  Nobody   (* no video is picked                                           *)

ASSUME PanelAssumption == Local \notin Peers

VARIABLES
  inSession,  (* is there a session?                                       *)
  conn,       (* the engine's: [peer -> its connection]                    *)
  capture,    (* the engine's: what we send, "off", "screen" or "camera"   *)
  remotes,    (* Session.remoteVideos, in the order of the Map             *)
  dismissed,  (* Session.screenDismissed                                   *)
  picked,     (* Session.pickedVideo: a key, or Nobody                     *)
  panel,      (* what is drawn: the stage, the corner and the tiles        *)
  reopen,     (* is the button offered that brings the panel back?         *)
  hungUp      (* history: peers whose video a page_end took off, and who   *)
              (* have not labelled one since                               *)

panelVars == <<inSession, conn, capture, remotes, dismissed, picked, panel, reopen, hungUp>>

Modes == {"screen", "camera"}

Video(key, mode) == [key |-> key, mode |-> mode]
Videos == [key : Peers \union {Local}, mode : Modes \union {"none"}]
Keys(videos) == {videos[i].key : i \in DOMAIN videos}

NoConn == [links |-> {}, track |-> FALSE, label |-> "none"]

Calls(c) == {p \in Peers : "page" \in c[p].links}

(* Array.filter: those of the videos that are in S, in their order.        *)
Where(videos, S) ==
  LET kept[n \in 0 .. Len(videos)] ==
        IF n = 0 THEN <<>>
        ELSE IF videos[n] \in S THEN Append(kept[n - 1], videos[n])
        ELSE kept[n - 1]
  IN  kept[Len(videos)]

(***************************************************************************)
(* What is shown, and where.                                               *)
(***************************************************************************)
(* Every peer's video, or only the call's when the call has any; then ours.*)
ShownVideos(videos, c, own) ==
  LET call == Where(videos, {v \in Videos : v.key \in Calls(c)})
  IN  (IF call # <<>> THEN call ELSE videos)
        \o (IF own = "off" THEN <<>> ELSE <<Video(Local, own)>>)

(* The stage goes to the first of: the pick, a peer's screen, our own, and *)
(* the only peer's camera or else ours.                                    *)
Stages(videos, pick) ==
  LET chosen == {v \in Videos : v.key = pick}
      screens == {v \in Videos : v.mode = "screen"}
      peers == Where(videos, {v \in Videos : v.key # Local})
      few == IF Len(peers) > 1 THEN <<>> ELSE peers \o videos
  IN  Where(videos, chosen) \o Where(peers, screens) \o Where(videos, screens) \o few

LayoutVideos(videos, pick) ==
  LET stages == Stages(videos, pick)
      rest == Where(videos, Videos \ {Head(stages)})
  IN  IF stages = <<>> THEN [stage |-> <<>>, pip |-> <<>>, tiles |-> videos]
      ELSE IF Len(rest) = 1 THEN [stage |-> <<Head(stages)>>, pip |-> rest, tiles |-> <<>>]
      ELSE [stage |-> <<Head(stages)>>, pip |-> <<>>, tiles |-> rest]

Hidden == [stage |-> <<>>, pip |-> <<>>, tiles |-> <<>>]

SetVideoPanel(view) == panel' = view

SetScreenReopenVisible(visible) == reopen' = visible

(* Of the videos, connections and capture after the step.                  *)
SyncVideoViews(dis, pick) ==
  LET videos == ShownVideos(remotes', conn', capture')
  IN  /\ picked' = IF pick \in Keys(videos) THEN pick ELSE Nobody
      /\ dismissed' = (dis /\ Keys(videos) \ {Local} # {})
      /\ SetScreenReopenVisible(dismissed')
      /\ SetVideoPanel(IF dismissed' THEN Hidden ELSE LayoutVideos(videos, picked'))

(***************************************************************************)
(* Session.remoteVideos.                                                   *)
(***************************************************************************)
Without(videos, keys) == Where(videos, {v \in Videos : v.key \notin keys})

(* Map.set: a peer shown already keeps its place.                          *)
With(videos, p, mode) ==
  IF p \in Keys(videos)
  THEN [i \in DOMAIN videos |-> IF videos[i].key = p THEN Video(p, mode) ELSE videos[i]]
  ELSE Append(videos, Video(p, mode))

(* Connections from which reason was taken; the last one closes them.      *)
Unlinked(ps, reason) ==
  [p \in Peers |->
     IF p \notin ps THEN conn[p]
     ELSE IF conn[p].links \subseteq {reason} THEN NoConn
     ELSE [conn[p] EXCEPT !.links = @ \ {reason}]]

(* The videos of those a step closes, which _closePeer reports gone.       *)
Closed(ps, reason) == {p \in ps : conn[p].track /\ conn[p].links \subseteq {reason}}

(* A place's share ends with the place, a call's with the last call.       *)
MayStop == capture' \in {capture, "off"}

PanelInit ==
  /\ inSession = FALSE
  /\ conn = [p \in Peers |-> NoConn]
  /\ capture = "off" /\ remotes = <<>>
  /\ dismissed = FALSE /\ picked = Nobody
  /\ panel = Hidden /\ reopen = FALSE
  /\ hungUp = {}

(* initSession *)
StartSession ==
  /\ ~inSession /\ inSession' = TRUE
  /\ dismissed' = FALSE /\ picked' = Nobody /\ remotes' = <<>>
  /\ SetVideoPanel(Hidden)
  /\ UNCHANGED <<conn, capture, reopen, hungUp>>

(* The engine reports each video gone to a session that is there no more.  *)
TeardownSession ==
  /\ inSession /\ inSession' = FALSE
  /\ conn' = [p \in Peers |-> NoConn] /\ capture' = "off" /\ hungUp' = {}
  /\ UNCHANGED <<remotes, dismissed, picked, panel, reopen>>

(***************************************************************************)
(* The server's messages.                                                  *)
(***************************************************************************)
LinkedFor(p, reason) == [conn EXCEPT ![p].links = @ \union {reason}]

Connect(p) ==
  /\ inSession /\ conn' = LinkedFor(p, "proximity")
  /\ UNCHANGED <<inSession, capture, remotes, dismissed, picked, panel, reopen, hungUp>>

(* Mutant of PageConnect: the panel is not drawn again.                    *)
PageConnectQuietly(p) ==
  /\ inSession /\ conn' = LinkedFor(p, "page")
  /\ UNCHANGED <<inSession, capture, remotes, dismissed, picked, panel, reopen, hungUp>>

PageConnect(p) ==
  /\ inSession /\ conn' = LinkedFor(p, "page") /\ MayStop
  /\ UNCHANGED <<inSession, remotes, hungUp>>
  /\ SyncVideoViews(dismissed, picked)

(* Those whose video goes are reported, and the panel is drawn again.      *)
ProximityGone(ps) ==
  /\ conn' = Unlinked(ps, "proximity")
  /\ remotes' = Without(remotes, Closed(ps, "proximity"))
  /\ hungUp' = {p \in hungUp : conn'[p].links # {}}

DisconnectProximity(p) ==
  /\ inSession /\ ProximityGone({p})
  /\ UNCHANGED <<inSession, capture>>
  /\ IF Closed({p}, "proximity") # {} THEN SyncVideoViews(dismissed, picked)
     ELSE UNCHANGED <<dismissed, picked, panel, reopen>>

(* space_snapshot: all of them, and our share for the place.               *)
DisconnectAllProximity ==
  /\ inSession /\ ProximityGone(Peers) /\ MayStop
  /\ UNCHANGED inSession
  /\ IF Closed(Peers, "proximity") # {} \/ capture' # capture THEN SyncVideoViews(dismissed, picked)
     ELSE UNCHANGED <<dismissed, picked, panel, reopen>>

(* A call or a ring with p ends: page_end does not tell them apart.        *)
PageEnd(p) ==
  /\ inSession
  /\ conn' = Unlinked({p}, "page") /\ MayStop
  /\ remotes' = Without(remotes, {p})
  /\ hungUp' = {q \in hungUp \union {p} : conn'[q].links # {}}
  /\ UNCHANGED inSession
  /\ SyncVideoViews(dismissed, picked)

HandleHangUp ==
  /\ inSession /\ Calls(conn) # {}
  /\ conn' = Unlinked(Calls(conn), "page") /\ MayStop
  /\ remotes' = Without(remotes, Calls(conn))
  /\ hungUp' = {q \in hungUp \union Calls(conn) : conn'[q].links # {}}
  /\ UNCHANGED inSession
  /\ SyncVideoViews(FALSE, picked)

(***************************************************************************)
(* Videos.                                                                 *)
(***************************************************************************)
HandleRemoteVideo(p, mode) ==
  /\ remotes' = With(remotes, p, mode)
  /\ SyncVideoViews(dismissed, picked)

VideoGone(p) ==
  /\ remotes' = Without(remotes, {p})
  /\ SyncVideoViews(dismissed, picked)

(* The track comes before its label, or after.                             *)
Track(p) ==
  /\ inSession /\ conn[p].links # {} /\ ~conn[p].track
  /\ conn' = [conn EXCEPT ![p].track = TRUE]
  /\ UNCHANGED <<inSession, capture>>
  /\ HandleRemoteVideo(p, conn[p].label)
  /\ hungUp' = hungUp \ {p}

TrackEnded(p) ==
  /\ inSession /\ conn[p].track
  /\ conn' = [conn EXCEPT ![p].track = FALSE]
  /\ UNCHANGED <<inSession, capture, hungUp>>
  /\ VideoGone(p)

(* The "video-mode" signal; that the peer has stopped leaves us the track. *)
VideoMode(p, mode) ==
  /\ inSession /\ conn[p].links # {}
  /\ conn' = [conn EXCEPT ![p].label = mode]
  /\ hungUp' = hungUp \ {p}
  /\ UNCHANGED <<inSession, capture>>
  /\ IF ~conn[p].track THEN UNCHANGED <<remotes, dismissed, picked, panel, reopen>>
     ELSE IF mode = "none" THEN VideoGone(p)
     ELSE HandleRemoteVideo(p, mode)

HandleLocalVideo(mode) ==
  /\ inSession /\ mode # capture /\ capture' = mode
  /\ UNCHANGED <<inSession, conn, remotes, hungUp>>
  /\ SyncVideoViews(dismissed /\ mode = "off", picked)

(***************************************************************************)
(* The user at the panel.                                                  *)
(***************************************************************************)
Drawn == panel.stage \o panel.pip \o panel.tiles

(* Closing a panel of nothing but our own video stops sending it.          *)
HandleCloseScreenShare ==
  /\ inSession /\ Drawn # <<>>
  /\ UNCHANGED <<inSession, conn, remotes, hungUp>>
  /\ IF Keys(ShownVideos(remotes, conn, capture)) \ {Local} = {}
     THEN capture' = "off" /\ SyncVideoViews(dismissed, picked)
     ELSE UNCHANGED capture /\ SyncVideoViews(TRUE, Nobody)

HandleReopenScreenShare ==
  /\ inSession /\ reopen
  /\ UNCHANGED <<inSession, conn, capture, remotes, hungUp>>
  /\ SyncVideoViews(FALSE, picked)

(* The corner, or a tile of the strip.                                     *)
HandleVideoClick(key) ==
  /\ inSession /\ panel.stage # <<>> /\ key \in Keys(panel.pip \o panel.tiles)
  /\ UNCHANGED <<inSession, conn, capture, remotes, hungUp>>
  /\ SyncVideoViews(dismissed, key)

PanelNext ==
  \/ StartSession \/ TeardownSession \/ DisconnectAllProximity \/ HandleHangUp
  \/ HandleCloseScreenShare \/ HandleReopenScreenShare
  \/ \E p \in Peers :
       \/ Connect(p) \/ PageConnect(p) \/ DisconnectProximity(p) \/ PageEnd(p)
       \/ Track(p) \/ TrackEnded(p)
  \/ \E p \in Peers, mode \in Modes \union {"none"} : VideoMode(p, mode)
  \/ \E mode \in Modes \union {"off"} : HandleLocalVideo(mode)
  \/ \E key \in Peers \union {Local} : HandleVideoClick(key)

PanelSpec == PanelInit /\ [][PanelNext]_panelVars

(***************************************************************************)
(* Properties.                                                             *)
(***************************************************************************)
Live(p) == conn[p].track /\ conn[p].label # "none"

(* Every live video reaches the session, except one taken off by the end   *)
(* of a call or of a ring with the same peer (see README.md).              *)
NoVideoLost == \A p \in Peers : Live(p) /\ p \notin hungUp => p \in Keys(remotes)

(* No video stays whose connection or track is gone: no frozen frame.      *)
NoFrozenFrame == \A p \in Keys(remotes) : conn[p].track

(* Nothing a drawn panel depends on has changed since it was drawn; each   *)
(* video has exactly one place in it; and while videos are kept from the   *)
(* user, the button that brings them back is there.                        *)
PanelCurrent ==
  LET videos == ShownVideos(remotes, conn, capture)
  IN  /\ Drawn = <<>> <=> videos = <<>> \/ dismissed
      /\ Drawn # <<>> => /\ Len(Drawn) = Len(videos)
                         /\ \A i \in DOMAIN videos : \E j \in DOMAIN Drawn : Drawn[j] = videos[i]
      /\ dismissed => reopen /\ Keys(videos) \ {Local} # {}

PanelSound == inSession => NoVideoLost /\ NoFrozenFrame /\ PanelCurrent

(* index.html, of the panel: "Hidden when no video is live."               *)
HiddenWhenNothingLive == capture = "off" /\ (\A p \in Peers : ~conn[p].track) => Drawn = <<>>
=============================================================================
