----------------------------- MODULE LocalVideo -----------------------------
(***************************************************************************)
(* The screen share and the camera of client/src/audio.ts, with the checks *)
(* client/src/main.ts makes around them.  Each operator takes the video    *)
(* `v` and the links.                                                      *)
(*                                                                         *)
(* An attempt a stands for one press of a button and the capture it may    *)
(* become; videoEpoch is modelled by `current`, the attempt it belongs to. *)
(* The camera's background effect is on or off, whichever it is.           *)
(***************************************************************************)
EXTENDS Microphone

CONSTANTS Attempts

VideoInit ==
  [mode |-> "off", scope |-> "call",
   pending |-> "off",      (* pendingVideoMode                             *)
   current |-> None,       (* whose epoch videoEpoch is                    *)
   stage |-> [a \in Attempts |-> "none"],
   kind |-> [a \in Attempts |-> "off"],
   asked |-> [a \in Attempts |-> {}],      (* page peers at the press;     *)
   place |-> [a \in Attempts |-> FALSE],   (* or the place we still are in *)
   open |-> {},            (* captures the operating system shows          *)
   live |-> None,          (* the capture that is sent                     *)
   source |-> None,        (* cameraSource                                 *)
   wanted |-> FALSE, effect |-> FALSE, making |-> {},  (* the background   *)
   to |-> {},              (* peers with a video sender                    *)
   here |-> FALSE, there |-> {}]           (* who stands in a group place  *)

Called(link) == {p \in Peers : "page" \in link[p]}

VideoAudience(v, link) ==
  IF v.scope = "call" THEN Called(link)
  ELSE {p \in v.there : "proximity" \in link[p] /\ v.here}

StopVideo(v) ==
  [v EXCEPT !.mode = "off", !.to = {}, !.open = @ \ {v.live, v.source},
            !.live = None, !.source = None, !.effect = FALSE]

CancelVideoAcquire(v, kinds) ==
  IF v.pending \in kinds THEN [v EXCEPT !.pending = "off", !.current = None] ELSE v

EndVideo(v) ==
  LET w == CancelVideoAcquire(v, {"screen", "camera"})
  IN  IF w.mode # "off" THEN StopVideo(w) ELSE w

(* stopScreenShare, stopCamera *)
StopKind(v, kind) ==
  LET w == CancelVideoAcquire(v, {kind})
  IN  IF w.mode = kind THEN StopVideo(w) ELSE w

ReasonGone(v, link) ==
  IF v.scope = "call" THEN ~Paging(link) ELSE Paging(link) \/ ~v.here

(* _addVideoTrack, _removeVideoTrack: one sender for each of the audience. *)
VideoSenders(v, link) == IF v.mode = "off" THEN {} ELSE VideoAudience(v, link)

SyncVideoLinks(v, link) ==
  LET w == IF ReasonGone(v, link) THEN EndVideo(v) ELSE v
  IN  [w EXCEPT !.to = VideoSenders(w, link)]

VideoDropPeers(v, link) == [v EXCEPT !.to = @ \intersect Linked(link)]

(* _startVideo: what the new video replaces is stopped, except a camera    *)
(* that goes on under its effect.                                          *)
StartVideo(v, link, kind, a) ==
  LET over == {v.live} \union (IF kind = "screen" THEN {v.source} ELSE {})
      w == [v EXCEPT !.mode = kind, !.live = a, !.open = @ \ (over \ {a}),
                     !.source = IF kind = "screen" THEN None ELSE @,
                     !.effect = IF kind = "screen" THEN FALSE ELSE @]
  IN  SyncVideoLinks(w, link)

(***************************************************************************)
(* An attempt.                                                             *)
(***************************************************************************)
(* shareTarget and videoTargetHolds *)
TargetHolds(v, link, a) ==
  IF v.asked[a] # {} THEN v.asked[a] \intersect Called(link) # {}
  ELSE ~Paging(link) /\ v.place[a] /\ v.here

HasTarget(v, link) == Paging(link) \/ v.here

(* _beginVideoAcquire *)
BeginVideoAcquire(v, link, a) ==
  [v EXCEPT !.pending = v.kind[a], !.current = a, !.stage[a] = "asked",
            !.scope = IF Paging(link) THEN "call" ELSE "place"]

Press(v, link, a, kind) ==
  [v EXCEPT !.kind[a] = kind, !.asked[a] = Called(link), !.place[a] = TRUE]

(* The end of an attempt, with its `finally`.                              *)
Over(v, a) ==
  [v EXCEPT !.stage[a] = "none", !.asked[a] = {}, !.place[a] = FALSE,
            !.kind[a] = "off", !.pending = IF v.current = a THEN "off" ELSE @]

Stopped(v, a) == [Over(v, a) EXCEPT !.open = @ \ {a}]

(* handleScreenShareToggle asks for the permission first.                  *)
HandleScreenShareToggle(v, link, a) ==
  IF v.mode = "screen" THEN StopKind(v, "screen")
  ELSE IF ~HasTarget(v, link) THEN v
  ELSE [Press(v, link, a, "screen") EXCEPT !.stage[a] = "permission"]

PermissionKnown(v, link, a, granted) ==
  IF granted /\ TargetHolds(v, link, a) /\ v.mode # "screen"
    THEN BeginVideoAcquire(v, link, a) ELSE Over(v, a)

HandleCameraToggle(v, link, a) ==
  IF v.mode = "camera" THEN StopKind(v, "camera")
  ELSE IF ~HasTarget(v, link) THEN v
  ELSE BeginVideoAcquire(Press(v, link, a, "camera"), link, a)

(* What handleCameraToggle checks after startCamera.                       *)
CameraChecked(v, link, a) ==
  LET w == Over(v, a)
  IN  IF TargetHolds(v, link, a) THEN w ELSE StopKind(w, "camera")

(* _acquireIsStale *)
IsStale(v, a) == v.current # a

(* A background taken away while the effect was loading is taken off.      *)
CameraOn(v, link, a, effect) ==
  LET on == StartVideo([v EXCEPT !.source = a, !.effect = effect], link, "camera", a)
  IN  CameraChecked([on EXCEPT !.effect = @ /\ on.wanted], link, a)

(* The picker or the prompt is answered; a background is chosen before the *)
(* camera goes on, or the raw room would be sent.                          *)
CaptureLands(v, link, a, granted) ==
  IF ~granted \/ IsStale(v, a) THEN Over(v, a)
  ELSE LET w == [v EXCEPT !.open = @ \union {a}]
       IN  IF v.kind[a] = "screen" THEN [w EXCEPT !.stage[a] = "probing"]
           ELSE IF v.wanted THEN [w EXCEPT !.stage[a] = "effect"]
           ELSE CameraOn(w, link, a, FALSE)

(* Mutant: the first frame comes, and the share starts.                    *)
FirstFrameStarts(v, link, a, came) ==
  IF ~came THEN Stopped(v, a) ELSE Over(StartVideo(v, link, "screen", a), a)

FirstFrame(v, link, a, came) ==
  IF ~came \/ IsStale(v, a) THEN Stopped(v, a)
  ELSE Over(StartVideo(v, link, "screen", a), a)

EffectReady(v, link, a, started) ==
  IF ~started \/ IsStale(v, a) THEN Stopped(v, a) ELSE CameraOn(v, link, a, TRUE)

(***************************************************************************)
(* The background of a camera that is on.                                  *)
(***************************************************************************)
SetCameraBackground(v, on) ==
  LET w == [v EXCEPT !.wanted = on]
  IN  IF v.source = None THEN w
      ELSE IF ~on THEN [w EXCEPT !.effect = FALSE]
      ELSE IF v.effect THEN w
      ELSE [w EXCEPT !.making = @ \union {v.source}]

BackgroundMade(v, a, started) ==
  [v EXCEPT !.making = @ \ {a},
            !.effect = @ \/ (started /\ v.source = a /\ v.wanted)]

(* enter_space: a place's video ends at once, not on the next frame.       *)
VideoLeavesSpace(v, link, here, there) ==
  LET w == IF v.scope = "place" THEN EndVideo(v) ELSE v
  IN  [VideoDropPeers(w, link) EXCEPT !.here = here, !.there = there,
                                      !.place = [a \in Attempts |-> FALSE]]

DestroyVideo(v) == StopVideo(CancelVideoAcquire(v, {"screen", "camera"}))
=============================================================================
