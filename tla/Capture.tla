------------------------------ MODULE Capture -------------------------------
(***************************************************************************)
(* One client's microphone, camera and screen (modules Microphone and      *)
(* LocalVideo) while the server opens and closes its links, calls begin    *)
(* and end, permission prompts stay open, and the session is torn down.    *)
(* Every handler runs to its end or to its next await; whatever it awaits  *)
(* may land at any later time, or fail.                                    *)
(***************************************************************************)
EXTENDS LocalVideo

ASSUME CaptureAssumption ==
  /\ Tracks \subseteq Nat /\ Attempts \subseteq Nat
  /\ None \notin Tracks \union Attempts

VARIABLES
  link,  (* [peer -> the kinds of link we hold with it]                    *)
  mic,
  vid,
  gone   (* the session was torn down, and its engine destroyed            *)

captureVars == <<link, mic, vid, gone>>

Init ==
  /\ link = [p \in Peers |-> {}]
  /\ mic = MicInit
  /\ vid = VideoInit
  /\ gone = FALSE

(***************************************************************************)
(* The server: proximity and page_* events, snapshots, frames between.     *)
(***************************************************************************)
Links(l, m, v) == ~gone /\ link' = l /\ mic' = m /\ vid' = v /\ UNCHANGED gone

(* A peer we had no link with may need the mic back.                       *)
Opened(p, l) == IF link[p] = {} THEN UpdateMicHold(mic, l) ELSE mic

Connect(p) ==
  LET l == [link EXCEPT ![p] = @ \union {"proximity"}]
  IN  Links(l, SyncMicSenders(Opened(p, l), l), SyncVideoLinks(vid, l))

PageConnect(p) ==
  LET l == [link EXCEPT ![p] = @ \union {"page"}]
  IN  Links(l, GoLiveForPage(SyncMicSenders(Opened(p, l), l), l), SyncVideoLinks(vid, l))

Without(p, kind) == [link EXCEPT ![p] = @ \ {kind}]

DisconnectProximity(p) ==
  /\ link[p] # {}
  /\ LET l == Without(p, "proximity")
     IN  Links(l, IF l[p] = {} THEN MicDropPeers(mic, l) ELSE mic, VideoDropPeers(vid, l))

(* page_end, or our own hang-up of this call.                              *)
EndPage(p) ==
  /\ link[p] # {}
  /\ LET l == Without(p, "page")
         dropped == IF l[p] = {} THEN MicDropPeers(mic, l) ELSE mic
     IN  Links(l, RestoreMuteAfterPage(SyncMicSenders(dropped, l), l), SyncVideoLinks(vid, l))

(* enter_space was answered: a new snapshot, with its own positions.       *)
Snapshot(here, there) ==
  LET l == [p \in Peers |-> link[p] \ {"proximity"}]
  IN  Links(l, IF Linked(link) # Linked(l) THEN MicDropPeers(mic, l) ELSE mic,
            VideoLeavesSpace(vid, l, here, there))

(* Others' positions come with `state`; ours is taken with every frame,    *)
(* and updateGains brings the video in line.                               *)
PeerMoves(p) ==
  Links(link, mic, [vid EXCEPT !.there = IF p \in @ THEN @ \ {p} ELSE @ \union {p}])

Frame(here) == Links(link, mic, SyncVideoLinks([vid EXCEPT !.here = here], link))

Destroy ==
  /\ ~gone
  /\ gone' = TRUE
  /\ link' = [p \in Peers |-> {}]
  /\ mic' = DestroyMic(mic)
  /\ vid' = DestroyVideo(vid)

(***************************************************************************)
(* The microphone.                                                         *)
(***************************************************************************)
Mic(m) == mic' = m /\ UNCHANGED <<link, vid, gone>>

(* What lands in a client that has left is only put away.                  *)
Lands(m) == Mic(IF gone THEN [m EXCEPT !.shown = mic.shown, !.told = mic.told] ELSE m)

TogglesMic == ~gone /\ Mic(HandleMicToggle(mic, link))

MicAcquired(granted) ==
  /\ mic.acquiring # "no"
  /\ Tracks \ Used(mic) # {}
  /\ Lands(MicLands(mic, link, granted))

SenderSwapped(p) == mic.pending[p] # <<>> /\ Mic(ReplaceTrackLands(mic, p))

IdleTimer == mic.idle /\ Mic(IdleFires(mic, link))

OpensSettings == ~gone /\ mic.panel = "closed" /\ Mic([mic EXCEPT !.panel = "listing"])

SettingsListed == ~gone /\ mic.panel = "listing" /\ Mic(DevicesListed(mic))

ClosesSettings == mic.panel = "open" /\ Mic(HandleCloseAudioSettings(mic))

PicksMicrophone == mic.panel = "open" /\ Mic(SetMicDevice(mic))

PreviewOpened(age, granted) == age \in mic.previewing /\ Mic(PreviewLands(mic, age, granted))

SwapAcquired(age, granted) ==
  /\ age \in mic.swapping
  /\ Tracks \ Used(mic) # {}
  /\ Mic(SwapLands(mic, link, age, granted))

OldTrackStopped ==
  /\ mic.replaced # {} /\ \A p \in Peers : mic.pending[p] = <<>>
  /\ Mic(SwapDone(mic))

(***************************************************************************)
(* Camera and screen.                                                      *)
(***************************************************************************)
Video(v) == vid' = v /\ UNCHANGED <<link, mic, gone>>

Unused(a) == vid.stage[a] = "none" /\ a \notin vid.open \union vid.making

TogglesShare(a) == ~gone /\ Unused(a) /\ Video(HandleScreenShareToggle(vid, link, a))

TogglesCamera(a) == ~gone /\ Unused(a) /\ Video(HandleCameraToggle(vid, link, a))

PermissionAnswered(a, granted) ==
  /\ vid.stage[a] = "permission"
  /\ Video(PermissionKnown(vid, link, a, granted /\ ~gone))

CaptureAnswered(a, granted) ==
  vid.stage[a] = "asked" /\ Video(CaptureLands(vid, link, a, granted))

FrameAnswered(a, came) == vid.stage[a] = "probing" /\ Video(FirstFrame(vid, link, a, came))

EffectAnswered(a, started) ==
  vid.stage[a] = "effect" /\ Video(EffectReady(vid, link, a, started))

(* The system's own "stop sharing", the camera unplugged, the effect dead. *)
VideoTrackEnds == vid.mode # "off" /\ Video(StopKind(vid, vid.mode))

(* handleCloseScreenShare, with no one else's video up.                    *)
ClosesPanel ==
  /\ ~gone
  /\ Video(StopKind(vid, IF vid.mode = "screen" THEN "screen" ELSE "camera"))

PicksBackground(on) == ~gone /\ on # vid.wanted /\ Video(SetCameraBackground(vid, on))

BackgroundStarted(a, started) == a \in vid.making /\ Video(BackgroundMade(vid, a, started))

Next ==
  \/ \E p \in Peers :
       \/ Connect(p) \/ PageConnect(p) \/ DisconnectProximity(p) \/ EndPage(p)
       \/ PeerMoves(p) \/ SenderSwapped(p)
  \/ \E here \in BOOLEAN, there \in SUBSET Peers : Snapshot(here, there)
  \/ \E here \in BOOLEAN : Frame(here)
  \/ Destroy
  \/ TogglesMic \/ IdleTimer \/ OpensSettings \/ SettingsListed \/ ClosesSettings
  \/ PicksMicrophone \/ OldTrackStopped \/ VideoTrackEnds \/ ClosesPanel
  \/ \E granted \in BOOLEAN : MicAcquired(granted)
  \/ \E age \in {"fresh", "stale"}, granted \in BOOLEAN :
       PreviewOpened(age, granted) \/ SwapAcquired(age, granted)
  \/ \E a \in Attempts : TogglesShare(a) \/ TogglesCamera(a)
  \/ \E a \in Attempts, ok \in BOOLEAN :
       \/ PermissionAnswered(a, ok) \/ CaptureAnswered(a, ok) \/ FrameAnswered(a, ok)
       \/ EffectAnswered(a, ok) \/ BackgroundStarted(a, ok)
  \/ \E on \in BOOLEAN : PicksBackground(on)

(* The idle timer runs out; prompts may stay open for ever.                *)
Spec == Init /\ [][Next]_captureVars /\ WF_captureVars(IdleTimer)

(***************************************************************************)
(* Properties.                                                             *)
(***************************************************************************)
(* A microphone is open for the call, for a swap, or for the settings      *)
(* panel, and for nothing else: not after the panel closed, not after the  *)
(* session ended, however late the prompt was answered.                    *)
NoMicLeak ==
  /\ mic.preview => mic.panel = "open"
  /\ gone => mic.track = None /\ ~mic.preview

(* Muted is silent, whichever await finishes last.                         *)
MutedIsSilent == mic.enabled => ~mic.muted

(* With no toggle under way, the button and the org were told the truth.   *)
TruthTold == mic.waiting = {} /\ ~gone => mic.shown = mic.muted /\ mic.told = mic.muted

(* PROTOCOL.md: "While a client has a page link up, it (...) sends its     *)
(* microphone to page peers only": once the swaps have landed every sender *)
(* carries what its peer may hear, unless a call began or ended while an   *)
(* earlier swap was still on its way.                                      *)
SendersFollow ==
  ~mic.missed /\ mic.track # None =>
    \A p \in Linked(link) : mic.pending[p] = <<>> => mic.sender[p] = Audible(mic, link, p)

MicSound == NoMicLeak /\ MutedIsSilent /\ TruthTold /\ SendersFollow

(* Every open capture is the one that is sent, the raw camera under it, or *)
(* one that its attempt still holds and will stop or install.              *)
NoCaptureLeak ==
  vid.open = ({vid.live, vid.source} \ {None})
             \union {a \in Attempts : vid.stage[a] \in {"probing", "effect"}}

(* A video never outlives what it was started for, and never moves between *)
(* a call and a place.                                                     *)
VideoInScope ==
  /\ vid.mode # "off" => IF vid.scope = "call" THEN Paging(link) ELSE ~Paging(link) /\ vid.here
  /\ \A p \in vid.to : (IF vid.scope = "call" THEN "page" ELSE "proximity") \in link[p]
  /\ vid.live = None => vid.to = {} /\ vid.source = None /\ ~vid.effect

NothingAfterLeaving == gone => vid.mode = "off" /\ vid.pending = "off"

VideoSound == NoCaptureLeak /\ VideoInScope /\ NothingAfterLeaving

(* audio.ts: the indicator "must not stay lit all day in a space nobody    *)
(* else is in": alone, the microphone is given back in the end.            *)
MicGoesIdle ==
  (mic.track # None /\ Linked(link) = {}) ~> (mic.track = None \/ Linked(link) # {})
=============================================================================
