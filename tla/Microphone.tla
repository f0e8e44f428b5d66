----------------------------- MODULE Microphone -----------------------------
(***************************************************************************)
(* The microphone of client/src/audio.ts, and what client/src/main.ts tells*)
(* the user and the org of it.  Each operator takes the microphone `m` and *)
(* the links, and gives the microphone after the handler has run to its end*)
(* or to its next await.                                                   *)
(*                                                                         *)
(* micEpoch is modelled by what it decides: an acquisition, a device swap  *)
(* or a preview under way is "fresh" until the epoch moves, then "stale".  *)
(* Which device a stream comes from is left out.                           *)
(***************************************************************************)
EXTENDS Naturals, Sequences, FiniteSetsExt

CONSTANTS
  Peers,
  Tracks,  (* numerals: live microphone tracks, used again once stopped    *)
  None,
  Absent   (* no sender on this link yet                                   *)

Linked(link) == {p \in Peers : link[p] # {}}

(* hasPage *)
Paging(link) == \E p \in Peers : "page" \in link[p]

MicInit ==
  [muted |-> TRUE, track |-> None, enabled |-> FALSE,
   acquiring |-> "no",     (* micAcquirePromise                            *)
   waiting |-> {},         (* toggles that await it                        *)
   idle |-> FALSE,         (* micIdleTimer runs                            *)
   swapping |-> {},        (* device swaps that await their stream         *)
   replaced |-> {},        (* tracks to be stopped once their swap is done *)
   panel |-> "closed", previewing |-> {}, preview |-> FALSE,
   sender |-> [p \in Peers |-> Absent],
   pending |-> [p \in Peers |-> <<>>],  (* replaceTrack calls under way    *)
   missed |-> FALSE,       (* history: see SyncMicSenders                  *)
   auto |-> FALSE,         (* pageAutoUnmuted                              *)
   shown |-> TRUE,         (* the button says muted                        *)
   told |-> TRUE]          (* the org was told muted                       *)

(* ++micEpoch *)
Stale(set) == IF set = {} THEN {} ELSE {"stale"}

BumpEpoch(m) ==
  [m EXCEPT !.acquiring = IF @ = "no" THEN "no" ELSE "stale",
            !.swapping = Stale(@), !.previewing = Stale(@)]

(* _ensureMic: one acquisition at a time, whoever asked.                   *)
EnsureMic(m) ==
  IF m.acquiring # "no" THEN m ELSE [BumpEpoch(m) EXCEPT !.acquiring = "fresh"]

(* Mutant of UpdateMicHold: nothing ever starts the idle release.          *)
HoldForever(m, link) ==
  IF Linked(link) # {} /\ ~m.muted /\ m.track = None THEN EnsureMic(m) ELSE m

UpdateMicHold(m, link) ==
  IF Linked(link) # {}
    THEN LET held == [m EXCEPT !.idle = FALSE]
         IN  IF ~m.muted /\ m.track = None THEN EnsureMic(held) ELSE held
  ELSE IF m.track # None THEN [m EXCEPT !.idle = TRUE]
  ELSE m

ReleaseMic(m) == [BumpEpoch(m) EXCEPT !.track = None, !.enabled = FALSE]

IdleFires(m, link) ==
  LET fired == [m EXCEPT !.idle = FALSE]
  IN  IF Linked(link) = {} THEN ReleaseMic(fired) ELSE fired

(* What a peer may hear: our track, or nothing while we are in a call it   *)
(* is not in.                                                              *)
Audible(m, link, p) ==
  IF Paging(link) /\ "page" \notin link[p] THEN None ELSE m.track

(* _syncMicSenders.  A sender's track is compared as it is now, though a   *)
(* replaceTrack may be on its way to change it: `missed` remembers that    *)
(* such a sender was passed over.                                          *)
SyncMicSenders(m, link) ==
  LET Carries(p) == IF m.sender[p] = Absent THEN m.track ELSE m.sender[p]
      Differs(p) == Carries(p) # Audible(m, link, p)
  IN  IF m.track = None THEN m
      ELSE [m EXCEPT
              !.sender = [p \in Peers |-> IF p \in Linked(link) THEN Carries(p) ELSE @[p]],
              !.pending = [p \in Peers |->
                             IF p \in Linked(link) /\ Differs(p)
                               THEN Append(@[p], Audible(m, link, p)) ELSE @[p]],
              !.missed = @ \/ \E p \in Linked(link) : ~Differs(p) /\ m.pending[p] # <<>>]

ReplaceTrackLands(m, p) ==
  [m EXCEPT !.sender[p] = Head(m.pending[p]), !.pending[p] = Tail(@)]

(* Closed connections take their senders along; the last to go starts the  *)
(* idle release.                                                           *)
Dropped(m, link) ==
  LET Gone == {p \in Peers : link[p] = {}}
  IN  [m EXCEPT !.sender = [p \in Peers |-> IF p \in Gone THEN Absent ELSE @[p]],
                !.pending = [p \in Peers |-> IF p \in Gone THEN <<>> ELSE @[p]]]

MicDropPeers(m, link) == UpdateMicHold(Dropped(m, link), link)

(* What follows the await in handleMicToggle and restoreMuteAfterPage, and *)
(* in goLiveForPage.                                                       *)
Report(m, who) ==
  IF who = "user" THEN [m EXCEPT !.shown = m.muted, !.told = m.muted]
  ELSE [m EXCEPT !.shown = m.muted,
                 !.told = IF m.muted THEN @ ELSE FALSE,
                 !.auto = IF m.muted THEN @ ELSE TRUE]

ReportAll(m) ==
  LET first == IF "user" \in m.waiting THEN Report(m, "user") ELSE m
      both == IF "page" \in m.waiting THEN Report(first, "page") ELSE first
  IN  [both EXCEPT !.waiting = {}]

SetEnabled(m) == [m EXCEPT !.enabled = m.track # None /\ ~m.muted]

ToggleMute(m, link, who) ==
  LET flipped == [m EXCEPT !.muted = ~@]
  IN  IF ~flipped.muted /\ m.track = None
        THEN [EnsureMic(flipped) EXCEPT !.waiting = @ \union {who}]
        ELSE Report(UpdateMicHold(SetEnabled(flipped), link), who)

GoLiveForPage(m, link) == IF m.muted THEN ToggleMute(m, link, "page") ELSE m

RestoreMuteAfterPage(m, link) ==
  IF Paging(link) \/ ~m.auto THEN m
  ELSE LET given == [m EXCEPT !.auto = FALSE]
       IN  IF m.muted THEN given ELSE ToggleMute(given, link, "user")

HandleMicToggle(m, link) == ToggleMute([m EXCEPT !.auto = FALSE], link, "user")

Used(m) ==
  {m.track} \union m.replaced
  \union UNION {{m.sender[p]} \union {m.pending[p][i] : i \in DOMAIN m.pending[p]} : p \in Peers}

NewTrack(m) == Min(Tracks \ Used(m))

(* _acquireMic has its stream, or none; then every toggle that awaited it. *)
MicLands(m, link, granted) ==
  LET over == [m EXCEPT !.acquiring = "no"]
      held == [over EXCEPT !.track = NewTrack(m)]
  IN  IF granted /\ m.acquiring = "fresh"
        THEN ReportAll(UpdateMicHold(SyncMicSenders(SetEnabled(held), link), link))
        ELSE ReportAll([over EXCEPT !.muted = IF m.waiting = {} THEN @ ELSE TRUE])

(***************************************************************************)
(* The settings panel: a preview of its own, and the choice of a device.   *)
(***************************************************************************)
StopMicPreview(m) == [BumpEpoch(m) EXCEPT !.preview = FALSE]

StartMicPreview(m) ==
  IF m.track # None /\ ~m.muted THEN m
  ELSE [StopMicPreview(m) EXCEPT !.previewing = @ \union {"fresh"}]

DevicesListed(m) == StartMicPreview([m EXCEPT !.panel = "open"])

HandleCloseAudioSettings(m) == StopMicPreview([m EXCEPT !.panel = "closed"])

(* Mutant of Current: whatever lands is installed.                         *)
AnyEpoch(age) == TRUE

(* `epoch !== this.micEpoch`: what is no longer wanted stops itself.       *)
Current(age) == age = "fresh"

PreviewLands(m, age, granted) ==
  [m EXCEPT !.previewing = @ \ {age},
            !.preview = IF granted /\ Current(age) THEN TRUE ELSE @]

(* After the swap, a preview that is up moves to the new device too.       *)
RestartPreview(m) == IF m.preview THEN StartMicPreview(m) ELSE m

SetMicDevice(m) ==
  IF m.track # None
    THEN LET bumped == BumpEpoch(m) IN [bumped EXCEPT !.swapping = @ \union {"fresh"}]
    ELSE RestartPreview(m)

(* _reacquireMic has its stream, or none: no stream is an error, and the   *)
(* preview is left alone.                                                  *)
SwapLands(m, link, age, granted) ==
  LET over == [m EXCEPT !.swapping = @ \ {age}]
      swapped == [over EXCEPT !.track = NewTrack(m), !.replaced = @ \union {m.track}]
  IN  IF ~granted THEN over
      ELSE IF ~Current(age) THEN RestartPreview(over)
      ELSE SyncMicSenders(SetEnabled(swapped), link)

(* Its replaceTracks have landed: the track they replace is stopped.       *)
SwapDone(m) == RestartPreview([m EXCEPT !.replaced = {}])

(* destroy *)
DestroyMic(m) ==
  LET silent == ReleaseMic(StopMicPreview([Dropped(m, [p \in Peers |-> {}]) EXCEPT !.idle = FALSE]))
  IN  [silent EXCEPT !.muted = TRUE, !.waiting = {}, !.auto = FALSE, !.panel = "closed"]
=============================================================================
