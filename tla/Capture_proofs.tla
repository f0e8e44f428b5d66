--------------------------- MODULE Capture_proofs ---------------------------
(***************************************************************************)
(* Proofs about module Capture, for every number of peers, tracks and      *)
(* attempts, whatever is answered late or never: the microphone is open    *)
(* for a reason, muted is silent, the user and the org are told the truth, *)
(* and every sender carries what its peer may hear; every video capture    *)
(* that is open is accounted for, and no video outlives its call or place. *)
(***************************************************************************)
EXTENDS Capture, SequenceTheorems, FiniteSetTheorems, WellFoundedInduction, TLAPS

LEMMA LeastNumber ==
  ASSUME NEW S \in SUBSET Nat, S # {}
  PROVE  \E m \in S : \A n \in S : m <= n
<1> DEFINE T == {0 .. k : k \in S}
<1>1. T \subseteq FiniteSubsetsOf(Nat) /\ T # {}
  <2>1. ASSUME NEW k \in S PROVE 0 .. k \in FiniteSubsetsOf(Nat)
    <3>1. k \in Int /\ 0 .. k \subseteq Nat
      OBVIOUS
    <3>2. IsFiniteSet(0 .. k)
      BY <3>1, FS_Interval
    <3> QED
      BY <3>1, <3>2 DEF FiniteSubsetsOf
  <2> QED
    BY <2>1
<1>2. PICK x \in T : \A y \in T : <<y, x>> \notin StrictSubsetOrdering(Nat)
  BY <1>1, FS_StrictSubsetOrderingWellFounded, WFMin
<1>3. PICK m \in S : x = 0 .. m
  OBVIOUS
<1>4. ASSUME NEW n \in S, n < m PROVE FALSE
  <2>1. 0 .. n \subseteq 0 .. m /\ m \notin 0 .. n /\ m \in 0 .. m
    BY <1>4
  <2>2. 0 .. n \in SUBSET Nat /\ x \in SUBSET Nat /\ 0 .. n # x
    BY <1>3, <2>1
  <2>3. <<0 .. n, x>> \in StrictSubsetOrdering(Nat)
    BY <1>3, <2>1, <2>2 DEF StrictSubsetOrdering
  <2> QED
    BY <1>2, <2>3
<1> QED
  BY <1>4

LinkTypes == [Peers -> SUBSET {"proximity", "page"}]

(***************************************************************************)
(* The microphone.                                                         *)
(***************************************************************************)
Held == Tracks \union {None}

Mics ==
  [muted : BOOLEAN, track : Held, enabled : BOOLEAN,
   acquiring : {"no", "fresh", "stale"}, waiting : SUBSET {"user", "page"},
   idle : BOOLEAN, swapping : SUBSET {"fresh", "stale"}, replaced : SUBSET Held,
   panel : {"closed", "listing", "open"}, previewing : SUBSET {"fresh", "stale"},
   preview : BOOLEAN, sender : [Peers -> Held \union {Absent}],
   pending : [Peers -> Seq(Held)], missed : BOOLEAN, auto : BOOLEAN,
   shown : BOOLEAN, told : BOOLEAN]

(* A preview is wanted only while its panel is open.                       *)
PanelOpen(m) == m.preview \/ "fresh" \in m.previewing => m.panel = "open"

Silent(m) == m.enabled => m.track # None /\ ~m.muted

(* Toggles wait for the first track; swaps replace one there is.           *)
Awaits(m) ==
  /\ m.waiting # {} => m.track = None
  /\ "fresh" \in m.swapping => m.track # None

(* Until the toggles that wait have reported, the org still believes us    *)
(* muted.                                                                  *)
Reported(m) ==
  /\ m.waiting # {} => m.told
  /\ m.waiting = {} => m.shown = m.muted /\ m.told = m.muted

Sound(m) == m \in Mics /\ PanelOpen(m) /\ Silent(m) /\ Awaits(m) /\ Reported(m)

(* In a client that has left, nothing under way can be installed.          *)
MicLeft(m) ==
  /\ m.track = None /\ ~m.enabled /\ ~m.preview /\ m.panel = "closed"
  /\ m.acquiring # "fresh" /\ m.waiting = {}
  /\ "fresh" \notin m.swapping /\ "fresh" \notin m.previewing

(* What a sender carries, or will once its swaps have landed.              *)
Follows(m, l) ==
  ~m.missed /\ m.track # None =>
    \A p \in Linked(l) :
      IF m.pending[p] = <<>> THEN m.sender[p] = Audible(m, l, p)
      ELSE m.pending[p][Len(m.pending[p])] = Audible(m, l, p)

MicInv ==
  /\ mic \in Mics /\ Follows(mic, link)
  /\ IF gone THEN MicLeft(mic) ELSE Sound(mic)

SameWire(m, n) ==
  n.track = m.track /\ n.sender = m.sender /\ n.pending = m.pending /\ n.missed = m.missed

(* What the invariants read is as it was, or no longer wanted.             *)
Calm(m, n) ==
  /\ n.muted = m.muted /\ n.track = m.track /\ n.enabled = m.enabled
  /\ n.waiting = m.waiting /\ n.shown = m.shown /\ n.told = m.told
  /\ n.panel = m.panel /\ n.preview = m.preview
  /\ "fresh" \in n.swapping => "fresh" \in m.swapping
  /\ "fresh" \in n.previewing => "fresh" \in m.previewing

Alike(m, n) == SameWire(m, n) /\ Calm(m, n)

LEMMA CalmSound ==
  ASSUME NEW m, NEW n \in Mics, Calm(m, n), Sound(m)
  PROVE  Sound(n)
BY DEF Sound, Calm, PanelOpen, Silent, Awaits, Reported

LEMMA AlikeFollows ==
  ASSUME NEW m, NEW n, NEW l, SameWire(m, n), Follows(m, l)
  PROVE  Follows(n, l)
BY DEF SameWire, Follows, Audible

LEMMA TracklessFollows ==
  ASSUME NEW m, NEW l, m.track = None PROVE Follows(m, l)
BY DEF Follows

LEMMA BumpEffect ==
  ASSUME NEW m \in Mics, NEW n, n = BumpEpoch(m)
  PROVE  /\ n \in Mics /\ Alike(m, n) /\ n.acquiring # "fresh"
         /\ "fresh" \notin n.swapping /\ "fresh" \notin n.previewing
         /\ n.replaced = m.replaced
BY DEF Mics, BumpEpoch, Stale, Alike, SameWire, Calm

LEMMA EnsureEffect ==
  ASSUME NEW m \in Mics, NEW n, n = EnsureMic(m)
  PROVE  n \in Mics /\ Alike(m, n)
<1> DEFINE b == BumpEpoch(m)
<1>1. b \in Mics /\ Alike(m, b)
  BY BumpEffect
<1>2. CASE m.acquiring # "no"
  BY <1>2 DEF EnsureMic, Alike, SameWire, Calm
<1>3. CASE m.acquiring = "no"
  <2>1. n = [b EXCEPT !.acquiring = "fresh"]
    BY <1>3 DEF EnsureMic
  <2> HIDE DEF b
  <2>2. b \in Mics
    BY <1>1
  <2>3. n \in Mics
    BY <2>1, <2>2 DEF Mics
  <2>4. Alike(b, n)
    BY <2>1, <2>2 DEF Mics, Alike, SameWire, Calm
  <2> QED BY <1>1, <2>3, <2>4 DEF Alike, SameWire, Calm
<1> QED BY <1>2, <1>3

LEMMA HoldEffect ==
  ASSUME NEW m \in Mics, NEW l, NEW n, n = UpdateMicHold(m, l)
  PROVE  n \in Mics /\ Alike(m, n)
<1> DEFINE held == [m EXCEPT !.idle = FALSE]
<1>1. held \in Mics /\ Alike(m, held)
  BY DEF Mics, Alike, SameWire, Calm
<1>2. CASE Linked(l) # {} /\ ~m.muted /\ m.track = None
  <2>1. n = EnsureMic(held)
    BY <1>2 DEF UpdateMicHold
  <2> HIDE DEF held
  <2>2. n \in Mics /\ Alike(held, n)
    BY <1>1, <2>1, EnsureEffect
  <2> QED BY <1>1, <2>2 DEF Alike, SameWire, Calm
<1>3. CASE Linked(l) # {} /\ ~(~m.muted /\ m.track = None)
  BY <1>1, <1>3 DEF UpdateMicHold
<1>4. CASE Linked(l) = {}
  <2>1. n = [m EXCEPT !.idle = TRUE] \/ n = m
    BY <1>4 DEF UpdateMicHold
  <2> QED BY <2>1 DEF Mics, Alike, SameWire, Calm
<1> QED BY <1>2, <1>3, <1>4

LEMMA ReleaseEffect ==
  ASSUME NEW m \in Mics, NEW n, n = ReleaseMic(m)
  PROVE  /\ n \in Mics /\ n.track = None /\ ~n.enabled
         /\ n.muted = m.muted /\ n.waiting = m.waiting /\ n.shown = m.shown /\ n.told = m.told
         /\ n.panel = m.panel /\ n.preview = m.preview /\ n.acquiring # "fresh"
         /\ "fresh" \notin n.swapping /\ "fresh" \notin n.previewing
<1> DEFINE b == BumpEpoch(m)
<1>1. b \in Mics /\ Alike(m, b) /\ b.acquiring # "fresh"
      /\ "fresh" \notin b.swapping /\ "fresh" \notin b.previewing
  BY BumpEffect
<1>2. n = [b EXCEPT !.track = None, !.enabled = FALSE]
  BY DEF ReleaseMic
<1> HIDE DEF b
<1>3. n \in Mics
  <2>1. b \in Mics /\ None \in Held
    BY <1>1 DEF Held
  <2>2. [b EXCEPT !.track = None, !.enabled = FALSE] \in Mics
    BY <2>1 DEF Mics
  <2> QED BY <1>2, <2>2
<1>4. /\ n.track = None /\ ~n.enabled
      /\ n.muted = b.muted /\ n.waiting = b.waiting /\ n.shown = b.shown /\ n.told = b.told
      /\ n.panel = b.panel /\ n.preview = b.preview /\ n.acquiring = b.acquiring
      /\ n.swapping = b.swapping /\ n.previewing = b.previewing
  BY <1>1, <1>2 DEF Mics
<1> QED BY <1>1, <1>3, <1>4 DEF Alike, Calm

LEMMA ReleaseSound ==
  ASSUME NEW m, Sound(m), NEW n, n = ReleaseMic(m) PROVE Sound(n) /\ n.track = None
<1>1. m \in Mics
  BY DEF Sound
<1>2. /\ n \in Mics /\ n.track = None /\ ~n.enabled
      /\ n.muted = m.muted /\ n.waiting = m.waiting /\ n.shown = m.shown /\ n.told = m.told
      /\ n.panel = m.panel /\ n.preview = m.preview
      /\ "fresh" \notin n.swapping /\ "fresh" \notin n.previewing
  BY <1>1, ReleaseEffect
<1> QED BY <1>2 DEF Sound, PanelOpen, Silent, Awaits, Reported

LEMMA AudibleHeld ==
  ASSUME NEW m \in Mics, NEW l, NEW p PROVE Audible(m, l, p) \in Held
BY DEF Audible, Mics, Held

(* Whatever the senders carried, this brings them all in line.             *)
LEMMA SyncEffect ==
  ASSUME NEW m \in Mics, NEW l, NEW n, n = SyncMicSenders(m, l)
  PROVE  n \in Mics /\ Calm(m, n) /\ Follows(n, l)
<1>1. CASE m.track = None
  BY <1>1 DEF SyncMicSenders, Calm, Follows
<1>2. CASE m.track # None
  <2> DEFINE Carries(p) == IF m.sender[p] = Absent THEN m.track ELSE m.sender[p]
             Differs(p) == Carries(p) # Audible(m, l, p)
             senders == [p \in Peers |-> IF p \in Linked(l) THEN Carries(p) ELSE m.sender[p]]
             swaps == [p \in Peers |->
                         IF p \in Linked(l) /\ Differs(p)
                           THEN Append(m.pending[p], Audible(m, l, p)) ELSE m.pending[p]]
             miss == m.missed \/ \E p \in Linked(l) : ~Differs(p) /\ m.pending[p] # <<>>
  <2>1. n = [m EXCEPT !.sender = senders, !.pending = swaps, !.missed = miss]
    BY <1>2 DEF SyncMicSenders
  <2>2. /\ m.track \in Held /\ m.sender \in [Peers -> Held \union {Absent}]
        /\ m.pending \in [Peers -> Seq(Held)] /\ m.missed \in BOOLEAN
    BY DEF Mics
  <2>3. \A p \in Peers :
          /\ Append(m.pending[p], Audible(m, l, p)) \in Seq(Held)
          /\ Append(m.pending[p], Audible(m, l, p)) # <<>>
          /\ Append(m.pending[p], Audible(m, l, p))
               [Len(Append(m.pending[p], Audible(m, l, p)))] = Audible(m, l, p)
    <3> SUFFICES ASSUME NEW p \in Peers, NEW q, q = m.pending[p], NEW t, t = Audible(m, l, p)
                 PROVE  Append(q, t) \in Seq(Held) /\ Append(q, t) # <<>>
                        /\ Append(q, t)[Len(Append(q, t))] = t
      OBVIOUS
    <3>1. q \in Seq(Held) /\ t \in Held
      BY <2>2, AudibleHeld
    <3> QED BY <3>1, AppendProperties
  <2>4. swaps \in [Peers -> Seq(Held)]
    BY <2>2, <2>3
  <2>5. senders \in [Peers -> Held \union {Absent}]
    BY <2>2
  <2>6. miss \in BOOLEAN
    OBVIOUS
  <2>7. /\ \A p \in Peers : senders[p] = IF p \in Linked(l) THEN Carries(p) ELSE m.sender[p]
        /\ \A p \in Peers : swaps[p] = IF p \in Linked(l) /\ Differs(p)
                                       THEN Append(m.pending[p], Audible(m, l, p)) ELSE m.pending[p]
    OBVIOUS
  <2>8. ~miss => \A p \in Linked(l) : Differs(p) \/ m.pending[p] = <<>>
    OBVIOUS
  <2>9. ~miss => \A p \in Linked(l) :
          IF swaps[p] = <<>> THEN senders[p] = Audible(m, l, p)
          ELSE swaps[p][Len(swaps[p])] = Audible(m, l, p)
    <3> SUFFICES ASSUME ~miss, NEW p \in Linked(l)
                 PROVE  IF swaps[p] = <<>> THEN senders[p] = Audible(m, l, p)
                        ELSE swaps[p][Len(swaps[p])] = Audible(m, l, p)
      OBVIOUS
    <3>1. p \in Peers
      BY DEF Linked
    <3>2. CASE Differs(p)
      <4>1. swaps[p] = Append(m.pending[p], Audible(m, l, p))
        BY <3>1, <3>2, <2>7
      <4> QED BY <4>1, <3>1, <2>3
    <3>3. CASE ~Differs(p)
      <4>1. swaps[p] = <<>> /\ senders[p] = Carries(p)
        BY <3>1, <3>3, <2>7, <2>8
      <4> QED BY <4>1, <3>3
    <3> QED BY <3>2, <3>3
  <2> HIDE DEF Carries, Differs, senders, swaps, miss
  <2>10. n \in Mics
    BY <2>1, <2>4, <2>5, <2>6 DEF Mics
  <2>11. /\ n.sender = senders /\ n.pending = swaps /\ n.missed = miss /\ n.track = m.track
         /\ Calm(m, n)
    BY <2>1 DEF Mics, Calm
  <2>12. \A p : Audible(n, l, p) = Audible(m, l, p)
    BY <2>11 DEF Audible
  <2>13. Follows(n, l)
    BY <2>9, <2>11, <2>12 DEF Follows
  <2> QED BY <2>10, <2>11, <2>13
<1> QED BY <1>1, <1>2

(* Losing links changes nothing for the peers whose links remain.          *)
LEMMA DropCalm ==
  ASSUME NEW m \in Mics, NEW l, NEW n, n = Dropped(m, l)
  PROVE  /\ n \in Mics /\ Calm(m, n) /\ n.missed = m.missed
         /\ \A p \in Linked(l) : n.sender[p] = m.sender[p] /\ n.pending[p] = m.pending[p]
<1> DEFINE G == {p \in Peers : l[p] = {}}
           senders == [p \in Peers |-> IF p \in G THEN Absent ELSE m.sender[p]]
           swaps == [p \in Peers |-> IF p \in G THEN <<>> ELSE m.pending[p]]
<1>1. n = [m EXCEPT !.sender = senders, !.pending = swaps]
  BY DEF Dropped
<1>2. m.sender \in [Peers -> Held \union {Absent}] /\ m.pending \in [Peers -> Seq(Held)]
  BY DEF Mics
<1>3. senders \in [Peers -> Held \union {Absent}] /\ swaps \in [Peers -> Seq(Held)]
  BY <1>2
<1>4. \A p \in Linked(l) : p \in Peers /\ senders[p] = m.sender[p] /\ swaps[p] = m.pending[p]
  BY DEF Linked
<1> HIDE DEF senders, swaps
<1>5. n \in Mics
  BY <1>1, <1>3 DEF Mics
<1>6. n.sender = senders /\ n.pending = swaps /\ n.missed = m.missed /\ Calm(m, n)
  BY <1>1 DEF Mics, Calm
<1> QED BY <1>4, <1>5, <1>6

LEMMA DropEffect ==
  ASSUME NEW m \in Mics, NEW l, NEW k, NEW n, n = Dropped(m, l),
         Follows(m, k), Linked(l) \subseteq Linked(k),
         \A p \in Linked(l) : Audible(m, l, p) = Audible(m, k, p)
  PROVE  n \in Mics /\ Calm(m, n) /\ Follows(n, l)
<1>1. /\ n \in Mics /\ Calm(m, n) /\ n.missed = m.missed
      /\ \A p \in Linked(l) : n.sender[p] = m.sender[p] /\ n.pending[p] = m.pending[p]
  BY DropCalm
<1>2. \A p \in Linked(l) : Audible(n, l, p) = Audible(m, k, p)
  BY <1>1 DEF Audible, Calm
<1>3. Follows(n, l)
  BY <1>1, <1>2 DEF Follows, Calm
<1> QED BY <1>1, <1>3

LEMMA MicDropSound ==
  ASSUME NEW m, Sound(m), NEW l, NEW k, NEW n, n = MicDropPeers(m, l),
         Follows(m, k), Linked(l) \subseteq Linked(k),
         \A p \in Linked(l) : Audible(m, l, p) = Audible(m, k, p)
  PROVE  Sound(n) /\ Follows(n, l)
<1> DEFINE d == Dropped(m, l)
<1>1. m \in Mics
  BY DEF Sound
<1>2. d \in Mics /\ Calm(m, d) /\ Follows(d, l)
  BY <1>1, DropEffect
<1>3. n = UpdateMicHold(d, l)
  BY DEF MicDropPeers
<1> HIDE DEF d
<1>4. n \in Mics /\ Alike(d, n)
  BY <1>2, <1>3, HoldEffect
<1>5. Sound(d)
  BY <1>2, CalmSound
<1> QED BY <1>2, <1>4, <1>5, CalmSound, AlikeFollows DEF Alike


LEMMA ReportEffect ==
  ASSUME NEW m \in Mics, NEW who \in {"user", "page"}, NEW n, n = Report(m, who)
  PROVE  /\ n \in Mics /\ SameWire(m, n)
         /\ n.muted = m.muted /\ n.enabled = m.enabled /\ n.waiting = m.waiting
         /\ n.panel = m.panel /\ n.preview = m.preview
         /\ n.swapping = m.swapping /\ n.previewing = m.previewing
         /\ n.shown = m.muted
         /\ n.told = IF who = "user" \/ ~m.muted THEN m.muted ELSE m.told
<1> m.muted \in BOOLEAN /\ m.told \in BOOLEAN
  BY DEF Mics
<1>1. CASE who = "user"
  <2>1. n = [m EXCEPT !.shown = m.muted, !.told = m.muted]
    BY <1>1 DEF Report
  <2>2. n \in Mics
    BY <2>1 DEF Mics
  <2> QED BY <1>1, <2>1, <2>2 DEF Mics, SameWire
<1>2. CASE who = "page" /\ m.muted
  <2>1. n = [m EXCEPT !.shown = m.muted, !.told = @, !.auto = @]
    BY <1>2 DEF Report
  <2>2. n \in Mics
    BY <2>1 DEF Mics
  <2> QED BY <1>2, <2>1, <2>2 DEF Mics, SameWire
<1>3. CASE who = "page" /\ ~m.muted
  <2>1. n = [m EXCEPT !.shown = m.muted, !.told = FALSE, !.auto = TRUE]
    BY <1>3 DEF Report
  <2>2. n \in Mics
    BY <2>1 DEF Mics
  <2> QED BY <1>3, <2>1, <2>2 DEF Mics, SameWire
<1> QED BY <1>1, <1>2, <1>3

LEMMA EnabledEffect ==
  ASSUME NEW m \in Mics, NEW n, n = SetEnabled(m)
  PROVE  /\ n \in Mics /\ SameWire(m, n)
         /\ n.muted = m.muted /\ n.waiting = m.waiting /\ n.shown = m.shown /\ n.told = m.told
         /\ n.panel = m.panel /\ n.preview = m.preview
         /\ n.swapping = m.swapping /\ n.previewing = m.previewing
         /\ n.enabled = (m.track # None /\ ~m.muted)
<1> DEFINE on == m.track # None /\ ~m.muted
<1>1. n = [m EXCEPT !.enabled = on]
  BY DEF SetEnabled
<1>2. on \in BOOLEAN
  OBVIOUS
<1> HIDE DEF on
<1>3. n \in Mics
  BY <1>1, <1>2 DEF Mics
<1>4. /\ SameWire(m, n) /\ n.muted = m.muted /\ n.waiting = m.waiting /\ n.shown = m.shown
      /\ n.told = m.told /\ n.panel = m.panel /\ n.preview = m.preview
      /\ n.swapping = m.swapping /\ n.previewing = m.previewing /\ n.enabled = on
  BY <1>1 DEF Mics, SameWire
<1> QED BY <1>3, <1>4 DEF on

LEMMA ToggleSound ==
  ASSUME NEW m, Sound(m), NEW l, NEW who \in {"user", "page"}, who = "page" => m.muted,
         NEW n, n = ToggleMute(m, l, who)
  PROVE  Sound(n) /\ SameWire(m, n)
<1> DEFINE flipped == [m EXCEPT !.muted = ~@]
<1>1. m \in Mics /\ m.muted \in BOOLEAN /\ PanelOpen(m) /\ Silent(m) /\ Awaits(m) /\ Reported(m)
  BY DEF Sound, Mics
<1>2. flipped \in Mics
  BY <1>1 DEF Mics
<1>3. /\ SameWire(m, flipped) /\ flipped.muted = ~m.muted /\ flipped.enabled = m.enabled
      /\ flipped.waiting = m.waiting /\ flipped.shown = m.shown /\ flipped.told = m.told
      /\ flipped.panel = m.panel /\ flipped.preview = m.preview
      /\ flipped.swapping = m.swapping /\ flipped.previewing = m.previewing
  BY <1>1 DEF Mics, SameWire
<1>4. CASE m.muted /\ m.track = None
  <2> DEFINE e == EnsureMic(flipped)
  <2>1. e \in Mics /\ Alike(flipped, e)
    BY <1>2, EnsureEffect
  <2>2. n = [e EXCEPT !.waiting = @ \union {who}]
    BY <1>3, <1>4 DEF ToggleMute, SameWire
  <2> HIDE DEF flipped, e
  <2>3. n \in Mics
    <3> DEFINE w == e.waiting \union {who}
    <3>1. e \in Mics /\ n = [e EXCEPT !.waiting = w]
      BY <2>1, <2>2
    <3>2. w \in SUBSET {"user", "page"}
      BY <3>1 DEF Mics
    <3> HIDE DEF w
    <3> QED BY <3>1, <3>2 DEF Mics
  <2>4. /\ n.waiting = e.waiting \union {who} /\ SameWire(e, n)
        /\ n.muted = e.muted /\ n.enabled = e.enabled /\ n.shown = e.shown /\ n.told = e.told
        /\ n.panel = e.panel /\ n.preview = e.preview
        /\ n.swapping = e.swapping /\ n.previewing = e.previewing
    BY <2>1, <2>2 DEF Mics, SameWire
  <2>5. PanelOpen(n)
    BY <1>1, <1>3, <2>1, <2>4 DEF PanelOpen, Alike, Calm
  <2>6. Silent(n)
    BY <1>1, <1>3, <1>4, <2>1, <2>4 DEF Silent, Alike, Calm
  <2>7. Awaits(n)
    BY <1>1, <1>3, <1>4, <2>1, <2>4 DEF Awaits, Alike, Calm, SameWire
  <2>8. Reported(n)
    BY <1>1, <1>3, <1>4, <2>1, <2>4 DEF Reported, Alike, Calm
  <2> QED BY <1>3, <2>1, <2>3, <2>4, <2>5, <2>6, <2>7, <2>8 DEF Sound, Alike, SameWire
<1>5. CASE ~(m.muted /\ m.track = None)
  <2> DEFINE s == SetEnabled(flipped)
             h == UpdateMicHold(s, l)
  <2>3. n = Report(h, who)
    BY <1>3, <1>5 DEF ToggleMute, SameWire
  <2> HIDE DEF flipped
  <2>1. /\ s \in Mics /\ SameWire(flipped, s)
        /\ s.muted = flipped.muted /\ s.waiting = flipped.waiting
        /\ s.panel = flipped.panel /\ s.preview = flipped.preview
        /\ s.swapping = flipped.swapping /\ s.previewing = flipped.previewing
        /\ s.enabled = (flipped.track # None /\ ~flipped.muted)
    BY <1>2, EnabledEffect
  <2>2. h \in Mics /\ Alike(s, h)
    BY <2>1, HoldEffect
  <2> HIDE DEF s, h
  <2>4. /\ n \in Mics /\ SameWire(h, n)
        /\ n.muted = h.muted /\ n.enabled = h.enabled /\ n.waiting = h.waiting
        /\ n.panel = h.panel /\ n.preview = h.preview
        /\ n.swapping = h.swapping /\ n.previewing = h.previewing
        /\ n.shown = h.muted
        /\ n.told = IF who = "user" \/ ~h.muted THEN h.muted ELSE h.told
    BY <2>2, <2>3, ReportEffect
  <2>5. SameWire(m, n)
    BY <1>3, <2>1, <2>2, <2>4 DEF Alike, SameWire
  <2>6. /\ n.muted = ~m.muted /\ n.waiting = m.waiting /\ n.panel = m.panel
        /\ n.preview = m.preview /\ n.enabled = (m.track # None /\ m.muted)
        /\ "fresh" \in n.swapping => "fresh" \in m.swapping
        /\ "fresh" \in n.previewing => "fresh" \in m.previewing
    BY <1>1, <1>3, <2>1, <2>2, <2>4 DEF Alike, Calm, SameWire
  <2>7. n.shown = ~m.muted /\ n.told = ~m.muted
    BY <1>1, <2>4, <2>6
  <2>8. PanelOpen(n)
    BY <1>1, <2>6 DEF PanelOpen
  <2>9. Silent(n)
    BY <1>1, <2>5, <2>6 DEF Silent, SameWire
  <2>10. Awaits(n)
    BY <1>1, <2>5, <2>6 DEF Awaits, SameWire
  <2>11. Reported(n)
    BY <1>1, <1>5, <2>6, <2>7 DEF Reported, Awaits
  <2> QED BY <2>4, <2>5, <2>8, <2>9, <2>10, <2>11 DEF Sound
<1> QED BY <1>4, <1>5


LEMMA GoLiveSound ==
  ASSUME NEW m, Sound(m), NEW l, NEW n, n = GoLiveForPage(m, l)
  PROVE  Sound(n) /\ SameWire(m, n)
<1>1. CASE m.muted
  <2>1. n = ToggleMute(m, l, "page")
    BY <1>1 DEF GoLiveForPage
  <2> QED BY <1>1, <2>1, ToggleSound
<1>2. CASE ~m.muted
  BY <1>2 DEF GoLiveForPage, SameWire
<1> QED BY <1>1, <1>2

LEMMA AutoEffect ==
  ASSUME NEW m, Sound(m), NEW n, n = [m EXCEPT !.auto = FALSE]
  PROVE  Sound(n) /\ SameWire(m, n) /\ n.muted = m.muted
<1>1. m \in Mics
  BY DEF Sound
<1>2. n \in Mics /\ Alike(m, n)
  BY <1>1 DEF Mics, Alike, SameWire, Calm
<1> QED BY <1>2, CalmSound DEF Alike, Calm

LEMMA RestoreSound ==
  ASSUME NEW m, Sound(m), NEW l, NEW n, n = RestoreMuteAfterPage(m, l)
  PROVE  Sound(n) /\ SameWire(m, n)
<1> DEFINE given == [m EXCEPT !.auto = FALSE]
<1>1. Sound(given) /\ SameWire(m, given) /\ given.muted = m.muted
  BY AutoEffect
<1>2. n = m \/ n = given \/ n = ToggleMute(given, l, "user")
  BY DEF RestoreMuteAfterPage
<1> HIDE DEF given
<1>3. CASE n = ToggleMute(given, l, "user")
  <2>1. Sound(n) /\ SameWire(given, n)
    BY <1>1, <1>3, ToggleSound
  <2> QED BY <1>1, <2>1 DEF SameWire
<1> QED BY <1>1, <1>2, <1>3 DEF SameWire

LEMMA MicToggleSound ==
  ASSUME NEW m, Sound(m), NEW l, NEW n, n = HandleMicToggle(m, l)
  PROVE  Sound(n) /\ SameWire(m, n)
<1> DEFINE given == [m EXCEPT !.auto = FALSE]
<1>1. Sound(given) /\ SameWire(m, given) /\ given.muted = m.muted
  BY AutoEffect
<1>2. n = ToggleMute(given, l, "user")
  BY DEF HandleMicToggle
<1> HIDE DEF given
<1>3. Sound(n) /\ SameWire(given, n)
  BY <1>1, <1>2, ToggleSound
<1> QED BY <1>1, <1>3 DEF SameWire

(* Once the acquisition is over, every toggle that awaited it reports.     *)
LEMMA ReportAllSound ==
  ASSUME NEW m \in Mics, PanelOpen(m), Silent(m), Reported(m),
         "fresh" \in m.swapping => m.track # None,
         NEW n, n = ReportAll(m)
  PROVE  Sound(n) /\ SameWire(m, n)
<1> DEFINE first == IF "user" \in m.waiting THEN Report(m, "user") ELSE m
           both == IF "page" \in m.waiting THEN Report(first, "page") ELSE first
<1>1. n = [both EXCEPT !.waiting = {}]
  BY DEF ReportAll
<1>2. \/ first = Report(m, "user") /\ "user" \in m.waiting
      \/ first = m /\ "user" \notin m.waiting
  OBVIOUS
<1>3. \/ both = Report(first, "page") /\ "page" \in m.waiting
      \/ both = first /\ "page" \notin m.waiting
  OBVIOUS
<1> HIDE DEF first, both
<1> DEFINE Alongside(a, b) ==
             /\ b \in Mics /\ SameWire(a, b)
             /\ b.muted = a.muted /\ b.enabled = a.enabled
             /\ b.panel = a.panel /\ b.preview = a.preview
             /\ b.swapping = a.swapping /\ b.previewing = a.previewing
<1>4. Alongside(m, first) /\ (first # m => first.shown = m.muted /\ first.told = m.muted)
      /\ ("user" \in m.waiting => first.shown = m.muted /\ first.told = m.muted)
  <2>1. CASE first = m /\ "user" \notin m.waiting
    BY <2>1 DEF SameWire
  <2>2. CASE first = Report(m, "user")
    BY <2>2, ReportEffect
  <2> QED BY <1>2, <2>1, <2>2
<1>5. Alongside(first, both)
      /\ ("page" \in m.waiting => both.shown = first.muted
                               /\ both.told = IF first.muted THEN first.told ELSE FALSE)
  <2> first \in Mics
    BY <1>4
  <2>1. CASE both = first /\ "page" \notin m.waiting
    BY <2>1 DEF SameWire
  <2>2. CASE both = Report(first, "page")
    <3>1. /\ both \in Mics /\ SameWire(first, both)
          /\ both.muted = first.muted /\ both.enabled = first.enabled
          /\ both.panel = first.panel /\ both.preview = first.preview
          /\ both.swapping = first.swapping /\ both.previewing = first.previewing
          /\ both.shown = first.muted
          /\ both.told = IF "page" = "user" \/ ~first.muted THEN first.muted ELSE first.told
      BY <2>2, ReportEffect
    <3>2. "page" # "user"
      OBVIOUS
    <3>3. first.muted \in BOOLEAN
      BY DEF Mics
    <3> QED BY <3>1, <3>2, <3>3
  <2> QED BY <1>3, <2>1, <2>2
<1>6. m.waiting \in SUBSET {"user", "page"} /\ m.muted \in BOOLEAN /\ m.told \in BOOLEAN
  BY DEF Mics
<1>7. both.shown = m.muted /\ both.told = m.muted
  <2>1. CASE "page" \in m.waiting
    <3>1. both.shown = m.muted /\ both.told = IF m.muted THEN first.told ELSE FALSE
      BY <1>4, <1>5, <2>1
    <3>2. m.muted => first.told = TRUE
      <4>1. CASE "user" \in m.waiting
        BY <1>4, <1>6, <4>1
      <4>2. CASE "user" \notin m.waiting
        <5>1. first = m
          BY <1>2, <4>2
        <5> QED BY <1>6, <2>1, <5>1 DEF Reported
      <4> QED BY <4>1, <4>2
    <3> QED BY <1>6, <3>1, <3>2
  <2>2. CASE "page" \notin m.waiting /\ "user" \in m.waiting
    BY <1>3, <1>4, <2>2
  <2>3. CASE "page" \notin m.waiting /\ "user" \notin m.waiting
    <3>1. m.waiting = {} /\ both = m
      BY <1>2, <1>3, <1>6, <2>3
    <3> QED BY <3>1 DEF Reported
  <2> QED BY <2>1, <2>2, <2>3
<1>8. Alongside(m, both)
  BY <1>4, <1>5 DEF SameWire
<1>9. n \in Mics /\ n.waiting = {} /\ SameWire(both, n)
      /\ n.muted = both.muted /\ n.enabled = both.enabled
      /\ n.panel = both.panel /\ n.preview = both.preview
      /\ n.swapping = both.swapping /\ n.previewing = both.previewing
      /\ n.shown = both.shown /\ n.told = both.told
  <2> both \in Mics
    BY <1>8
  <2>1. n \in Mics
    BY <1>1 DEF Mics
  <2> QED BY <1>1, <2>1 DEF Mics, SameWire
<1>10. SameWire(m, n)
  BY <1>8, <1>9 DEF SameWire
<1>11. PanelOpen(n) /\ Silent(n)
  BY <1>8, <1>9, <1>10 DEF PanelOpen, Silent, SameWire
<1>12. Awaits(n) /\ Reported(n)
  BY <1>7, <1>8, <1>9, <1>10 DEF Awaits, Reported, SameWire
<1> QED BY <1>9, <1>10, <1>11, <1>12 DEF Sound


LEMMA NewTrackHeld ==
  ASSUME NEW m, Tracks \ Used(m) # {}
  PROVE  NewTrack(m) \in Tracks /\ NewTrack(m) # None
<1> DEFINE S == Tracks \ Used(m)
<1>1. S \in SUBSET Nat /\ S # {} /\ None \notin Tracks /\ S \subseteq Tracks
  BY CaptureAssumption DEF CaptureAssumption
<1>2. NewTrack(m) = CHOOSE x \in S : \A y \in S : x =< y
  BY DEF NewTrack, Min
<1> HIDE DEF S
<1>3. \E x \in S : \A y \in S : x <= y
  BY <1>1, LeastNumber
<1>4. NewTrack(m) \in S
  BY <1>2, <1>3
<1> QED BY <1>1, <1>4

(* A track comes in, enabled unless we are muted, and to every sender.     *)
LEMMA TrackInstalled ==
  ASSUME NEW m \in Mics, PanelOpen(m), Reported(m), m.track # None, NEW l,
         NEW n, n = SyncMicSenders(SetEnabled(m), l)
  PROVE  /\ n \in Mics /\ PanelOpen(n) /\ Silent(n) /\ Reported(n) /\ Follows(n, l)
         /\ n.track # None /\ n.waiting = m.waiting
<1> DEFINE s == SetEnabled(m)
<1>1. n = SyncMicSenders(s, l)
  OBVIOUS
<1>2. /\ s \in Mics /\ SameWire(m, s)
      /\ s.muted = m.muted /\ s.waiting = m.waiting /\ s.shown = m.shown /\ s.told = m.told
      /\ s.panel = m.panel /\ s.preview = m.preview
      /\ s.swapping = m.swapping /\ s.previewing = m.previewing
      /\ s.enabled = (m.track # None /\ ~m.muted)
  BY EnabledEffect
<1> HIDE DEF s
<1>3. n \in Mics /\ Calm(s, n) /\ Follows(n, l)
  BY <1>1, <1>2, SyncEffect
<1>4. PanelOpen(n) /\ Silent(n)
  BY <1>2, <1>3 DEF PanelOpen, Silent, Calm, SameWire
<1>5. Reported(n) /\ n.track # None /\ n.waiting = m.waiting
  BY <1>2, <1>3 DEF Reported, Calm, SameWire
<1> QED BY <1>3, <1>4, <1>5

LEMMA MicLandsSound ==
  ASSUME NEW m, Sound(m), NEW l, Follows(m, l), Tracks \ Used(m) # {}, NEW granted \in BOOLEAN,
         NEW n, n = MicLands(m, l, granted)
  PROVE  Sound(n) /\ Follows(n, l)
<1> DEFINE over == [m EXCEPT !.acquiring = "no"]
<1>1. m \in Mics /\ PanelOpen(m) /\ Silent(m) /\ Awaits(m) /\ Reported(m)
  BY DEF Sound
<1>2. over \in Mics /\ Alike(m, over)
  BY <1>1 DEF Mics, Alike, SameWire, Calm
<1>3. CASE granted /\ m.acquiring = "fresh"
  <2> DEFINE held == [over EXCEPT !.track = NewTrack(m)]
             x == SyncMicSenders(SetEnabled(held), l)
             u == UpdateMicHold(x, l)
  <2>1. n = ReportAll(u)
    BY <1>3 DEF MicLands
  <2>2. NewTrack(m) \in Held /\ NewTrack(m) # None
    BY NewTrackHeld DEF Held
  <2> HIDE DEF over
  <2>3. held \in Mics
    BY <1>2, <2>2 DEF Mics
  <2>4. /\ held.track # None /\ held.waiting = m.waiting /\ held.muted = m.muted
        /\ held.shown = m.shown /\ held.told = m.told /\ held.panel = m.panel
        /\ held.preview = m.preview
        /\ "fresh" \in held.previewing => "fresh" \in m.previewing
    BY <1>2, <2>2 DEF Mics, Alike, Calm
  <2> HIDE DEF held
  <2>5. PanelOpen(held) /\ Reported(held)
    <3>1. PanelOpen(held)
      BY <1>1, <2>4 DEF PanelOpen
    <3>2. Reported(held)
      BY <1>1, <2>4 DEF Reported
    <3> QED BY <3>1, <3>2
  <2>6. x \in Mics /\ PanelOpen(x) /\ Silent(x) /\ Reported(x) /\ Follows(x, l) /\ x.track # None
    BY <2>3, <2>4, <2>5, TrackInstalled
  <2> HIDE DEF x
  <2>7. u \in Mics /\ Alike(x, u)
    BY <2>6, HoldEffect
  <2> HIDE DEF u
  <2>8. PanelOpen(u) /\ Silent(u) /\ Reported(u) /\ Follows(u, l) /\ u.track # None
    <3>1. PanelOpen(u) /\ Silent(u)
      BY <2>6, <2>7 DEF PanelOpen, Silent, Alike, Calm
    <3>2. Reported(u) /\ u.track # None
      BY <2>6, <2>7 DEF Reported, Alike, Calm
    <3>3. Follows(u, l)
      BY <2>6, <2>7, AlikeFollows DEF Alike
    <3> QED BY <3>1, <3>2, <3>3
  <2>9. Sound(n) /\ SameWire(u, n)
    BY <2>1, <2>7, <2>8, ReportAllSound
  <2> QED BY <2>8, <2>9, AlikeFollows
<1>4. CASE ~(granted /\ m.acquiring = "fresh")
  <2> DEFINE quiet == [over EXCEPT !.muted = IF m.waiting = {} THEN @ ELSE TRUE]
  <2>1. n = ReportAll(quiet)
    BY <1>4 DEF MicLands
  <2> HIDE DEF over
  <2>2. quiet \in Mics
    <3> DEFINE v == IF m.waiting = {} THEN over.muted ELSE TRUE
    <3>1. over \in Mics /\ v \in BOOLEAN
      BY <1>2 DEF Mics
    <3>2. quiet = [over EXCEPT !.muted = v]
      OBVIOUS
    <3> HIDE DEF v, quiet
    <3> QED BY <3>1, <3>2 DEF Mics
  <2>3. /\ SameWire(m, quiet) /\ quiet.muted = IF m.waiting = {} THEN m.muted ELSE TRUE
        /\ quiet.enabled = m.enabled /\ quiet.waiting = m.waiting
        /\ quiet.shown = m.shown /\ quiet.told = m.told
        /\ quiet.panel = m.panel /\ quiet.preview = m.preview
        /\ "fresh" \in quiet.swapping => "fresh" \in m.swapping
        /\ "fresh" \in quiet.previewing => "fresh" \in m.previewing
    BY <1>2 DEF Mics, Alike, SameWire, Calm
  <2> HIDE DEF quiet
  <2>4. PanelOpen(quiet)
    BY <1>1, <2>3 DEF PanelOpen
  <2>5. Silent(quiet)
    BY <1>1, <2>3 DEF Silent, Awaits, SameWire
  <2>6. Reported(quiet)
    BY <1>1, <2>3 DEF Reported
  <2>7. "fresh" \in quiet.swapping => quiet.track # None
    BY <1>1, <2>3 DEF Awaits, SameWire
  <2>8. Sound(n) /\ SameWire(quiet, n)
    BY <2>1, <2>2, <2>4, <2>5, <2>6, <2>7, ReportAllSound
  <2>9. Follows(quiet, l)
    BY <2>3, AlikeFollows
  <2> QED BY <2>8, <2>9, AlikeFollows
<1> QED BY <1>3, <1>4


LEMMA IdleSound ==
  ASSUME NEW m, Sound(m), NEW l, Follows(m, l), NEW n, n = IdleFires(m, l)
  PROVE  Sound(n) /\ Follows(n, l)
<1> DEFINE fired == [m EXCEPT !.idle = FALSE]
<1>1. m \in Mics
  BY DEF Sound
<1>2. fired \in Mics /\ Alike(m, fired)
  BY <1>1 DEF Mics, Alike, SameWire, Calm
<1>3. n = ReleaseMic(fired) \/ n = fired
  BY DEF IdleFires
<1> HIDE DEF fired
<1>4. Sound(fired) /\ Follows(fired, l)
  BY <1>2, CalmSound, AlikeFollows DEF Alike
<1>5. CASE n = ReleaseMic(fired)
  BY <1>4, <1>5, ReleaseSound, TracklessFollows
<1> QED BY <1>3, <1>4, <1>5

(***************************************************************************)
(* The settings panel, and the swap of a device.                           *)
(***************************************************************************)
LEMMA StopEffect ==
  ASSUME NEW m \in Mics, NEW n, n = StopMicPreview(m)
  PROVE  /\ n \in Mics /\ SameWire(m, n) /\ n.acquiring # "fresh"
         /\ n.muted = m.muted /\ n.enabled = m.enabled /\ n.waiting = m.waiting
         /\ n.shown = m.shown /\ n.told = m.told /\ n.panel = m.panel /\ ~n.preview
         /\ "fresh" \notin n.swapping /\ "fresh" \notin n.previewing
<1> DEFINE b == BumpEpoch(m)
<1>1. /\ b \in Mics /\ Alike(m, b) /\ b.acquiring # "fresh"
      /\ "fresh" \notin b.swapping /\ "fresh" \notin b.previewing
  BY BumpEffect
<1>2. n = [b EXCEPT !.preview = FALSE]
  BY DEF StopMicPreview
<1> HIDE DEF b
<1>3. n \in Mics
  <2> b \in Mics
    BY <1>1
  <2> QED BY <1>2 DEF Mics
<1>4. /\ SameWire(b, n) /\ n.acquiring = b.acquiring
      /\ n.muted = b.muted /\ n.enabled = b.enabled /\ n.waiting = b.waiting
      /\ n.shown = b.shown /\ n.told = b.told /\ n.panel = b.panel /\ n.preview = FALSE
      /\ n.swapping = b.swapping /\ n.previewing = b.previewing
  <2> b \in Mics
    BY <1>1
  <2> QED BY <1>2 DEF Mics, SameWire
<1> QED BY <1>1, <1>3, <1>4 DEF Alike, Calm, SameWire

LEMMA StopSound ==
  ASSUME NEW m \in Mics, Silent(m), Awaits(m), Reported(m), NEW n, n = StopMicPreview(m)
  PROVE  Sound(n) /\ SameWire(m, n)
<1>1. /\ n \in Mics /\ SameWire(m, n)
      /\ n.muted = m.muted /\ n.enabled = m.enabled /\ n.waiting = m.waiting
      /\ n.shown = m.shown /\ n.told = m.told /\ n.panel = m.panel /\ ~n.preview
      /\ "fresh" \notin n.swapping /\ "fresh" \notin n.previewing
  BY StopEffect
<1>2. PanelOpen(n) /\ Silent(n)
  BY <1>1 DEF PanelOpen, Silent, SameWire
<1>3. Awaits(n) /\ Reported(n)
  BY <1>1 DEF Awaits, Reported, SameWire
<1> QED BY <1>1, <1>2, <1>3 DEF Sound

LEMMA StartSound ==
  ASSUME NEW m, Sound(m), m.panel = "open", NEW n, n = StartMicPreview(m)
  PROVE  Sound(n) /\ SameWire(m, n)
<1>1. m \in Mics /\ Silent(m) /\ Awaits(m) /\ Reported(m)
  BY DEF Sound
<1>2. CASE n = m
  BY <1>2 DEF SameWire
<1>3. CASE n # m
  <2> DEFINE s == StopMicPreview(m)
             w == s.previewing \union {"fresh"}
  <2>1. n = [s EXCEPT !.previewing = w]
    BY <1>3 DEF StartMicPreview
  <2>2. s \in Mics /\ Sound(s) /\ SameWire(m, s) /\ s.panel = "open"
    BY <1>1, StopSound, StopEffect
  <2>3. w \in SUBSET {"fresh", "stale"}
    BY <2>2 DEF Mics
  <2> HIDE DEF s, w
  <2>4. n \in Mics
    <3> s \in Mics
      BY <2>2
    <3> QED BY <2>1, <2>3 DEF Mics
  <2>5. /\ SameWire(s, n) /\ n.panel = s.panel /\ n.muted = s.muted /\ n.enabled = s.enabled
        /\ n.waiting = s.waiting /\ n.shown = s.shown /\ n.told = s.told /\ n.swapping = s.swapping
    <3> s \in Mics
      BY <2>2
    <3> QED BY <2>1 DEF Mics, SameWire
  <2>6. PanelOpen(n)
    BY <2>2, <2>5 DEF PanelOpen
  <2>7. Silent(n) /\ Awaits(n) /\ Reported(n)
    BY <2>2, <2>5 DEF Silent, Awaits, Reported, SameWire, Sound
  <2>8. SameWire(m, n)
    BY <2>2, <2>5 DEF SameWire
  <2> QED BY <2>4, <2>6, <2>7, <2>8 DEF Sound
<1> QED BY <1>2, <1>3

LEMMA RestartSound ==
  ASSUME NEW m, Sound(m), NEW n, n = RestartPreview(m)
  PROVE  Sound(n) /\ SameWire(m, n)
<1>1. CASE m.preview
  BY <1>1, StartSound DEF RestartPreview, Sound, PanelOpen
<1>2. CASE ~m.preview
  BY <1>2 DEF RestartPreview, SameWire
<1> QED BY <1>1, <1>2

LEMMA PanelMoves ==
  ASSUME NEW m \in Mics, NEW w \in {"closed", "listing", "open"},
         NEW n, n = [m EXCEPT !.panel = w]
  PROVE  /\ n \in Mics /\ SameWire(m, n) /\ n.panel = w
         /\ n.muted = m.muted /\ n.enabled = m.enabled /\ n.waiting = m.waiting
         /\ n.shown = m.shown /\ n.told = m.told /\ n.preview = m.preview
         /\ n.swapping = m.swapping /\ n.previewing = m.previewing
<1>1. n \in Mics
  BY DEF Mics
<1> QED BY <1>1 DEF Mics, SameWire

LEMMA PanelOthers ==
  ASSUME NEW m, Sound(m), NEW w \in {"closed", "listing", "open"},
         NEW n, n = [m EXCEPT !.panel = w]
  PROVE  n \in Mics /\ SameWire(m, n) /\ n.panel = w /\ Silent(n) /\ Awaits(n) /\ Reported(n)
<1>1. m \in Mics /\ Silent(m) /\ Awaits(m) /\ Reported(m)
  BY DEF Sound
<1>2. /\ n \in Mics /\ SameWire(m, n) /\ n.panel = w
      /\ n.muted = m.muted /\ n.enabled = m.enabled /\ n.waiting = m.waiting
      /\ n.shown = m.shown /\ n.told = m.told /\ n.preview = m.preview
      /\ n.swapping = m.swapping /\ n.previewing = m.previewing
  BY <1>1, PanelMoves
<1> QED BY <1>1, <1>2 DEF Silent, Awaits, Reported, SameWire

LEMMA ListingSound ==
  ASSUME NEW m, Sound(m), m.panel = "closed", NEW n, n = [m EXCEPT !.panel = "listing"]
  PROVE  Sound(n) /\ SameWire(m, n)
<1>1. n \in Mics /\ SameWire(m, n) /\ Silent(n) /\ Awaits(n) /\ Reported(n)
  BY PanelOthers
<1>2. PanelOpen(n)
  <2>1. m \in Mics /\ PanelOpen(m)
    BY DEF Sound
  <2>2. n.preview = m.preview /\ n.previewing = m.previewing
    BY <2>1, PanelMoves
  <2> QED BY <2>1, <2>2 DEF PanelOpen
<1> QED BY <1>1, <1>2 DEF Sound

LEMMA ListedSound ==
  ASSUME NEW m, Sound(m), NEW n, n = DevicesListed(m)
  PROVE  Sound(n) /\ SameWire(m, n)
<1> DEFINE o == [m EXCEPT !.panel = "open"]
<1>1. n = StartMicPreview(o)
  BY DEF DevicesListed
<1>2. o \in Mics /\ SameWire(m, o) /\ o.panel = "open" /\ Silent(o) /\ Awaits(o) /\ Reported(o)
  BY PanelOthers
<1> HIDE DEF o
<1>3. Sound(o)
  BY <1>2 DEF Sound, PanelOpen
<1>4. Sound(n) /\ SameWire(o, n)
  BY <1>1, <1>2, <1>3, StartSound
<1> QED BY <1>2, <1>4 DEF SameWire

LEMMA CloseSound ==
  ASSUME NEW m, Sound(m), NEW n, n = HandleCloseAudioSettings(m)
  PROVE  Sound(n) /\ SameWire(m, n)
<1> DEFINE o == [m EXCEPT !.panel = "closed"]
<1>1. n = StopMicPreview(o)
  BY DEF HandleCloseAudioSettings
<1>2. o \in Mics /\ SameWire(m, o) /\ Silent(o) /\ Awaits(o) /\ Reported(o)
  BY PanelOthers
<1> HIDE DEF o
<1>3. Sound(n) /\ SameWire(o, n)
  BY <1>1, <1>2, StopSound
<1> QED BY <1>2, <1>3 DEF SameWire

LEMMA DeviceSound ==
  ASSUME NEW m, Sound(m), NEW n, n = SetMicDevice(m)
  PROVE  Sound(n) /\ SameWire(m, n)
<1>1. CASE m.track = None
  BY <1>1, RestartSound DEF SetMicDevice
<1>2. CASE m.track # None
  <2> DEFINE b == BumpEpoch(m)
             w == b.swapping \union {"fresh"}
  <2>1. n = [b EXCEPT !.swapping = w]
    BY <1>2 DEF SetMicDevice
  <2>2. b \in Mics /\ Alike(m, b)
    BY BumpEffect DEF Sound
  <2>3. w \in SUBSET {"fresh", "stale"}
    BY <2>2 DEF Mics
  <2> HIDE DEF b, w
  <2>4. Sound(b)
    BY <2>2, CalmSound DEF Alike
  <2>5. n \in Mics
    <3> b \in Mics
      BY <2>2
    <3> QED BY <2>1, <2>3 DEF Mics
  <2>6. /\ SameWire(b, n) /\ n.panel = b.panel /\ n.muted = b.muted /\ n.enabled = b.enabled
        /\ n.waiting = b.waiting /\ n.shown = b.shown /\ n.told = b.told
        /\ n.preview = b.preview /\ n.previewing = b.previewing
    <3> b \in Mics
      BY <2>2
    <3> QED BY <2>1 DEF Mics, SameWire
  <2>7. SameWire(m, n)
    BY <2>2, <2>6 DEF Alike, SameWire
  <2>8. PanelOpen(n) /\ Silent(n) /\ Reported(n)
    BY <2>4, <2>6 DEF PanelOpen, Silent, Reported, SameWire, Sound
  <2>9. Awaits(n)
    BY <1>2, <2>4, <2>6, <2>7 DEF Awaits, SameWire, Sound
  <2> QED BY <2>5, <2>7, <2>8, <2>9 DEF Sound
<1> QED BY <1>1, <1>2

LEMMA PreviewSound ==
  ASSUME NEW m, Sound(m), NEW age \in m.previewing, NEW granted \in BOOLEAN,
         NEW n, n = PreviewLands(m, age, granted)
  PROVE  Sound(n) /\ SameWire(m, n)
<1> DEFINE w == m.previewing \ {age}
           on == IF granted /\ Current(age) THEN TRUE ELSE m.preview
<1>1. n = [m EXCEPT !.previewing = w, !.preview = on]
  BY DEF PreviewLands
<1>2. m \in Mics /\ PanelOpen(m) /\ Silent(m) /\ Awaits(m) /\ Reported(m)
  BY DEF Sound
<1>3. w \in SUBSET {"fresh", "stale"} /\ on \in BOOLEAN
  BY <1>2 DEF Mics
<1>4. (on \/ "fresh" \in w) => m.panel = "open"
  BY <1>2 DEF PanelOpen, Current
<1> HIDE DEF w, on
<1>5. n \in Mics
  BY <1>1, <1>2, <1>3 DEF Mics
<1>6. /\ SameWire(m, n) /\ n.panel = m.panel /\ n.muted = m.muted /\ n.enabled = m.enabled
      /\ n.waiting = m.waiting /\ n.shown = m.shown /\ n.told = m.told
      /\ n.preview = on /\ n.previewing = w /\ n.swapping = m.swapping
  BY <1>1, <1>2 DEF Mics, SameWire
<1>7. PanelOpen(n)
  BY <1>4, <1>6 DEF PanelOpen
<1>8. Silent(n) /\ Awaits(n) /\ Reported(n)
  BY <1>2, <1>6 DEF Silent, Awaits, Reported, SameWire
<1> QED BY <1>5, <1>6, <1>7, <1>8 DEF Sound


LEMMA SwapSound ==
  ASSUME NEW m, Sound(m), NEW l, Follows(m, l), Tracks \ Used(m) # {},
         NEW age \in m.swapping, NEW granted \in BOOLEAN,
         NEW n, n = SwapLands(m, l, age, granted)
  PROVE  Sound(n) /\ Follows(n, l)
<1> DEFINE left == m.swapping \ {age}
           over == [m EXCEPT !.swapping = left]
           stopped == m.replaced \union {m.track}
           swapped == [over EXCEPT !.track = NewTrack(m), !.replaced = stopped]
<1>1. m \in Mics /\ PanelOpen(m) /\ Silent(m) /\ Awaits(m) /\ Reported(m)
  BY DEF Sound
<1>2. left \in SUBSET {"fresh", "stale"} /\ left \subseteq m.swapping
      /\ stopped \in SUBSET Held
  BY <1>1 DEF Mics
<1>3. \/ n = over
      \/ n = RestartPreview(over)
      \/ age = "fresh" /\ n = SyncMicSenders(SetEnabled(swapped), l)
  BY DEF SwapLands, Current
<1>4. "fresh" \in left => age # "fresh"
  OBVIOUS
<1> HIDE DEF left, stopped
<1>5. over \in Mics
  BY <1>1, <1>2 DEF Mics
<1>6. Alike(m, over) /\ over.swapping = left
  BY <1>1, <1>2 DEF Mics, Alike, SameWire, Calm
<1>7. Sound(over) /\ Follows(over, l)
  BY <1>5, <1>6, CalmSound, AlikeFollows DEF Alike
<1>8. NewTrack(m) \in Held /\ NewTrack(m) # None
  BY NewTrackHeld DEF Held
<1> HIDE DEF over
<1>9. CASE n = over
  BY <1>7, <1>9
<1>10. CASE n = RestartPreview(over)
  BY <1>7, <1>10, RestartSound, AlikeFollows
<1>11. CASE age = "fresh" /\ n = SyncMicSenders(SetEnabled(swapped), l)
  <2>1. swapped \in Mics
    BY <1>2, <1>5, <1>8 DEF Mics
  <2>2. /\ swapped.track = NewTrack(m) /\ swapped.panel = over.panel
        /\ swapped.preview = over.preview /\ swapped.previewing = over.previewing
        /\ swapped.waiting = over.waiting /\ swapped.shown = over.shown
        /\ swapped.told = over.told /\ swapped.muted = over.muted
    BY <1>5 DEF Mics
  <2> HIDE DEF swapped
  <2>3. PanelOpen(swapped) /\ Reported(swapped)
    BY <1>7, <2>2 DEF PanelOpen, Reported, Sound
  <2>4. swapped.track # None
    BY <1>8, <2>2
  <2>5. /\ n \in Mics /\ PanelOpen(n) /\ Silent(n) /\ Reported(n) /\ Follows(n, l)
        /\ n.track # None /\ n.waiting = swapped.waiting
    BY <1>11, <2>1, <2>3, <2>4, TrackInstalled
  <2>6. m.waiting = {}
    BY <1>1, <1>11 DEF Awaits
  <2>7. n.waiting = {}
    BY <1>6, <2>2, <2>5, <2>6 DEF Alike, Calm
  <2> QED BY <2>5, <2>7 DEF Sound, Awaits
<1> QED BY <1>3, <1>9, <1>10, <1>11

LEMMA DoneEffect ==
  ASSUME NEW m \in Mics, NEW n, n = [m EXCEPT !.replaced = {}]
  PROVE  n \in Mics /\ Alike(m, n) /\ n.swapping = m.swapping /\ n.previewing = m.previewing
         /\ n.acquiring = m.acquiring
<1>1. n \in Mics
  BY DEF Mics
<1> QED BY <1>1 DEF Mics, Alike, SameWire, Calm

LEMMA DoneSound ==
  ASSUME NEW m, Sound(m), NEW n, n = SwapDone(m)
  PROVE  Sound(n) /\ SameWire(m, n)
<1> DEFINE d == [m EXCEPT !.replaced = {}]
<1>1. n = RestartPreview(d)
  BY DEF SwapDone
<1>2. d \in Mics /\ Alike(m, d)
  BY DoneEffect DEF Sound
<1> HIDE DEF d
<1>3. Sound(d)
  BY <1>2, CalmSound DEF Alike
<1>4. Sound(n) /\ SameWire(d, n)
  BY <1>1, <1>3, RestartSound
<1> QED BY <1>2, <1>4 DEF Alike, SameWire

(* A swap that lands brings its sender closer to what it is to carry.      *)
LEMMA LandsEffect ==
  ASSUME NEW m \in Mics, NEW l, Follows(m, l), NEW p \in Peers, m.pending[p] # <<>>,
         NEW n, n = ReplaceTrackLands(m, p)
  PROVE  /\ n \in Mics /\ Calm(m, n) /\ Follows(n, l)
         /\ n.acquiring = m.acquiring
<1> DEFINE senders == [m.sender EXCEPT ![p] = Head(m.pending[p])]
           swaps == [m.pending EXCEPT ![p] = Tail(@)]
<1>1. m.sender \in [Peers -> Held \union {Absent}] /\ m.pending \in [Peers -> Seq(Held)]
  BY DEF Mics
<1>2. n = [m EXCEPT !.sender = senders, !.pending = swaps]
  BY DEF ReplaceTrackLands
<1> DEFINE q == m.pending[p]
<1>3. q \in Seq(Held) /\ q # <<>>
  BY <1>1
<1>4. Head(q) \in Held /\ Tail(q) \in Seq(Held)
  BY <1>3, HeadTailProperties
<1>5. IF Tail(q) = <<>> THEN Head(q) = q[Len(q)]
      ELSE Tail(q)[Len(Tail(q))] = q[Len(q)]
  <2> HIDE DEF q
  <2>1. /\ Len(q) \in Nat /\ Len(q) > 0 /\ Len(Tail(q)) = Len(q) - 1 /\ Head(q) = q[1]
        /\ \A i \in 1 .. Len(Tail(q)) : Tail(q)[i] = q[i + 1]
    BY <1>3
  <2>2. CASE Tail(q) = <<>>
    BY <2>1, <2>2
  <2>3. CASE Tail(q) # <<>>
    <3>1. Len(Tail(q)) # 0
      BY <1>4, <2>3, EmptySeq
    <3> QED BY <2>1, <2>3, <3>1
  <2> QED BY <2>2, <2>3
<1>6. /\ senders \in [Peers -> Held \union {Absent}] /\ swaps \in [Peers -> Seq(Held)]
      /\ senders[p] = Head(q) /\ swaps[p] = Tail(q)
      /\ \A r \in Peers \ {p} : senders[r] = m.sender[r] /\ swaps[r] = m.pending[r]
  BY <1>1, <1>4
<1> HIDE DEF senders, swaps
<1>7. n \in Mics
  BY <1>2, <1>6 DEF Mics
<1>8. /\ n.sender = senders /\ n.pending = swaps /\ n.missed = m.missed
      /\ n.acquiring = m.acquiring /\ Calm(m, n)
  BY <1>2 DEF Mics, Calm
<1>9. \A r : Audible(n, l, r) = Audible(m, l, r)
  BY <1>8 DEF Audible, Calm
<1>10. ASSUME ~n.missed, n.track # None, NEW r \in Linked(l)
       PROVE  IF n.pending[r] = <<>> THEN n.sender[r] = Audible(n, l, r)
              ELSE n.pending[r][Len(n.pending[r])] = Audible(n, l, r)
  <2>1. r \in Peers
    BY DEF Linked
  <2>2. IF m.pending[r] = <<>> THEN m.sender[r] = Audible(m, l, r)
        ELSE m.pending[r][Len(m.pending[r])] = Audible(m, l, r)
    BY <1>8, <1>10 DEF Follows, Calm
  <2>3. CASE r = p
    <3>1. q[Len(q)] = Audible(m, l, r)
      BY <1>3, <2>2, <2>3
    <3>2. n.pending[r] = Tail(q) /\ n.sender[r] = Head(q)
      BY <1>6, <1>8, <2>3
    <3> HIDE DEF q
    <3> QED BY <1>5, <1>9, <3>1, <3>2
  <2>4. CASE r # p
    <3>1. n.pending[r] = m.pending[r] /\ n.sender[r] = m.sender[r]
      BY <1>6, <1>8, <2>1, <2>4
    <3> QED BY <1>9, <2>2, <3>1
  <2> QED BY <2>3, <2>4
<1>11. Follows(n, l)
  BY <1>10 DEF Follows
<1> QED BY <1>7, <1>8, <1>11

LEMMA DestroyLeaves ==
  ASSUME NEW m \in Mics, NEW n, n = DestroyMic(m)
  PROVE  n \in Mics /\ MicLeft(n)
<1> DEFINE d == Dropped(m, [p \in Peers |-> {}])
           e == [d EXCEPT !.idle = FALSE]
           s == StopMicPreview(e)
           r == ReleaseMic(s)
<1>1. n = [r EXCEPT !.muted = TRUE, !.waiting = {}, !.auto = FALSE, !.panel = "closed"]
  BY DEF DestroyMic
<1>2. d \in Mics
  BY DropCalm
<1> HIDE DEF d
<1>3. e \in Mics
  BY <1>2 DEF Mics
<1> HIDE DEF e
<1>4. s \in Mics /\ ~s.preview
  BY <1>3, StopEffect
<1> HIDE DEF s
<1>5. /\ r \in Mics /\ r.track = None /\ ~r.enabled /\ r.preview = s.preview
      /\ r.acquiring # "fresh" /\ "fresh" \notin r.swapping /\ "fresh" \notin r.previewing
  BY <1>4, ReleaseEffect
<1> HIDE DEF r
<1> r \in Mics
  BY <1>5
<1>6. n \in Mics
  BY <1>1 DEF Mics
<1>7. /\ n.track = r.track /\ n.enabled = r.enabled /\ n.preview = r.preview
      /\ n.panel = "closed" /\ n.acquiring = r.acquiring /\ n.waiting = {}
      /\ n.swapping = r.swapping /\ n.previewing = r.previewing
  BY <1>1 DEF Mics
<1> QED BY <1>4, <1>5, <1>6, <1>7 DEF MicLeft


(***************************************************************************)
(* In a client that has left.                                              *)
(***************************************************************************)
LEMMA CalmLeft ==
  ASSUME NEW m, NEW n, MicLeft(m), Calm(m, n), n.acquiring # "fresh"
  PROVE  MicLeft(n)
BY DEF MicLeft, Calm

LEMMA LandsLeft ==
  ASSUME NEW m \in Mics, MicLeft(m), NEW l, NEW granted \in BOOLEAN,
         NEW k, k = MicLands(m, l, granted),
         NEW n, n = [k EXCEPT !.shown = m.shown, !.told = m.told]
  PROVE  n \in Mics /\ MicLeft(n)
<1> DEFINE over == [m EXCEPT !.acquiring = "no"]
           quiet == [over EXCEPT !.muted = IF m.waiting = {} THEN @ ELSE TRUE]
<1>1. k = ReportAll(quiet)
  BY DEF MicLands, MicLeft
<1>2. over \in Mics /\ Calm(m, over) /\ over.acquiring = "no"
  BY DEF Mics, Calm
<1> HIDE DEF over
<1>3. quiet = [over EXCEPT !.muted = over.muted]
  BY DEF MicLeft
<1>4. quiet \in Mics /\ Calm(over, quiet) /\ quiet.acquiring = "no"
  BY <1>2, <1>3 DEF Mics, Calm
<1> HIDE DEF quiet
<1>5. quiet.waiting = {}
  BY <1>2, <1>4 DEF MicLeft, Calm
<1>6. k = [quiet EXCEPT !.waiting = {}]
  BY <1>1, <1>5 DEF ReportAll
<1> quiet \in Mics
  BY <1>4
<1>7. k \in Mics
  BY <1>6 DEF Mics
<1>8. k.acquiring = "no" /\ Calm(quiet, k)
  BY <1>4, <1>5, <1>6 DEF Mics, Calm
<1>9. m.shown \in BOOLEAN /\ m.told \in BOOLEAN
  BY DEF Mics
<1>10. n \in Mics
  BY <1>7, <1>9 DEF Mics
<1>11. Calm(m, k)
  BY <1>2, <1>4, <1>8 DEF Calm
<1>12. /\ n.acquiring = k.acquiring /\ n.track = k.track /\ n.enabled = k.enabled
       /\ n.preview = k.preview /\ n.panel = k.panel /\ n.waiting = k.waiting
       /\ n.swapping = k.swapping /\ n.previewing = k.previewing
  BY <1>7 DEF Mics
<1> QED BY <1>8, <1>10, <1>11, <1>12 DEF MicLeft, Calm

LEMMA IdleLeft ==
  ASSUME NEW m \in Mics, MicLeft(m), NEW l, NEW n, n = IdleFires(m, l)
  PROVE  n \in Mics /\ MicLeft(n)
<1> DEFINE fired == [m EXCEPT !.idle = FALSE]
<1>1. fired \in Mics /\ Calm(m, fired) /\ fired.acquiring = m.acquiring
  BY DEF Mics, Calm
<1>2. n = ReleaseMic(fired) \/ n = fired
  BY DEF IdleFires
<1> HIDE DEF fired
<1>3. MicLeft(fired)
  BY <1>1, CalmLeft DEF MicLeft
<1>4. CASE n = ReleaseMic(fired)
  <2>1. /\ n \in Mics /\ n.track = None /\ ~n.enabled
        /\ n.waiting = fired.waiting /\ n.panel = fired.panel /\ n.preview = fired.preview
        /\ n.acquiring # "fresh" /\ "fresh" \notin n.swapping /\ "fresh" \notin n.previewing
    BY <1>1, <1>4, ReleaseEffect
  <2> QED BY <1>3, <2>1 DEF MicLeft
<1> QED BY <1>1, <1>2, <1>3, <1>4

LEMMA PreviewLeft ==
  ASSUME NEW m \in Mics, MicLeft(m), NEW age \in m.previewing, NEW granted \in BOOLEAN,
         NEW n, n = PreviewLands(m, age, granted)
  PROVE  n \in Mics /\ MicLeft(n)
<1> DEFINE w == m.previewing \ {age}
<1>1. n = [m EXCEPT !.previewing = w]
  <2>1. n = [m EXCEPT !.previewing = w, !.preview = m.preview]
    BY DEF PreviewLands, Current, MicLeft
  <2> QED BY <2>1 DEF Mics
<1>2. w \in SUBSET {"fresh", "stale"} /\ w \subseteq m.previewing
  BY DEF Mics
<1> HIDE DEF w
<1>3. n \in Mics
  BY <1>1, <1>2 DEF Mics
<1>4. n.acquiring = m.acquiring /\ Calm(m, n)
  BY <1>1, <1>2 DEF Mics, Calm
<1> QED BY <1>3, <1>4, CalmLeft DEF MicLeft

LEMMA SwapLeft ==
  ASSUME NEW m \in Mics, MicLeft(m), NEW l, NEW age \in m.swapping, NEW granted \in BOOLEAN,
         NEW n, n = SwapLands(m, l, age, granted)
  PROVE  n \in Mics /\ MicLeft(n)
<1> DEFINE w == m.swapping \ {age}
           over == [m EXCEPT !.swapping = w]
<1>1. n = over \/ n = RestartPreview(over)
  BY DEF SwapLands, Current, MicLeft
<1>2. w \in SUBSET {"fresh", "stale"} /\ w \subseteq m.swapping
  BY DEF Mics
<1> HIDE DEF w
<1>3. over \in Mics
  BY <1>2 DEF Mics
<1>4. over.acquiring = m.acquiring /\ Calm(m, over)
  BY <1>2 DEF Mics, Calm
<1> HIDE DEF over
<1>5. MicLeft(over)
  BY <1>4, CalmLeft DEF MicLeft
<1>6. RestartPreview(over) = over
  BY <1>5 DEF RestartPreview, MicLeft
<1> QED BY <1>1, <1>3, <1>5, <1>6

LEMMA DoneLeft ==
  ASSUME NEW m \in Mics, MicLeft(m), NEW n, n = SwapDone(m)
  PROVE  n \in Mics /\ MicLeft(n)
<1> DEFINE d == [m EXCEPT !.replaced = {}]
<1>1. d \in Mics /\ Calm(m, d) /\ d.acquiring = m.acquiring
  BY DoneEffect DEF Alike
<1>2. n = RestartPreview(d)
  BY DEF SwapDone
<1> HIDE DEF d
<1>3. MicLeft(d)
  BY <1>1, CalmLeft DEF MicLeft
<1>4. n = d
  BY <1>2, <1>3 DEF RestartPreview, MicLeft
<1> QED BY <1>1, <1>3, <1>4

(***************************************************************************)
(* The steps.                                                              *)
(***************************************************************************)
CaptureTyped == link \in LinkTypes /\ gone \in BOOLEAN

LEMMA SoundSynced ==
  ASSUME NEW m, Sound(m), NEW l, NEW n, n = SyncMicSenders(m, l)
  PROVE  Sound(n) /\ Follows(n, l)
BY SyncEffect, CalmSound DEF Sound

LEMMA OpenedSound ==
  ASSUME Sound(mic), NEW p \in Peers, NEW l, NEW n, n = Opened(p, l)
  PROVE  Sound(n)
<1>1. CASE n = mic
  BY <1>1
<1>2. CASE n = UpdateMicHold(mic, l)
  BY <1>2, HoldEffect, CalmSound DEF Sound, Alike
<1> QED BY <1>1, <1>2 DEF Opened

LEMMA LinkGrows ==
  ASSUME CaptureTyped, MicInv, NEW p \in Peers, Connect(p) \/ PageConnect(p)
  PROVE  MicInv' /\ CaptureTyped'
<1>1. ~gone /\ gone' = gone
  BY DEF Connect, PageConnect, Links
<1>2. Sound(mic)
  BY <1>1 DEF MicInv
<1>3. link' \in LinkTypes
  <2>1. \E kind \in {"proximity", "page"} : link' = [link EXCEPT ![p] = @ \union {kind}]
    BY DEF Connect, PageConnect, Links
  <2> QED BY <2>1 DEF CaptureTyped, LinkTypes
<1> DEFINE o == Opened(p, link')
           s == SyncMicSenders(o, link')
<1>4. mic' = s \/ mic' = GoLiveForPage(s, link')
  BY DEF Connect, PageConnect, Links
<1>5. Sound(o)
  BY <1>2, OpenedSound
<1> HIDE DEF o
<1>6. Sound(s) /\ Follows(s, link')
  BY <1>5, SoundSynced
<1> HIDE DEF s
<1>7. Sound(mic') /\ Follows(mic', link')
  <2>1. CASE mic' = GoLiveForPage(s, link')
    <3>1. Sound(mic') /\ SameWire(s, mic')
      BY <1>6, <2>1, GoLiveSound
    <3> QED BY <1>6, <3>1, AlikeFollows
  <2> QED BY <1>4, <1>6, <2>1
<1> QED BY <1>1, <1>3, <1>7 DEF MicInv, CaptureTyped, Sound

LEMMA LinksLost ==
  ASSUME CaptureTyped, NEW l \in LinkTypes,
         \A p \in Peers : l[p] = link[p] \ {"proximity"} \/ l[p] = link[p]
  PROVE  /\ Linked(l) \subseteq Linked(link) /\ Called(l) = Called(link)
         /\ Paging(l) <=> Paging(link)
         /\ \A m, p : p \in Peers => Audible(m, l, p) = Audible(m, link, p)
<1>1. \A p \in Peers : "page" \in l[p] <=> "page" \in link[p]
  OBVIOUS
<1>2. Linked(l) \subseteq Linked(link) /\ Called(l) = Called(link)
  BY <1>1 DEF Linked, Called
<1>3. Paging(l) <=> Paging(link)
  BY <1>1 DEF Paging
<1>4. \A m, p : p \in Peers => Audible(m, l, p) = Audible(m, link, p)
  BY <1>1, <1>3 DEF Audible
<1> QED BY <1>2, <1>3, <1>4

LEMMA ProximityLost ==
  ASSUME CaptureTyped, MicInv,
         \/ \E p \in Peers : DisconnectProximity(p)
         \/ \E here \in BOOLEAN, there \in SUBSET Peers : Snapshot(here, there)
  PROVE  MicInv' /\ CaptureTyped'
<1>1. ~gone /\ gone' = gone
  BY DEF DisconnectProximity, Snapshot, Links
<1>2. Sound(mic) /\ Follows(mic, link)
  BY <1>1 DEF MicInv
<1>3. /\ link' \in LinkTypes
      /\ \A p \in Peers : link'[p] = link[p] \ {"proximity"} \/ link'[p] = link[p]
  <2>1. CASE \E p \in Peers : DisconnectProximity(p)
    <3>1. PICK p \in Peers : link' = [link EXCEPT ![p] = @ \ {"proximity"}]
      BY <2>1 DEF DisconnectProximity, Links, Without
    <3> QED BY <3>1 DEF CaptureTyped, LinkTypes
  <2>2. CASE \E here \in BOOLEAN, there \in SUBSET Peers : Snapshot(here, there)
    <3>1. link' = [p \in Peers |-> link[p] \ {"proximity"}]
      BY <2>2 DEF Snapshot, Links
    <3> QED BY <3>1 DEF CaptureTyped, LinkTypes
  <2> QED BY <2>1, <2>2
<1>4. /\ Linked(link') \subseteq Linked(link)
      /\ \A p \in Linked(link') : Audible(mic, link', p) = Audible(mic, link, p)
  BY <1>3, LinksLost DEF Linked
<1>5. mic' = mic \/ mic' = MicDropPeers(mic, link')
  BY DEF DisconnectProximity, Snapshot, Links
<1>6. Sound(mic') /\ Follows(mic', link')
  <2>1. CASE mic' = mic
    <3>1. Follows(mic, link')
      BY <1>2, <1>4 DEF Follows
    <3> QED BY <1>2, <2>1, <3>1
  <2>2. CASE mic' = MicDropPeers(mic, link')
    BY <1>2, <1>4, <2>2, MicDropSound
  <2> QED BY <1>5, <2>1, <2>2
<1> QED BY <1>1, <1>3, <1>6 DEF MicInv, CaptureTyped, Sound


LEMMA PageLost ==
  ASSUME CaptureTyped, MicInv, NEW p \in Peers, EndPage(p)
  PROVE  MicInv' /\ CaptureTyped'
<1> DEFINE dropped == IF link'[p] = {} THEN MicDropPeers(mic, link') ELSE mic
           synced == SyncMicSenders(dropped, link')
<1>1. ~gone /\ gone' = gone
  BY DEF EndPage, Links
<1>2. Sound(mic)
  BY <1>1 DEF MicInv
<1>3. link' \in LinkTypes
  BY DEF EndPage, Links, Without, CaptureTyped, LinkTypes
<1>4. mic' = RestoreMuteAfterPage(synced, link')
  BY DEF EndPage, Links
<1>5. Sound(dropped)
  <2> DEFINE d == Dropped(mic, link')
             h == UpdateMicHold(d, link')
  <2>1. dropped = mic \/ dropped = h
    BY DEF MicDropPeers
  <2>2. d \in Mics /\ Calm(mic, d)
    BY <1>2, DropCalm DEF Sound
  <2>3. Sound(d)
    BY <1>2, <2>2, CalmSound
  <2> HIDE DEF d, dropped
  <2>4. h \in Mics /\ Alike(d, h)
    BY <2>2, HoldEffect
  <2>5. Sound(h)
    BY <2>3, <2>4, CalmSound DEF Alike
  <2> QED BY <1>2, <2>1, <2>5
<1> HIDE DEF dropped
<1>6. Sound(synced) /\ Follows(synced, link')
  BY <1>5, SoundSynced
<1> HIDE DEF synced
<1>7. Sound(mic') /\ SameWire(synced, mic')
  BY <1>4, <1>6, RestoreSound
<1>8. Follows(mic', link')
  BY <1>6, <1>7, AlikeFollows
<1> QED BY <1>1, <1>3, <1>7, <1>8 DEF MicInv, CaptureTyped, Sound

LEMMA MicLeaves ==
  ASSUME CaptureTyped, MicInv, Destroy PROVE MicInv' /\ CaptureTyped'
<1>1. mic' \in Mics /\ MicLeft(mic')
  BY DestroyLeaves DEF Destroy, MicInv
<1>2. link' \in LinkTypes /\ gone' = TRUE
  BY DEF Destroy, LinkTypes
<1>3. Follows(mic', link')
  BY <1>1, TracklessFollows DEF MicLeft
<1> QED BY <1>1, <1>2, <1>3 DEF MicInv, CaptureTyped

(* What the microphone's own handlers do, in a client that is there.       *)
MicActs ==
  \/ TogglesMic \/ IdleTimer \/ OpensSettings \/ SettingsListed \/ ClosesSettings
  \/ PicksMicrophone \/ OldTrackStopped
  \/ \E p \in Peers : SenderSwapped(p)
  \/ \E granted \in BOOLEAN : MicAcquired(granted)
  \/ \E age \in {"fresh", "stale"}, granted \in BOOLEAN :
       PreviewOpened(age, granted) \/ SwapAcquired(age, granted)

LEMMA MicActsStaying ==
  ASSUME MicInv, ~gone, MicActs
  PROVE  Sound(mic') /\ Follows(mic', link)
<1>1. mic \in Mics /\ Sound(mic) /\ Follows(mic, link)
  BY DEF MicInv
<1>2. ASSUME Sound(mic') /\ SameWire(mic, mic')
      PROVE  Sound(mic') /\ Follows(mic', link)
  BY <1>1, <1>2, AlikeFollows
<1>3. CASE TogglesMic
  <2>1. mic' = HandleMicToggle(mic, link)
    BY <1>3 DEF TogglesMic, Mic
  <2> QED BY <1>1, <1>2, <2>1, MicToggleSound
<1>4. CASE IdleTimer
  <2>1. mic' = IdleFires(mic, link)
    BY <1>4 DEF IdleTimer, Mic
  <2> QED BY <1>1, <2>1, IdleSound
<1>5. CASE OpensSettings
  <2>1. mic.panel = "closed" /\ mic' = [mic EXCEPT !.panel = "listing"]
    BY <1>5 DEF OpensSettings, Mic
  <2> QED BY <1>1, <1>2, <2>1, ListingSound
<1>6. CASE SettingsListed
  <2>1. mic' = DevicesListed(mic)
    BY <1>6 DEF SettingsListed, Mic
  <2> QED BY <1>1, <1>2, <2>1, ListedSound
<1>7. CASE ClosesSettings
  <2>1. mic' = HandleCloseAudioSettings(mic)
    BY <1>7 DEF ClosesSettings, Mic
  <2> QED BY <1>1, <1>2, <2>1, CloseSound
<1>8. CASE PicksMicrophone
  <2>1. mic' = SetMicDevice(mic)
    BY <1>8 DEF PicksMicrophone, Mic
  <2> QED BY <1>1, <1>2, <2>1, DeviceSound
<1>9. CASE OldTrackStopped
  <2>1. mic' = SwapDone(mic)
    BY <1>9 DEF OldTrackStopped, Mic
  <2> QED BY <1>1, <1>2, <2>1, DoneSound
<1>10. ASSUME NEW p \in Peers, SenderSwapped(p)
       PROVE  Sound(mic') /\ Follows(mic', link)
  <2>1. mic.pending[p] # <<>> /\ mic' = ReplaceTrackLands(mic, p)
    BY <1>10 DEF SenderSwapped, Mic
  <2>2. mic' \in Mics /\ Calm(mic, mic') /\ Follows(mic', link)
    BY <1>1, <2>1, LandsEffect
  <2> QED BY <1>1, <2>2, CalmSound
<1>11. ASSUME NEW granted \in BOOLEAN, MicAcquired(granted)
       PROVE  Sound(mic') /\ Follows(mic', link)
  <2>1. Tracks \ Used(mic) # {} /\ mic' = MicLands(mic, link, granted)
    BY <1>11 DEF MicAcquired, Lands, Mic
  <2> QED BY <1>1, <2>1, MicLandsSound
<1>12. ASSUME NEW age \in {"fresh", "stale"}, NEW granted \in BOOLEAN, PreviewOpened(age, granted)
       PROVE  Sound(mic') /\ Follows(mic', link)
  <2>1. age \in mic.previewing /\ mic' = PreviewLands(mic, age, granted)
    BY <1>12 DEF PreviewOpened, Mic
  <2> QED BY <1>1, <1>2, <2>1, PreviewSound
<1>13. ASSUME NEW age \in {"fresh", "stale"}, NEW granted \in BOOLEAN, SwapAcquired(age, granted)
       PROVE  Sound(mic') /\ Follows(mic', link)
  <2>1. /\ age \in mic.swapping /\ Tracks \ Used(mic) # {}
        /\ mic' = SwapLands(mic, link, age, granted)
    BY <1>13 DEF SwapAcquired, Mic
  <2> QED BY <1>1, <2>1, SwapSound
<1> QED
  BY <1>3, <1>4, <1>5, <1>6, <1>7, <1>8, <1>9, <1>10, <1>11, <1>12, <1>13 DEF MicActs

LEMMA MicActsLeft ==
  ASSUME MicInv, gone, MicActs
  PROVE  mic' \in Mics /\ MicLeft(mic')
<1>1. mic \in Mics /\ MicLeft(mic) /\ Follows(mic, link)
  BY DEF MicInv
<1>2. CASE TogglesMic \/ OpensSettings \/ SettingsListed \/ ClosesSettings \/ PicksMicrophone
  BY <1>1, <1>2 DEF TogglesMic, OpensSettings, SettingsListed, ClosesSettings,
     PicksMicrophone, MicLeft
<1>4. CASE IdleTimer
  <2>1. mic' = IdleFires(mic, link)
    BY <1>4 DEF IdleTimer, Mic
  <2> QED BY <1>1, <2>1, IdleLeft
<1>9. CASE OldTrackStopped
  <2>1. mic' = SwapDone(mic)
    BY <1>9 DEF OldTrackStopped, Mic
  <2> QED BY <1>1, <2>1, DoneLeft
<1>10. ASSUME NEW p \in Peers, SenderSwapped(p)
       PROVE  mic' \in Mics /\ MicLeft(mic')
  <2>1. mic.pending[p] # <<>> /\ mic' = ReplaceTrackLands(mic, p)
    BY <1>10 DEF SenderSwapped, Mic
  <2>2. mic' \in Mics /\ Calm(mic, mic') /\ mic'.acquiring = mic.acquiring
    BY <1>1, <2>1, LandsEffect
  <2> QED BY <1>1, <2>2, CalmLeft DEF MicLeft
<1>11. ASSUME NEW granted \in BOOLEAN, MicAcquired(granted)
       PROVE  mic' \in Mics /\ MicLeft(mic')
  <2> DEFINE k == MicLands(mic, link, granted)
  <2>1. mic' = [k EXCEPT !.shown = mic.shown, !.told = mic.told]
    BY <1>11 DEF MicAcquired, Lands, Mic
  <2> HIDE DEF k
  <2> QED BY <1>1, <2>1, LandsLeft DEF k
<1>12. ASSUME NEW age \in {"fresh", "stale"}, NEW granted \in BOOLEAN, PreviewOpened(age, granted)
       PROVE  mic' \in Mics /\ MicLeft(mic')
  <2>1. age \in mic.previewing /\ mic' = PreviewLands(mic, age, granted)
    BY <1>12 DEF PreviewOpened, Mic
  <2> QED BY <1>1, <2>1, PreviewLeft
<1>13. ASSUME NEW age \in {"fresh", "stale"}, NEW granted \in BOOLEAN, SwapAcquired(age, granted)
       PROVE  mic' \in Mics /\ MicLeft(mic')
  <2>1. age \in mic.swapping /\ mic' = SwapLands(mic, link, age, granted)
    BY <1>13 DEF SwapAcquired, Mic
  <2> QED BY <1>1, <2>1, SwapLeft
<1> QED
  BY <1>2, <1>4, <1>9, <1>10, <1>11, <1>12, <1>13 DEF MicActs


VideoActs ==
  \/ VideoTrackEnds \/ ClosesPanel
  \/ \E a \in Attempts : TogglesShare(a) \/ TogglesCamera(a)
  \/ \E a \in Attempts, ok \in BOOLEAN :
       \/ PermissionAnswered(a, ok) \/ CaptureAnswered(a, ok) \/ FrameAnswered(a, ok)
       \/ EffectAnswered(a, ok) \/ BackgroundStarted(a, ok)
  \/ \E on \in BOOLEAN : PicksBackground(on)

LEMMA MicActsFrame ==
  ASSUME MicActs PROVE UNCHANGED <<link, vid, gone>>
BY DEF MicActs, Mic, Lands, TogglesMic, IdleTimer, OpensSettings, SettingsListed,
   ClosesSettings, PicksMicrophone, OldTrackStopped, SenderSwapped, MicAcquired,
   PreviewOpened, SwapAcquired

LEMMA VideoActsFrame ==
  ASSUME VideoActs PROVE UNCHANGED <<link, mic, gone>>
BY DEF VideoActs, Video, VideoTrackEnds, ClosesPanel, TogglesShare, TogglesCamera,
   PermissionAnswered, CaptureAnswered, FrameAnswered, EffectAnswered, BackgroundStarted,
   PicksBackground

LEMMA CaptureCases ==
  ASSUME Next
  PROVE  \/ \E p \in Peers : Connect(p) \/ PageConnect(p)
         \/ \E p \in Peers : DisconnectProximity(p)
         \/ \E here \in BOOLEAN, there \in SUBSET Peers : Snapshot(here, there)
         \/ \E p \in Peers : EndPage(p)
         \/ \E p \in Peers : PeerMoves(p)
         \/ \E here \in BOOLEAN : Frame(here)
         \/ Destroy \/ MicActs \/ VideoActs
BY DEF Next, MicActs, VideoActs

LEMMA MicNext ==
  ASSUME CaptureTyped, MicInv, [Next]_captureVars
  PROVE  MicInv' /\ CaptureTyped'
<1>1. CASE \E p \in Peers : Connect(p) \/ PageConnect(p)
  BY <1>1, LinkGrows
<1>2. CASE \/ \E p \in Peers : DisconnectProximity(p)
           \/ \E here \in BOOLEAN, there \in SUBSET Peers : Snapshot(here, there)
  BY <1>2, ProximityLost
<1>3. CASE \E p \in Peers : EndPage(p)
  BY <1>3, PageLost
<1>4. CASE Destroy
  BY <1>4, MicLeaves
<1>5. CASE MicActs
  <2>1. link' = link /\ gone' = gone
    BY <1>5, MicActsFrame
  <2>2. CASE gone
    <3>1. mic' \in Mics /\ MicLeft(mic')
      BY <1>5, <2>2, MicActsLeft
    <3>2. Follows(mic', link)
      BY <3>1, TracklessFollows DEF MicLeft
    <3> QED BY <2>1, <2>2, <3>1, <3>2 DEF MicInv, CaptureTyped
  <2>3. CASE ~gone
    <3>1. Sound(mic') /\ Follows(mic', link)
      BY <1>5, <2>3, MicActsStaying
    <3> QED BY <2>1, <2>3, <3>1 DEF MicInv, CaptureTyped, Sound
  <2> QED BY <2>2, <2>3
<1>6. ASSUME UNCHANGED <<link, mic, gone>>
      PROVE  MicInv' /\ CaptureTyped'
  BY <1>6 DEF MicInv, CaptureTyped
<1>7. CASE \E p \in Peers : PeerMoves(p)
  BY <1>6, <1>7 DEF PeerMoves, Links
<1>8. CASE \E here \in BOOLEAN : Frame(here)
  BY <1>6, <1>8 DEF Frame, Links
<1>9. CASE VideoActs
  BY <1>6, <1>9, VideoActsFrame
<1>10. CASE UNCHANGED captureVars
  BY <1>6, <1>10 DEF captureVars
<1> QED
  BY <1>1, <1>2, <1>3, <1>4, <1>5, <1>7, <1>8, <1>9, <1>10, CaptureCases

LEMMA MicStart == ASSUME Init PROVE MicInv /\ CaptureTyped
<1> DEFINE m == MicInit
<1>1. mic = m /\ gone = FALSE /\ link \in LinkTypes
  BY DEF Init, LinkTypes
<1>2. None \in Held /\ <<>> \in Seq(Held)
  BY DEF Held
<1>3. m \in Mics
  BY <1>2 DEF MicInit, Mics
<1>4. /\ m.track = None /\ ~m.enabled /\ ~m.preview /\ m.waiting = {} /\ m.swapping = {}
      /\ m.previewing = {} /\ m.muted = TRUE /\ m.shown = TRUE /\ m.told = TRUE
  BY DEF MicInit
<1> HIDE DEF m
<1>5. Sound(m)
  BY <1>3, <1>4 DEF Sound, PanelOpen, Silent, Awaits, Reported
<1>6. Follows(m, link)
  BY <1>4, TracklessFollows
<1> QED BY <1>1, <1>3, <1>5, <1>6 DEF MicInv, CaptureTyped

LEMMA MicHolds == ASSUME MicInv, CaptureTyped PROVE MicSound
<1>1. CASE gone
  BY <1>1 DEF MicInv, MicLeft, MicSound, NoMicLeak, MutedIsSilent, TruthTold, SendersFollow
<1>2. CASE ~gone
  <2>1. PanelOpen(mic) /\ Silent(mic) /\ Reported(mic) /\ Follows(mic, link)
    BY <1>2 DEF MicInv, Sound
  <2>2. NoMicLeak
    BY <1>2, <2>1 DEF NoMicLeak, PanelOpen
  <2>3. MutedIsSilent
    BY <2>1 DEF MutedIsSilent, Silent
  <2>4. TruthTold
    BY <2>1 DEF TruthTold, Reported
  <2>5. SendersFollow
    BY <2>1 DEF SendersFollow, Follows
  <2> QED BY <2>2, <2>3, <2>4, <2>5 DEF MicSound
<1> QED BY <1>1, <1>2

(* Whatever prompt, swap or preview is answered late, refused or never:    *)
(* the microphone of audio.ts is open only for a reason, muted is silent,  *)
(* the button and the org are told the truth, and once the swaps have      *)
(* landed every peer is sent what it may hear.                             *)
THEOREM MicSoundCorrect == Spec => []MicSound
<1>1. Init => MicInv /\ CaptureTyped
  BY MicStart
<1>2. MicInv /\ CaptureTyped /\ [Next]_captureVars => (MicInv /\ CaptureTyped)'
  BY MicNext
<1>3. MicInv /\ CaptureTyped => MicSound
  BY MicHolds
<1> QED BY <1>1, <1>2, <1>3, PTL DEF Spec


(***************************************************************************)
(* Camera and screen.  X holds an attempt that is just becoming the video, *)
(* or nobody.                                                              *)
(***************************************************************************)
Kinds == {"off", "screen", "camera"}

Stages == {"none", "permission", "asked", "probing", "effect"}

Videos ==
  [mode : Kinds, scope : {"call", "place"}, pending : Kinds,
   current : Attempts \union {None}, stage : [Attempts -> Stages],
   kind : [Attempts -> Kinds], asked : [Attempts -> SUBSET Peers],
   place : [Attempts -> BOOLEAN], open : SUBSET Attempts,
   live : Attempts \union {None}, source : Attempts \union {None},
   wanted : BOOLEAN, effect : BOOLEAN, making : SUBSET Attempts,
   to : SUBSET Peers, here : BOOLEAN, there : SUBSET Peers]

(* What each mode sends; a camera is its own source.                       *)
Modes(v) ==
  /\ v.mode = "off" => v.live = None /\ v.source = None /\ v.to = {} /\ ~v.effect
  /\ v.mode # "off" => v.live # None
  /\ v.mode = "screen" => v.source = None
  /\ v.mode = "camera" => v.source = v.live

Busy(v, X) ==
  \A a \in Attempts \ X : v.stage[a] # "none" => a # v.live /\ v.kind[a] # "off"

Probes(v, X) == {a \in Attempts \ X : v.stage[a] \in {"probing", "effect"}}

Accounted(v, X) == v.open = ({v.live, v.source} \ {None}) \union Probes(v, X)

(* The epoch belongs to an attempt that is pending, or to none that could  *)
(* still install what it gets.                                             *)
Pends(v, X) ==
  v.pending = "off" =>
    v.current = None \/ v.current \in X \/ v.stage[v.current] \in {"none", "permission"}

Showing(v, X) == v \in Videos /\ Modes(v) /\ Busy(v, X) /\ Accounted(v, X) /\ Pends(v, X)

InScope(v, l) ==
  /\ v.mode # "off" => IF v.scope = "call" THEN Paging(l) ELSE ~Paging(l) /\ v.here
  /\ \A p \in v.to : (IF v.scope = "call" THEN "page" ELSE "proximity") \in l[p]

VidInv ==
  /\ Showing(vid, {}) /\ InScope(vid, link)
  /\ gone => vid.mode = "off" /\ vid.pending = "off"

NoneApart == None \notin Attempts

LEMMA NoneNoAttempt == NoneApart
BY CaptureAssumption DEF CaptureAssumption, NoneApart

LEMMA OffInScope ==
  ASSUME NEW v, Modes(v), v.mode = "off", NEW l PROVE InScope(v, l)
BY DEF Modes, InScope

(* What is shown, to whom and why, is as it was.                           *)
SameShow(v, n) ==
  /\ n.mode = v.mode /\ n.scope = v.scope /\ n.live = v.live /\ n.source = v.source
  /\ n.effect = v.effect /\ n.to = v.to /\ n.here = v.here /\ n.open = v.open

LEMMA SameScope ==
  ASSUME NEW v, NEW n, SameShow(v, n), NEW l, InScope(v, l) PROVE InScope(n, l)
BY DEF SameShow, InScope

LEMMA SameModes ==
  ASSUME NEW v, NEW n, SameShow(v, n), Modes(v) PROVE Modes(n)
BY DEF SameShow, Modes

LEMMA CancelEffect ==
  ASSUME NEW v, NEW X, Showing(v, X), NEW kinds, NEW n, n = CancelVideoAcquire(v, kinds)
  PROVE  /\ Showing(n, X) /\ SameShow(v, n)
         /\ n.stage = v.stage /\ n.kind = v.kind /\ n.wanted = v.wanted
         /\ kinds = {"screen", "camera"} => n.pending = "off"
         /\ v.pending = "off" => n.pending = "off"
<1>1. v \in Videos /\ Modes(v) /\ Busy(v, X) /\ Accounted(v, X) /\ Pends(v, X)
  BY DEF Showing
<1>2. CASE v.pending \in kinds
  <2>1. n = [v EXCEPT !.pending = "off", !.current = None]
    BY <1>2 DEF CancelVideoAcquire
  <2>2. n \in Videos
    BY <1>1, <2>1 DEF Videos, Kinds
  <2>3. SameShow(v, n) /\ n.stage = v.stage /\ n.kind = v.kind /\ n.wanted = v.wanted
        /\ n.pending = "off" /\ n.current = None
    BY <1>1, <2>1 DEF Videos, SameShow
  <2>4. Busy(n, X) /\ Pends(n, X)
    BY <1>1, <2>3 DEF Busy, Pends, SameShow
  <2>5. Accounted(n, X)
    BY <1>1, <2>3 DEF Accounted, Probes, SameShow
  <2> QED BY <1>1, <2>2, <2>3, <2>4, <2>5, SameModes DEF Showing
<1>3. CASE v.pending \notin kinds
  <2>1. n = v
    BY <1>3 DEF CancelVideoAcquire
  <2>2. kinds = {"screen", "camera"} => v.pending = "off"
    BY <1>1, <1>3 DEF Videos, Kinds
  <2> QED BY <2>1, <2>2 DEF SameShow
<1> QED BY <1>2, <1>3

LEMMA StopVideoEffect ==
  ASSUME NEW v, NEW X, Showing(v, X), NEW n, n = StopVideo(v)
  PROVE  /\ Showing(n, X) /\ n.mode = "off"
         /\ n.stage = v.stage /\ n.pending = v.pending /\ n.wanted = v.wanted
         /\ n.here = v.here /\ n.scope = v.scope /\ n.kind = v.kind
<1>1. v \in Videos /\ Modes(v) /\ Busy(v, X) /\ Accounted(v, X) /\ Pends(v, X)
  BY DEF Showing
<1> DEFINE shut == v.open \ {v.live, v.source}
<1>2. n = [v EXCEPT !.mode = "off", !.to = {}, !.open = shut,
                    !.live = None, !.source = None, !.effect = FALSE]
  BY DEF StopVideo
<1>3. shut \in SUBSET Attempts
  BY <1>1 DEF Videos
<1>4. shut = Probes(v, X)
  <2>1. v.source = None \/ v.source = v.live
    BY <1>1 DEF Modes, Videos, Kinds
  <2>2. \A a \in Probes(v, X) : a # v.live /\ a # None
    BY <1>1, NoneNoAttempt DEF Busy, Probes, NoneApart
  <2>3. None \notin v.open
    BY <1>1, NoneNoAttempt DEF Videos, NoneApart
  <2> QED BY <1>1, <2>1, <2>2, <2>3 DEF Accounted
<1> HIDE DEF shut
<1>5. n \in Videos
  BY <1>1, <1>2, <1>3 DEF Videos, Kinds
<1>6. /\ n.mode = "off" /\ n.to = {} /\ n.open = shut /\ n.live = None /\ n.source = None
      /\ n.effect = FALSE /\ n.stage = v.stage /\ n.pending = v.pending
      /\ n.wanted = v.wanted /\ n.here = v.here /\ n.scope = v.scope
      /\ n.kind = v.kind /\ n.current = v.current
  BY <1>1, <1>2 DEF Videos
<1>7. Modes(n) /\ Pends(n, X)
  BY <1>1, <1>6 DEF Modes, Pends
<1>8. Busy(n, X)
  <2>1. \A a \in Attempts : a # None
    BY NoneNoAttempt DEF NoneApart
  <2> QED BY <1>1, <1>6, <2>1 DEF Busy
<1>9. Accounted(n, X)
  BY <1>4, <1>6 DEF Accounted, Probes
<1> QED BY <1>5, <1>6, <1>7, <1>8, <1>9 DEF Showing

LEMMA EndEffect ==
  ASSUME NEW v, NEW X, Showing(v, X), NEW n, n = EndVideo(v)
  PROVE  /\ Showing(n, X) /\ n.mode = "off" /\ n.pending = "off"
         /\ n.stage = v.stage /\ n.wanted = v.wanted /\ n.kind = v.kind
<1> DEFINE w == CancelVideoAcquire(v, {"screen", "camera"})
<1>1. /\ Showing(w, X) /\ w.pending = "off" /\ w.stage = v.stage /\ w.wanted = v.wanted
      /\ w.kind = v.kind
  BY CancelEffect
<1>2. IF w.mode # "off" THEN n = StopVideo(w) ELSE n = w
  BY DEF EndVideo
<1> HIDE DEF w
<1> QED BY <1>1, <1>2, StopVideoEffect

LEMMA StopKindEffect ==
  ASSUME NEW v, NEW X, Showing(v, X), NEW kind, NEW n, n = StopKind(v, kind)
  PROVE  /\ Showing(n, X) /\ \A l : InScope(v, l) => InScope(n, l)
         /\ v.mode = "off" => n.mode = "off"
         /\ v.pending = "off" => n.pending = "off"
<1> DEFINE w == CancelVideoAcquire(v, {kind})
<1>1. Showing(w, X) /\ SameShow(v, w) /\ (v.pending = "off" => w.pending = "off")
  BY CancelEffect
<1>2. n = w \/ n = StopVideo(w)
  BY DEF StopKind
<1> HIDE DEF w
<1>3. CASE n = w
  BY <1>1, <1>3, SameScope DEF SameShow
<1>4. CASE n = StopVideo(w)
  <2>1. Showing(n, X) /\ n.mode = "off" /\ n.pending = w.pending
    BY <1>1, <1>4, StopVideoEffect
  <2> QED BY <1>1, <2>1, OffInScope DEF Showing
<1> QED BY <1>2, <1>3, <1>4


LEMMA SyncVideoEffect ==
  ASSUME NEW v, NEW X, Showing(v, X), NEW l, NEW n, n = SyncVideoLinks(v, l)
  PROVE  Showing(n, X) /\ InScope(n, l) /\ n.stage = v.stage /\ n.kind = v.kind
<1> DEFINE w == IF ReasonGone(v, l) THEN EndVideo(v) ELSE v
           people == VideoSenders(w, l)
<1>1. n = [w EXCEPT !.to = people]
  BY DEF SyncVideoLinks
<1>2. /\ Showing(w, X) /\ w.stage = v.stage /\ w.kind = v.kind
      /\ w.mode = "off" \/ (w = v /\ ~ReasonGone(v, l))
  BY EndEffect
<1> HIDE DEF w
<1>3. w \in Videos /\ Modes(w) /\ Busy(w, X) /\ Accounted(w, X) /\ Pends(w, X)
  BY <1>2 DEF Showing
<1>4. /\ people \in SUBSET Peers
      /\ w.mode = "off" => people = {}
      /\ \A p \in people : (IF w.scope = "call" THEN "page" ELSE "proximity") \in l[p]
  <2>1. w.there \in SUBSET Peers
    BY <1>3 DEF Videos
  <2> QED BY <2>1 DEF VideoSenders, VideoAudience, Called
<1> HIDE DEF people
<1>5. n \in Videos
  BY <1>1, <1>3, <1>4 DEF Videos
<1>6. /\ n.mode = w.mode /\ n.live = w.live /\ n.source = w.source /\ n.effect = w.effect
      /\ n.open = w.open /\ n.stage = w.stage /\ n.kind = w.kind /\ n.pending = w.pending
      /\ n.current = w.current /\ n.scope = w.scope /\ n.here = w.here /\ n.to = people
  BY <1>1, <1>3 DEF Videos
<1>7. Modes(n) /\ Busy(n, X) /\ Pends(n, X)
  BY <1>3, <1>4, <1>6 DEF Modes, Busy, Pends
<1>8. Accounted(n, X)
  BY <1>3, <1>6 DEF Accounted, Probes
<1>9. InScope(n, l)
  BY <1>2, <1>4, <1>6 DEF InScope, ReasonGone
<1> QED BY <1>2, <1>5, <1>6, <1>7, <1>8, <1>9 DEF Showing

(* An attempt that has its capture, and is about to become the video.      *)
Ready(v, a) ==
  /\ v \in Videos /\ Modes(v) /\ Busy(v, {a}) /\ Pends(v, {a}) /\ a # v.live
  /\ v.open = ({v.live, v.source} \ {None}) \union Probes(v, {a}) \union {a}

LEMMA VideoStarted ==
  ASSUME NEW v \in Videos, NEW kind \in Kinds, NEW a \in Attempts \union {None},
         NEW open \in SUBSET Attempts, NEW from \in Attempts \union {None}, NEW on \in BOOLEAN
  PROVE  [v EXCEPT !.mode = kind, !.live = a, !.open = open, !.source = from,
                   !.effect = on] \in Videos
BY DEF Videos

LEMMA StartEffect ==
  ASSUME NEW v, NEW a \in Attempts, Ready(v, a), NEW kind \in {"screen", "camera"},
         NEW e \in BOOLEAN, NEW b,
         b = IF kind = "screen" THEN v ELSE [v EXCEPT !.source = a, !.effect = e],
         NEW l, NEW n, n = StartVideo(b, l, kind, a)
  PROVE  Showing(n, {a}) /\ InScope(n, l) /\ n.stage = v.stage /\ n.kind = v.kind
<1> DEFINE over == {b.live} \union (IF kind = "screen" THEN {b.source} ELSE {})
           still == b.open \ (over \ {a})
           from == IF kind = "screen" THEN None ELSE b.source
           on == IF kind = "screen" THEN FALSE ELSE b.effect
           w == [b EXCEPT !.mode = kind, !.live = a, !.open = still,
                          !.source = from, !.effect = on]
<1>1. n = SyncVideoLinks(w, l)
  BY DEF StartVideo
<1>2. v \in Videos /\ Modes(v) /\ Busy(v, {a}) /\ Pends(v, {a}) /\ a # v.live
      /\ v.open = ({v.live, v.source} \ {None}) \union Probes(v, {a}) \union {a}
  BY DEF Ready
<1>3. b \in Videos
  <2>1. kind = "camera" => b = [v EXCEPT !.source = a, !.effect = e]
    BY Zenon
  <2>2. kind = "screen" => b = v
    OBVIOUS
  <2>3. CASE kind = "camera"
    BY <1>2, <2>1, <2>3 DEF Videos
  <2> QED BY <1>2, <2>2, <2>3
<1>4. /\ b.live = v.live /\ b.open = v.open /\ b.stage = v.stage /\ b.kind = v.kind
      /\ b.pending = v.pending /\ b.current = v.current /\ b.to = v.to
      /\ b.source = IF kind = "screen" THEN v.source ELSE a
      /\ b.effect \in BOOLEAN
  BY <1>2 DEF Videos
<1>5. still = {a} \union Probes(v, {a})
  <2>1. v.source = None \/ v.source = v.live
    BY <1>2 DEF Modes, Videos, Kinds
  <2>2. \A c \in Probes(v, {a}) : c # v.live /\ c # None /\ c # a
    BY <1>2, NoneNoAttempt DEF Busy, Probes, NoneApart
  <2>3. a # None
    BY NoneNoAttempt DEF NoneApart
  <2>4. over \ {a} = {v.live} \/ over \ {a} = {v.live, v.source}
    <3>1. CASE kind = "screen"
      <4>1. a # v.source
        BY <1>2, <2>1, <2>3
      <4> QED BY <1>2, <1>4, <3>1, <4>1
    <3>2. CASE kind # "screen"
      BY <1>2, <1>4, <3>2
    <3> QED BY <3>1, <3>2
  <2>5. still = v.open \ {v.live} \/ still = v.open \ {v.live, v.source}
    BY <1>4, <2>4
  <2> HIDE DEF still, over
  <2>6. None \notin v.open
    BY <1>2, NoneNoAttempt DEF Videos, NoneApart
  <2> QED BY <1>2, <2>1, <2>2, <2>3, <2>5, <2>6
<1>6. /\ still \in SUBSET Attempts /\ from \in {a, None} /\ on \in BOOLEAN
      /\ kind = "screen" => from = None
      /\ kind = "camera" => from = a
  <2>1. still \in SUBSET Attempts
    BY <1>5 DEF Probes
  <2>2. from \in {a, None} /\ on \in BOOLEAN
        /\ (kind = "screen" => from = None) /\ (kind = "camera" => from = a)
    BY <1>4
  <2> QED BY <2>1, <2>2
<1> HIDE DEF over, still, from, on
<1>7. w \in Videos
  <2>1. /\ kind \in Kinds /\ a \in Attempts \union {None} /\ from \in Attempts \union {None}
        /\ still \in SUBSET Attempts /\ on \in BOOLEAN
    BY <1>6 DEF Kinds
  <2> QED BY <1>3, <2>1, VideoStarted
<1>8. /\ w.mode = kind /\ w.live = a /\ w.open = still /\ w.source = from
      /\ w.stage = v.stage /\ w.kind = v.kind /\ w.pending = v.pending
      /\ w.current = v.current
  BY <1>3, <1>4 DEF Videos
<1> HIDE DEF w
<1>9. Modes(w)
  BY <1>6, <1>8, NoneNoAttempt DEF Modes, NoneApart
<1>10. Busy(w, {a}) /\ Pends(w, {a})
  BY <1>2, <1>8 DEF Busy, Pends
<1>11. Accounted(w, {a})
  <2>1. ({a, from} \ {None}) = {a}
    BY <1>6, NoneNoAttempt DEF NoneApart
  <2> QED BY <1>5, <1>8, <2>1 DEF Accounted, Probes
<1>12. Showing(w, {a})
  BY <1>7, <1>9, <1>10, <1>11 DEF Showing
<1> QED BY <1>1, <1>8, <1>12, SyncVideoEffect

(* An attempt ends: it holds nothing, and nothing pends for it.            *)
LEMMA OverEffect ==
  ASSUME NEW v, NEW a \in Attempts, NEW X, X = {} \/ X = {a}, Showing(v, X),
         X = {} => v.stage[a] \notin {"probing", "effect"},
         NEW n, n = Over(v, a)
  PROVE  /\ Showing(n, {}) /\ SameShow(v, n) /\ n.stage[a] = "none" /\ n.wanted = v.wanted
         /\ v.pending = "off" => n.pending = "off"
         /\ n.current = v.current
<1> DEFINE stages == [v.stage EXCEPT ![a] = "none"]
           asks == [v.asked EXCEPT ![a] = {}]
           places == [v.place EXCEPT ![a] = FALSE]
           kinds == [v.kind EXCEPT ![a] = "off"]
           pends == IF v.current = a THEN "off" ELSE v.pending
<1>1. v \in Videos /\ Modes(v) /\ Busy(v, X) /\ Accounted(v, X) /\ Pends(v, X)
  BY DEF Showing
<1>2. n = [v EXCEPT !.stage = stages, !.asked = asks, !.place = places, !.kind = kinds,
                    !.pending = pends]
  BY DEF Over
<1>3. /\ v.stage \in [Attempts -> Stages] /\ v.kind \in [Attempts -> Kinds]
      /\ v.asked \in [Attempts -> SUBSET Peers] /\ v.place \in [Attempts -> BOOLEAN]
      /\ v.pending \in Kinds
  BY <1>1 DEF Videos
<1>4. /\ stages \in [Attempts -> Stages] /\ stages[a] = "none"
      /\ \A b \in Attempts \ {a} : stages[b] = v.stage[b] /\ kinds[b] = v.kind[b]
  BY <1>3 DEF Stages
<1>5. kinds \in [Attempts -> Kinds] /\ pends \in Kinds
  BY <1>3 DEF Kinds
<1>6. asks \in [Attempts -> SUBSET Peers] /\ places \in [Attempts -> BOOLEAN]
  BY <1>3
<1>7. pends = IF v.current = a THEN "off" ELSE v.pending
  OBVIOUS
<1> HIDE DEF stages, asks, places, kinds, pends
<1>8. n \in Videos
  BY <1>1, <1>2, <1>4, <1>5, <1>6 DEF Videos
<1>9. /\ SameShow(v, n) /\ n.stage = stages /\ n.kind = kinds /\ n.pending = pends
      /\ n.current = v.current /\ n.wanted = v.wanted
  BY <1>1, <1>2 DEF Videos, SameShow
<1>10. Busy(n, {})
  BY <1>1, <1>4, <1>9 DEF Busy, SameShow
<1>11. Accounted(n, {})
  <2>1. Probes(n, {}) = Probes(v, X)
    BY <1>4, <1>9 DEF Probes
  <2> QED BY <1>1, <1>9, <2>1 DEF Accounted, SameShow
<1>12. Pends(n, {})
  <2>1. v.current \in Attempts \union {None}
    BY <1>1 DEF Videos
  <2> QED BY <1>1, <1>4, <1>7, <1>9, <2>1 DEF Pends
<1> QED BY <1>1, <1>4, <1>7, <1>8, <1>9, <1>10, <1>11, <1>12, SameModes DEF Showing

LEMMA StoppedEffect ==
  ASSUME NEW v, NEW a \in Attempts, Showing(v, {}), v.stage[a] \in {"probing", "effect"},
         NEW n, n = Stopped(v, a)
  PROVE  /\ Showing(n, {}) /\ \A l : InScope(v, l) => InScope(n, l)
         /\ n.mode = v.mode
         /\ v.pending = "off" => n.pending = "off"
<1> DEFINE shut == v.open \ {a}
           u == [v EXCEPT !.open = shut]
<1>1. v \in Videos /\ Modes(v) /\ Busy(v, {}) /\ Accounted(v, {}) /\ Pends(v, {})
  BY DEF Showing
<1>2. a # v.live /\ a # v.source
  <2>1. v.source = None \/ v.source = v.live
    BY <1>1 DEF Modes, Videos, Kinds
  <2>2. a # v.live /\ a # None
    BY <1>1, NoneNoAttempt DEF Busy, NoneApart
  <2> QED BY <2>1, <2>2
<1>3. shut \in SUBSET Attempts
  BY <1>1 DEF Videos
<1>4. shut = ({v.live, v.source} \ {None}) \union Probes(v, {a})
  BY <1>1, <1>2 DEF Accounted, Probes
<1> HIDE DEF shut
<1>5. u \in Videos
  BY <1>1, <1>3 DEF Videos
<1>6. /\ u.mode = v.mode /\ u.scope = v.scope /\ u.live = v.live /\ u.source = v.source
      /\ u.effect = v.effect /\ u.to = v.to /\ u.here = v.here /\ u.open = shut
      /\ u.stage = v.stage /\ u.kind = v.kind /\ u.pending = v.pending /\ u.current = v.current
  BY <1>1 DEF Videos
<1>7. n = Over(u, a)
  <2>1. n = [Over(v, a) EXCEPT !.open = @ \ {a}]
    BY DEF Stopped
  <2> QED BY <1>1, <1>5, <2>1 DEF Over, Videos, shut
<1> HIDE DEF u
<1>8. Modes(u) /\ Busy(u, {a}) /\ Pends(u, {a})
  BY <1>1, <1>6 DEF Modes, Busy, Pends
<1>9. Accounted(u, {a})
  BY <1>4, <1>6 DEF Accounted, Probes
<1>10. Showing(u, {a})
  BY <1>5, <1>8, <1>9 DEF Showing
<1>11. Showing(n, {}) /\ SameShow(u, n) /\ (u.pending = "off" => n.pending = "off")
  BY <1>7, <1>10, OverEffect
<1>12. \A l : InScope(v, l) => InScope(n, l)
  BY <1>6, <1>11 DEF InScope, SameShow
<1> QED BY <1>6, <1>11, <1>12 DEF SameShow


(* A step of a client that is still there.                                 *)
Allowed(n, l) == Showing(n, {}) /\ InScope(n, l)

LEMMA WithEffect ==
  ASSUME NEW v, NEW X, Showing(v, X), NEW e \in BOOLEAN, v.mode = "off" => ~e,
         NEW n, n = [v EXCEPT !.effect = e]
  PROVE  Showing(n, X) /\ \A l : InScope(v, l) => InScope(n, l)
<1>1. v \in Videos /\ Modes(v) /\ Busy(v, X) /\ Accounted(v, X) /\ Pends(v, X)
  BY DEF Showing
<1>2. n \in Videos
  BY <1>1 DEF Videos
<1>3. /\ n.mode = v.mode /\ n.scope = v.scope /\ n.live = v.live /\ n.source = v.source
      /\ n.to = v.to /\ n.here = v.here /\ n.open = v.open /\ n.effect = e
      /\ n.stage = v.stage /\ n.kind = v.kind /\ n.pending = v.pending /\ n.current = v.current
  BY <1>1 DEF Videos
<1>4. Modes(n) /\ Busy(n, X) /\ Pends(n, X)
  BY <1>1, <1>3 DEF Modes, Busy, Pends
<1>5. Accounted(n, X)
  BY <1>1, <1>3 DEF Accounted, Probes
<1>6. \A l : InScope(v, l) => InScope(n, l)
  BY <1>3 DEF InScope
<1> QED BY <1>2, <1>4, <1>5, <1>6 DEF Showing

LEMMA CameraOnEffect ==
  ASSUME NEW v, NEW a \in Attempts, Ready(v, a), NEW l, NEW e \in BOOLEAN,
         NEW n, n = CameraOn(v, l, a, e)
  PROVE  Allowed(n, l)
<1> DEFINE b == [v EXCEPT !.source = a, !.effect = e]
           on == StartVideo(b, l, "camera", a)
           f == on.effect /\ on.wanted
           m == [on EXCEPT !.effect = f]
           w == Over(m, a)
<1>1. n = CameraChecked(m, l, a)
  BY DEF CameraOn
<1>2. n = w \/ n = StopKind(w, "camera")
  BY <1>1 DEF CameraChecked
<1>3. b = IF "camera" = "screen" THEN v ELSE [v EXCEPT !.source = a, !.effect = e]
  OBVIOUS
<1> HIDE DEF b
<1>4. Showing(on, {a}) /\ InScope(on, l)
  BY <1>3, StartEffect
<1> HIDE DEF on
<1>5. f \in BOOLEAN /\ (on.mode = "off" => ~f)
  BY <1>4 DEF Showing, Modes
<1> HIDE DEF f
<1>6. Showing(m, {a}) /\ InScope(m, l)
  BY <1>4, <1>5, WithEffect
<1> HIDE DEF m
<1>7. Showing(w, {}) /\ SameShow(m, w)
  BY <1>6, OverEffect
<1>8. InScope(w, l)
  BY <1>6, <1>7, SameScope
<1> HIDE DEF w
<1> QED BY <1>2, <1>7, <1>8, StopKindEffect DEF Allowed

LEMMA ReadyNow ==
  ASSUME NEW v, NEW a \in Attempts, Showing(v, {}), v.stage[a] \in {"probing", "effect"}
  PROVE  Ready(v, a)
<1>1. v \in Videos /\ Modes(v) /\ Busy(v, {}) /\ Accounted(v, {}) /\ Pends(v, {})
  BY DEF Showing
<1>2. Busy(v, {a}) /\ Pends(v, {a}) /\ a # v.live
  BY <1>1 DEF Busy, Pends
<1>3. Probes(v, {}) = Probes(v, {a}) \union {a}
  BY DEF Probes
<1> QED BY <1>1, <1>2, <1>3 DEF Ready, Accounted

LEMMA FrameEffect ==
  ASSUME NEW v, NEW a \in Attempts, Showing(v, {}), v.stage[a] = "probing", NEW l,
         InScope(v, l), NEW came \in BOOLEAN, NEW n, n = FirstFrame(v, l, a, came)
  PROVE  Allowed(n, l) /\ (IsStale(v, a) => n = Stopped(v, a))
<1>1. CASE n = Stopped(v, a)
  BY <1>1, StoppedEffect DEF Allowed
<1>2. CASE n # Stopped(v, a)
  <2> DEFINE on == StartVideo(v, l, "screen", a)
  <2>1. n = Over(on, a) /\ ~IsStale(v, a)
    BY <1>2 DEF FirstFrame
  <2>2. Ready(v, a)
    BY ReadyNow
  <2>3. Showing(on, {a}) /\ InScope(on, l)
    <3>1. v = IF "screen" = "screen" THEN v ELSE [v EXCEPT !.source = a, !.effect = TRUE]
      OBVIOUS
    <3> QED BY <2>2, <3>1, StartEffect
  <2> HIDE DEF on
  <2>4. Showing(n, {}) /\ SameShow(on, n)
    BY <2>1, <2>3, OverEffect
  <2> QED BY <2>1, <2>3, <2>4, SameScope DEF Allowed
<1> QED BY <1>1, <1>2

LEMMA EffectReadyEffect ==
  ASSUME NEW v, NEW a \in Attempts, Showing(v, {}), v.stage[a] = "effect", NEW l,
         InScope(v, l), NEW started \in BOOLEAN, NEW n, n = EffectReady(v, l, a, started)
  PROVE  Allowed(n, l) /\ (IsStale(v, a) => n = Stopped(v, a))
<1>1. CASE n = Stopped(v, a)
  BY <1>1, StoppedEffect DEF Allowed
<1>2. CASE n # Stopped(v, a)
  <2>1. n = CameraOn(v, l, a, TRUE) /\ ~IsStale(v, a)
    BY <1>2 DEF EffectReady
  <2>2. Ready(v, a)
    BY ReadyNow
  <2> QED BY <2>1, <2>2, CameraOnEffect
<1> QED BY <1>1, <1>2

LEMMA CaptureEffect ==
  ASSUME NEW v, NEW a \in Attempts, Showing(v, {}), v.stage[a] = "asked", NEW l,
         InScope(v, l), NEW granted \in BOOLEAN, NEW n, n = CaptureLands(v, l, a, granted)
  PROVE  Allowed(n, l) /\ (IsStale(v, a) => n = Over(v, a))
<1> DEFINE opened == v.open \union {a}
           w == [v EXCEPT !.open = opened]
<1>1. v \in Videos /\ Modes(v) /\ Busy(v, {}) /\ Accounted(v, {}) /\ Pends(v, {})
  BY DEF Showing
<1>2. CASE ~granted \/ IsStale(v, a)
  <2>1. n = Over(v, a)
    BY <1>2 DEF CaptureLands
  <2>2. Showing(n, {}) /\ SameShow(v, n)
    BY <2>1, OverEffect
  <2> QED BY <2>1, <2>2, SameScope DEF Allowed
<1>3. CASE ~(~granted \/ IsStale(v, a))
  <2>1. \/ n = [w EXCEPT !.stage[a] = "probing"]
        \/ n = [w EXCEPT !.stage[a] = "effect"]
        \/ n = CameraOn(w, l, a, FALSE)
    BY <1>3 DEF CaptureLands
  <2>2. opened \in SUBSET Attempts
    BY <1>1 DEF Videos
  <2>3. opened = ({v.live, v.source} \ {None}) \union Probes(v, {a}) \union {a}
    BY <1>1 DEF Accounted, Probes
  <2> HIDE DEF opened
  <2>4. w \in Videos
    BY <1>1, <2>2 DEF Videos
  <2>5. /\ w.mode = v.mode /\ w.scope = v.scope /\ w.live = v.live /\ w.source = v.source
        /\ w.effect = v.effect /\ w.to = v.to /\ w.here = v.here /\ w.open = opened
        /\ w.stage = v.stage /\ w.kind = v.kind /\ w.pending = v.pending /\ w.current = v.current
    BY <1>1 DEF Videos
  <2> HIDE DEF w
  <2>6. CASE n = CameraOn(w, l, a, FALSE)
    <3>1. Modes(w) /\ Busy(w, {a}) /\ Pends(w, {a}) /\ a # w.live
      BY <1>1, <2>5 DEF Modes, Busy, Pends
    <3>2. Probes(w, {a}) = Probes(v, {a})
      BY <2>5 DEF Probes
    <3>3. Ready(w, a)
      BY <2>3, <2>4, <2>5, <3>1, <3>2 DEF Ready
    <3> QED BY <1>3, <2>6, <3>3, CameraOnEffect
  <2>7. ASSUME NEW s \in {"probing", "effect"}, n = [w EXCEPT !.stage[a] = s]
        PROVE  Allowed(n, l)
    <3> DEFINE stages == [w.stage EXCEPT ![a] = s]
    <3>1. n = [w EXCEPT !.stage = stages]
      BY <2>7
    <3>2. stages \in [Attempts -> Stages] /\ stages[a] = s
          /\ \A b \in Attempts \ {a} : stages[b] = v.stage[b]
      BY <2>4, <2>5 DEF Videos, Stages
    <3> HIDE DEF stages
    <3>3. n \in Videos
      BY <2>4, <3>1, <3>2 DEF Videos
    <3>4. /\ n.mode = v.mode /\ n.scope = v.scope /\ n.live = v.live /\ n.source = v.source
          /\ n.effect = v.effect /\ n.to = v.to /\ n.here = v.here /\ n.open = opened
          /\ n.stage = stages /\ n.kind = v.kind /\ n.pending = v.pending
          /\ n.current = v.current
      BY <2>4, <2>5, <3>1 DEF Videos
    <3>5. Modes(n)
      BY <1>1, <3>4 DEF Modes
    <3>6. Busy(n, {})
      BY <1>1, <3>2, <3>4 DEF Busy
    <3>7. Pends(n, {})
      <4>1. v.pending # "off"
        <5>1. v.current = a /\ v.stage[a] = "asked" /\ a # None
          BY <1>3, NoneNoAttempt DEF IsStale, NoneApart
        <5> QED BY <1>1, <5>1 DEF Pends
      <4> QED BY <3>4, <4>1 DEF Pends
    <3>8. Probes(n, {}) = Probes(v, {a}) \union {a}
      BY <3>2, <3>4 DEF Probes
    <3>9. Accounted(n, {})
      BY <2>3, <3>4, <3>8 DEF Accounted
    <3>10. InScope(n, l)
      BY <3>4 DEF InScope
    <3> QED BY <3>3, <3>5, <3>6, <3>7, <3>9, <3>10 DEF Showing, Allowed
  <2> QED BY <1>3, <2>1, <2>6, <2>7
<1> QED BY <1>2, <1>3


(* An attempt that holds nothing yet asks for its capture.                 *)
LEMMA BeginEffect ==
  ASSUME NEW v, NEW a \in Attempts, Showing(v, {}), v.stage[a] \in {"none", "permission"},
         v.kind[a] # "off", a # v.live, NEW l, InScope(v, l),
         NEW n, n = BeginVideoAcquire(v, l, a)
  PROVE  Allowed(n, l)
<1> DEFINE stages == [v.stage EXCEPT ![a] = "asked"]
           scope == IF Paging(l) THEN "call" ELSE "place"
           k == v.kind[a]
<1>1. v \in Videos /\ Modes(v) /\ Busy(v, {}) /\ Accounted(v, {}) /\ Pends(v, {})
  BY DEF Showing
<1>2. n = [v EXCEPT !.pending = k, !.current = a, !.stage = stages, !.scope = scope]
  <2>1. n = [v EXCEPT !.pending = v.kind[a], !.current = a, !.stage[a] = "asked",
                      !.scope = IF Paging(l) THEN "call" ELSE "place"]
    BY DEF BeginVideoAcquire
  <2> QED BY <1>1, <2>1 DEF Videos
<1>3. /\ stages \in [Attempts -> Stages] /\ stages[a] = "asked"
      /\ \A b \in Attempts \ {a} : stages[b] = v.stage[b]
  BY <1>1 DEF Videos, Stages
<1>4. k \in Kinds /\ k # "off" /\ scope \in {"call", "place"}
  BY <1>1 DEF Videos
<1>5. v.mode # "off" => v.scope = scope
  BY <1>1 DEF InScope, Videos
<1> HIDE DEF stages, scope
<1>6. n \in Videos
  <2> HIDE DEF k
  <2> QED BY <1>1, <1>2, <1>3, <1>4 DEF Videos
<1>7. /\ n.mode = v.mode /\ n.live = v.live /\ n.source = v.source /\ n.effect = v.effect
      /\ n.to = v.to /\ n.here = v.here /\ n.open = v.open /\ n.stage = stages
      /\ n.kind = v.kind /\ n.pending = k /\ n.current = a /\ n.scope = scope
  <2> HIDE DEF k
  <2> QED BY <1>1, <1>2 DEF Videos
<1>8. Modes(n)
  BY <1>1, <1>7 DEF Modes
<1>9. Busy(n, {})
  BY <1>1, <1>3, <1>7 DEF Busy
<1>10. Pends(n, {})
  BY <1>4, <1>7 DEF Pends
<1>11. Probes(n, {}) = Probes(v, {})
  BY <1>3, <1>7 DEF Probes
<1>12. Accounted(n, {})
  BY <1>1, <1>7, <1>11 DEF Accounted
<1>13. InScope(n, l)
  <2>1. CASE v.mode = "off"
    BY <1>1, <1>7, <2>1 DEF InScope, Modes
  <2>2. CASE v.mode # "off"
    BY <1>5, <1>7, <2>2 DEF InScope
  <2> QED BY <2>1, <2>2
<1> QED BY <1>6, <1>8, <1>9, <1>10, <1>12, <1>13 DEF Showing, Allowed

LEMMA UnusedFree ==
  ASSUME NEW v, NEW a \in Attempts, Showing(v, {}), a \notin v.open
  PROVE  a # v.live /\ a # v.source /\ a # None
BY NoneNoAttempt DEF Showing, Accounted, NoneApart

LEMMA PressEffect ==
  ASSUME NEW v, NEW a \in Attempts, Showing(v, {}), v.stage[a] = "none", NEW l, NEW k,
         k \in {"screen", "camera"}, NEW n, n = Press(v, l, a, k)
  PROVE  /\ Showing(n, {}) /\ SameShow(v, n) /\ n.stage = v.stage
         /\ n.kind[a] = k
<1> DEFINE kinds == [v.kind EXCEPT ![a] = k]
           asks == [v.asked EXCEPT ![a] = Called(l)]
           places == [v.place EXCEPT ![a] = TRUE]
<1>1. v \in Videos /\ Modes(v) /\ Busy(v, {}) /\ Accounted(v, {}) /\ Pends(v, {})
  BY DEF Showing
<1>2. n = [v EXCEPT !.kind = kinds, !.asked = asks, !.place = places]
  BY DEF Press
<1>3. /\ kinds \in [Attempts -> Kinds] /\ kinds[a] = k
      /\ \A b \in Attempts \ {a} : kinds[b] = v.kind[b]
  BY <1>1 DEF Videos, Kinds
<1>4. asks \in [Attempts -> SUBSET Peers] /\ places \in [Attempts -> BOOLEAN]
  BY <1>1 DEF Videos, Called
<1> HIDE DEF kinds, asks, places
<1>5. n \in Videos
  BY <1>1, <1>2, <1>3, <1>4 DEF Videos
<1>6. /\ SameShow(v, n) /\ n.stage = v.stage /\ n.kind = kinds
      /\ n.pending = v.pending /\ n.current = v.current
  BY <1>1, <1>2 DEF Videos, SameShow
<1>7. Busy(n, {}) /\ Pends(n, {})
  BY <1>1, <1>3, <1>6 DEF Busy, Pends, SameShow
<1>8. Accounted(n, {})
  BY <1>1, <1>6 DEF Accounted, Probes, SameShow
<1> QED BY <1>1, <1>3, <1>5, <1>6, <1>7, <1>8, SameModes DEF Showing

LEMMA ShareEffect ==
  ASSUME NEW v, NEW a \in Attempts, Showing(v, {}), v.stage[a] = "none", a \notin v.open,
         NEW l, InScope(v, l), NEW n, n = HandleScreenShareToggle(v, l, a)
  PROVE  Allowed(n, l)
<1> DEFINE b == Press(v, l, a, "screen")
           stages == [b.stage EXCEPT ![a] = "permission"]
<1>1. n = StopKind(v, "screen") \/ n = v \/ n = [b EXCEPT !.stage = stages]
  BY DEF HandleScreenShareToggle
<1>2. CASE n = StopKind(v, "screen")
  BY <1>2, StopKindEffect DEF Allowed
<1>3. CASE n = [b EXCEPT !.stage = stages]
  <2>1. Showing(b, {}) /\ SameShow(v, b) /\ b.stage = v.stage /\ b.kind[a] = "screen"
    BY PressEffect
  <2> HIDE DEF b
  <2>2. b \in Videos /\ Modes(b) /\ Busy(b, {}) /\ Accounted(b, {}) /\ Pends(b, {})
    BY <2>1 DEF Showing
  <2>3. /\ stages \in [Attempts -> Stages] /\ stages[a] = "permission"
        /\ \A c \in Attempts \ {a} : stages[c] = b.stage[c]
    BY <2>2 DEF Videos, Stages
  <2>4. a # b.live /\ a # None
    BY <2>1, UnusedFree DEF SameShow
  <2> HIDE DEF stages
  <2>5. n \in Videos
    BY <1>3, <2>2, <2>3 DEF Videos
  <2>6. /\ SameShow(b, n) /\ n.stage = stages /\ n.kind = b.kind
        /\ n.pending = b.pending /\ n.current = b.current
    BY <1>3, <2>2 DEF Videos, SameShow
  <2>7. Busy(n, {})
    BY <2>1, <2>2, <2>3, <2>4, <2>6 DEF Busy, SameShow
  <2>8. Pends(n, {})
    <3>1. b.current \in Attempts \union {None}
      BY <2>2 DEF Videos
    <3> QED BY <2>2, <2>3, <2>6, <3>1 DEF Pends
  <2>9. Probes(n, {}) = Probes(b, {})
    BY <2>1, <2>3, <2>6 DEF Probes
  <2>10. Accounted(n, {})
    BY <2>2, <2>6, <2>9 DEF Accounted, SameShow
  <2>11. InScope(n, l)
    BY <2>1, <2>6, SameScope
  <2> QED BY <2>2, <2>5, <2>6, <2>7, <2>8, <2>10, <2>11, SameModes DEF Showing, Allowed
<1> QED BY <1>1, <1>2, <1>3 DEF Allowed

LEMMA CameraEffect ==
  ASSUME NEW v, NEW a \in Attempts, Showing(v, {}), v.stage[a] = "none", a \notin v.open,
         NEW l, InScope(v, l), NEW n, n = HandleCameraToggle(v, l, a)
  PROVE  Allowed(n, l)
<1> DEFINE b == Press(v, l, a, "camera")
<1>1. n = StopKind(v, "camera") \/ n = v \/ n = BeginVideoAcquire(b, l, a)
  BY DEF HandleCameraToggle
<1>2. CASE n = StopKind(v, "camera")
  BY <1>2, StopKindEffect DEF Allowed
<1>3. CASE n = BeginVideoAcquire(b, l, a)
  <2>1. Showing(b, {}) /\ SameShow(v, b) /\ b.stage = v.stage /\ b.kind[a] = "camera"
    BY PressEffect
  <2> HIDE DEF b
  <2>2. a # b.live
    BY <2>1, UnusedFree DEF SameShow
  <2>3. InScope(b, l)
    BY <2>1, SameScope
  <2>4. b.stage[a] \in {"none", "permission"} /\ b.kind[a] # "off"
    BY <2>1
  <2> QED BY <1>3, <2>1, <2>2, <2>3, <2>4, BeginEffect
<1> QED BY <1>1, <1>2, <1>3 DEF Allowed

LEMMA PermissionEffect ==
  ASSUME NEW v, NEW a \in Attempts, Showing(v, {}), v.stage[a] = "permission",
         NEW l, InScope(v, l), NEW granted \in BOOLEAN,
         NEW n, n = PermissionKnown(v, l, a, granted)
  PROVE  Allowed(n, l) /\ (~granted => n = Over(v, a))
<1>1. (granted /\ n = BeginVideoAcquire(v, l, a)) \/ n = Over(v, a)
  BY DEF PermissionKnown
<1>2. CASE n = Over(v, a)
  <2>1. Showing(n, {}) /\ SameShow(v, n)
    BY <1>2, OverEffect
  <2> QED BY <1>2, <2>1, SameScope DEF Allowed
<1>3. CASE granted /\ n = BeginVideoAcquire(v, l, a)
  <2>1. a # v.live /\ v.kind[a] # "off"
    BY DEF Showing, Busy
  <2> QED BY <1>3, <2>1, BeginEffect
<1> QED BY <1>1, <1>2, <1>3


(* Nothing of the attempts, nor of what is sent, depends on the rest.      *)
LEMMA Unshown ==
  ASSUME NEW v, Showing(v, {}), NEW n \in Videos,
         n.mode = v.mode, n.live = v.live, n.source = v.source, n.open = v.open,
         n.stage = v.stage, n.kind = v.kind, n.pending = v.pending, n.current = v.current,
         n.mode = "off" => n.to = {} /\ ~n.effect
  PROVE  Showing(n, {})
<1>1. Modes(n) /\ Busy(n, {}) /\ Pends(n, {})
  BY DEF Showing, Modes, Busy, Pends
<1>2. Accounted(n, {})
  BY DEF Showing, Accounted, Probes
<1> QED BY <1>1, <1>2 DEF Showing

Backdrop(v, w, e, m) == [v EXCEPT !.wanted = w, !.effect = e, !.making = m]

Placed(v, here, there, place) ==
  [v EXCEPT !.here = here, !.there = there, !.place = place]

LEMMA BackdropEffect ==
  ASSUME NEW v, Showing(v, {}), NEW e \in BOOLEAN, NEW w \in BOOLEAN,
         NEW m \in SUBSET Attempts, v.mode = "off" => ~e,
         NEW n, n = Backdrop(v, w, e, m)
  PROVE  /\ Showing(n, {}) /\ \A l : InScope(v, l) => InScope(n, l)
         /\ n.mode = v.mode /\ n.pending = v.pending
<1>1. v \in Videos
  BY DEF Showing
<1>2. n \in Videos
  BY <1>1 DEF Videos, Backdrop
<1>3. /\ n.mode = v.mode /\ n.live = v.live /\ n.source = v.source /\ n.open = v.open
      /\ n.stage = v.stage /\ n.kind = v.kind /\ n.pending = v.pending
      /\ n.current = v.current /\ n.to = v.to /\ n.effect = e
      /\ n.scope = v.scope /\ n.here = v.here
  BY <1>1 DEF Videos, Backdrop
<1>4. n.mode = "off" => n.to = {} /\ ~n.effect
  BY <1>3 DEF Showing, Modes
<1>5. Showing(n, {})
  BY <1>2, <1>3, <1>4, Unshown
<1>6. \A l : InScope(v, l) => InScope(n, l)
  BY <1>3 DEF InScope
<1> QED BY <1>3, <1>5, <1>6

LEMMA ChosenEffect ==
  ASSUME NEW v, Showing(v, {}), NEW on \in BOOLEAN, NEW n, n = SetCameraBackground(v, on)
  PROVE  /\ Showing(n, {}) /\ \A l : InScope(v, l) => InScope(n, l)
         /\ n.mode = v.mode /\ n.pending = v.pending
<1>1. v \in Videos /\ v.effect \in BOOLEAN /\ v.making \in SUBSET Attempts
      /\ v.source \in Attempts \union {None} /\ (v.mode = "off" => ~v.effect)
  BY DEF Showing, Videos, Modes
<1>2. \E e \in BOOLEAN, m \in SUBSET Attempts :
        /\ v.mode = "off" => ~e
        /\ n = Backdrop(v, on, e, m)
  <2>1. CASE v.source = None \/ (on /\ v.effect)
    <3>1. n = [v EXCEPT !.wanted = on]
      BY <2>1 DEF SetCameraBackground
    <3>2. n = Backdrop(v, on, v.effect, v.making)
      BY <1>1, <3>1 DEF Videos, Backdrop
    <3> QED BY <1>1, <3>2
  <2>2. CASE v.source # None /\ ~on
    <3>1. n = [v EXCEPT !.wanted = on, !.effect = FALSE]
      BY <2>2 DEF SetCameraBackground
    <3>2. n = Backdrop(v, on, FALSE, v.making)
      BY <1>1, <3>1 DEF Videos, Backdrop
    <3> QED BY <1>1, <3>2
  <2>3. CASE v.source # None /\ on /\ ~v.effect
    <3> DEFINE m == v.making \union {v.source}
    <3>1. n = [v EXCEPT !.wanted = on, !.making = m]
      BY <1>1, <2>3 DEF SetCameraBackground, Videos
    <3>2. m \in SUBSET Attempts
      BY <1>1, <2>3
    <3> HIDE DEF m
    <3>3. n = Backdrop(v, on, v.effect, m)
      BY <1>1, <3>1 DEF Videos, Backdrop
    <3> QED BY <1>1, <3>2, <3>3
  <2> QED BY <2>1, <2>2, <2>3
<1> QED BY <1>2, BackdropEffect

LEMMA MadeEffect ==
  ASSUME NEW v, Showing(v, {}), NEW a \in Attempts, NEW started \in BOOLEAN,
         NEW n, n = BackgroundMade(v, a, started)
  PROVE  /\ Showing(n, {}) /\ \A l : InScope(v, l) => InScope(n, l)
         /\ n.mode = v.mode /\ n.pending = v.pending
<1> DEFINE m == v.making \ {a}
           e == v.effect \/ (started /\ v.source = a /\ v.wanted)
<1>1. v \in Videos /\ v.wanted \in BOOLEAN
  BY DEF Showing, Videos
<1>2. m \in SUBSET Attempts /\ e \in BOOLEAN
  BY <1>1 DEF Videos
<1>3. v.mode = "off" => ~e
  BY NoneNoAttempt DEF Showing, Modes, NoneApart
<1>4. n = [v EXCEPT !.making = m, !.effect = e]
  BY DEF BackgroundMade
<1> HIDE DEF m, e
<1>5. n = Backdrop(v, v.wanted, e, m)
  BY <1>1, <1>4 DEF Videos, Backdrop
<1> QED BY <1>1, <1>2, <1>3, <1>5, BackdropEffect

(***************************************************************************)
(* Who sees it, and where everyone stands.                                 *)
(***************************************************************************)
LEMMA ViewersEffect ==
  ASSUME NEW v, Showing(v, {}), NEW t, t \subseteq v.to, NEW n, n = [v EXCEPT !.to = t]
  PROVE  /\ Showing(n, {}) /\ n.to = t /\ n.mode = v.mode /\ n.scope = v.scope
         /\ n.here = v.here
<1>1. v \in Videos /\ v.to \in SUBSET Peers
  BY DEF Showing, Videos
<1>2. n \in Videos
  BY <1>1 DEF Videos
<1>3. /\ n.mode = v.mode /\ n.live = v.live /\ n.source = v.source /\ n.open = v.open
      /\ n.stage = v.stage /\ n.kind = v.kind /\ n.pending = v.pending
      /\ n.current = v.current /\ n.to = t /\ n.effect = v.effect
      /\ n.scope = v.scope /\ n.here = v.here
  BY <1>1 DEF Videos
<1>4. n.mode = "off" => n.to = {} /\ ~n.effect
  BY <1>3 DEF Showing, Modes
<1> QED BY <1>2, <1>3, <1>4, Unshown

LEMMA PlacesEffect ==
  ASSUME NEW v, Showing(v, {}), NEW here \in BOOLEAN, NEW there \in SUBSET Peers,
         NEW place \in [Attempts -> BOOLEAN],
         NEW n, n = Placed(v, here, there, place)
  PROVE  /\ Showing(n, {}) /\ n.to = v.to /\ n.mode = v.mode /\ n.scope = v.scope
         /\ n.here = here
<1>1. v \in Videos
  BY DEF Showing
<1>2. n \in Videos
  BY <1>1 DEF Videos, Placed
<1>3. /\ n.mode = v.mode /\ n.live = v.live /\ n.source = v.source /\ n.open = v.open
      /\ n.stage = v.stage /\ n.kind = v.kind /\ n.pending = v.pending
      /\ n.current = v.current /\ n.to = v.to /\ n.effect = v.effect
      /\ n.scope = v.scope /\ n.here = here
  BY <1>1 DEF Videos, Placed
<1>4. n.mode = "off" => n.to = {} /\ ~n.effect
  BY <1>3 DEF Showing, Modes
<1> QED BY <1>2, <1>3, <1>4, Unshown

(* A video of a place loses the peer that walked out of hearing; one in a  *)
(* call is not touched, for its links are the call's.                      *)
LEMMA OutOfHearing ==
  ASSUME CaptureTyped, VidInv, NEW p \in Peers, DisconnectProximity(p)
  PROVE  Allowed(vid', link')
<1>1. Showing(vid, {}) /\ InScope(vid, link) /\ Modes(vid) /\ vid.to \in SUBSET Peers
  BY DEF VidInv, Showing, Videos
<1>2. /\ link' = [link EXCEPT ![p] = @ \ {"proximity"}]
      /\ vid' = [vid EXCEPT !.to = vid.to \intersect Linked(link')]
  BY DEF DisconnectProximity, Links, Without, VideoDropPeers
<1>3. /\ link' \in LinkTypes
      /\ link'[p] = link[p] \ {"proximity"}
      /\ \A q \in Peers \ {p} : link'[q] = link[q]
  BY <1>2 DEF CaptureTyped, LinkTypes
<1> DEFINE t == vid.to \intersect Linked(link')
<1>4. /\ Showing(vid', {}) /\ vid'.to = t /\ vid'.mode = vid.mode /\ vid'.scope = vid.scope
      /\ vid'.here = vid.here
  BY <1>1, <1>2, ViewersEffect
<1>5. \A q \in Peers : link'[q] = link[q] \ {"proximity"} \/ link'[q] = link[q]
  BY <1>3
<1>6. Paging(link') <=> Paging(link)
  BY <1>3, <1>5, LinksLost
<1>7. ASSUME NEW q \in t
      PROVE  (IF vid.scope = "call" THEN "page" ELSE "proximity") \in link'[q]
  <2>1. /\ q \in Peers /\ q \in Linked(link') /\ q \in vid.to
        /\ (IF vid.scope = "call" THEN "page" ELSE "proximity") \in link[q]
    BY <1>1 DEF InScope
  <2>2. CASE q # p
    BY <1>3, <2>1, <2>2
  <2>3. CASE q = p /\ vid.scope = "call"
    BY <1>3, <2>1, <2>3
  <2>4. CASE q = p /\ vid.scope # "call"
    <3>1. vid.mode # "off"
      BY <1>1, <2>1 DEF Modes
    <3>2. ~Paging(link)
      BY <1>1, <2>4, <3>1 DEF InScope
    <3>3. "page" \notin link[p]
      BY <3>2 DEF Paging
    <3>4. link[p] \subseteq {"proximity", "page"}
      BY DEF CaptureTyped, LinkTypes
    <3>5. link'[p] = {}
      BY <1>3, <3>3, <3>4
    <3> QED BY <2>1, <2>4, <3>5 DEF Linked
  <2> QED BY <2>2, <2>3, <2>4
<1> HIDE DEF t
<1>8. InScope(vid', link')
  BY <1>1, <1>4, <1>6, <1>7 DEF InScope
<1> QED BY <1>4, <1>8 DEF Allowed

LEMMA NewSpace ==
  ASSUME CaptureTyped, VidInv, NEW here \in BOOLEAN, NEW there \in SUBSET Peers,
         Snapshot(here, there)
  PROVE  Allowed(vid', link')
<1> DEFINE w == IF vid.scope = "place" THEN EndVideo(vid) ELSE vid
           d == VideoDropPeers(w, link')
           off == [a \in Attempts |-> FALSE]
<1>1. Showing(vid, {}) /\ InScope(vid, link)
  BY DEF VidInv
<1>2. vid' = Placed(d, here, there, off)
  BY DEF Snapshot, Links, VideoLeavesSpace, Placed
<1>3. link' = [p \in Peers |-> link[p] \ {"proximity"}]
  BY DEF Snapshot, Links
<1>4. /\ link' \in LinkTypes
      /\ \A q \in Peers : link'[q] = link[q] \ {"proximity"} \/ link'[q] = link[q]
  BY <1>3 DEF CaptureTyped, LinkTypes
<1>5. Paging(link') <=> Paging(link)
  BY <1>4, LinksLost
<1>6. Showing(w, {}) /\ (w.mode = "off" \/ (w = vid /\ vid.scope # "place"))
  BY <1>1, EndEffect
<1> HIDE DEF w
<1>7. vid.scope \in {"call", "place"}
  BY <1>1 DEF Showing, Videos
<1> DEFINE t == w.to \intersect Linked(link')
<1>8. d = [w EXCEPT !.to = t]
  BY DEF VideoDropPeers
<1> HIDE DEF d
<1>9. /\ Showing(d, {}) /\ d.to = t /\ d.mode = w.mode /\ d.scope = w.scope
  <2>1. t \subseteq w.to
    OBVIOUS
  <2> HIDE DEF t
  <2> QED BY <1>6, <1>8, <2>1, ViewersEffect
<1>10. off \in [Attempts -> BOOLEAN]
  OBVIOUS
<1> HIDE DEF off
<1>11. Showing(vid', {}) /\ vid'.to = d.to /\ vid'.mode = d.mode /\ vid'.scope = d.scope
  BY <1>2, <1>9, <1>10, PlacesEffect
<1>12. InScope(vid', link')
  <2>1. CASE w.mode = "off"
    BY <1>9, <1>11, <2>1, OffInScope DEF Showing
  <2>2. CASE w.mode # "off"
    <3>1. w = vid /\ vid.scope = "call" /\ vid'.scope = "call" /\ vid'.mode = vid.mode
      BY <1>6, <1>7, <1>9, <1>11, <2>2
    <3>2. Paging(link')
      BY <1>1, <1>5, <2>2, <3>1 DEF InScope
    <3>3. \A p \in vid'.to : p \in Peers /\ "page" \in link[p]
      BY <1>1, <1>9, <1>11, <3>1 DEF InScope, Linked
    <3>4. \A p \in vid'.to : "page" \in link'[p]
      BY <1>3, <3>3
    <3> QED BY <3>1, <3>2, <3>4 DEF InScope
  <2> QED BY <2>1, <2>2
<1> QED BY <1>11, <1>12 DEF Allowed

LEMMA VideoGone ==
  ASSUME VidInv, Destroy
  PROVE  Allowed(vid', link') /\ vid'.mode = "off" /\ vid'.pending = "off"
<1> DEFINE w == CancelVideoAcquire(vid, {"screen", "camera"})
<1>1. vid' = StopVideo(w)
  BY DEF Destroy, DestroyVideo
<1>2. Showing(w, {}) /\ w.pending = "off"
  BY CancelEffect DEF VidInv
<1> HIDE DEF w
<1>3. Showing(vid', {}) /\ vid'.mode = "off" /\ vid'.pending = w.pending
  BY <1>1, <1>2, StopVideoEffect
<1> QED BY <1>2, <1>3, OffInScope DEF Allowed, Showing


(***************************************************************************)
(* The steps of the video.                                                 *)
(***************************************************************************)
LEMMA VideoLinked ==
  ASSUME CaptureTyped, VidInv,
         \/ \E p \in Peers : Connect(p) \/ PageConnect(p) \/ EndPage(p)
         \/ \E here \in BOOLEAN : Frame(here)
  PROVE  Allowed(vid', link')
<1>1. Showing(vid, {})
  BY DEF VidInv
<1>2. CASE \E p \in Peers : Connect(p) \/ PageConnect(p) \/ EndPage(p)
  <2>1. vid' = SyncVideoLinks(vid, link')
    BY <1>2 DEF Connect, PageConnect, EndPage, Links
  <2> QED BY <1>1, <2>1, SyncVideoEffect DEF Allowed
<1>3. ASSUME NEW here \in BOOLEAN, Frame(here)
      PROVE  Allowed(vid', link')
  <2> DEFINE w == [vid EXCEPT !.here = here]
  <2>1. vid \in Videos /\ vid.there \in SUBSET Peers /\ vid.place \in [Attempts -> BOOLEAN]
    BY <1>1 DEF Showing, Videos
  <2>2. w = Placed(vid, here, vid.there, vid.place)
    BY <2>1 DEF Placed, Videos
  <2>3. vid' = SyncVideoLinks(w, link) /\ link' = link
    BY <1>3 DEF Frame, Links
  <2> HIDE DEF w
  <2>4. Showing(w, {})
    BY <1>1, <2>1, <2>2, PlacesEffect
  <2> QED BY <2>3, <2>4, SyncVideoEffect DEF Allowed
<1> QED BY <1>2, <1>3

LEMMA PeerWalks ==
  ASSUME VidInv, NEW p \in Peers, PeerMoves(p)
  PROVE  Allowed(vid', link')
<1> DEFINE there == IF p \in vid.there THEN vid.there \ {p} ELSE vid.there \union {p}
<1>1. vid \in Videos /\ vid.here \in BOOLEAN /\ vid.place \in [Attempts -> BOOLEAN]
      /\ Showing(vid, {}) /\ InScope(vid, link)
  BY DEF VidInv, Showing, Videos
<1>2. there \in SUBSET Peers
  BY <1>1 DEF Videos
<1>3. vid' = [vid EXCEPT !.there = there] /\ link' = link
  BY DEF PeerMoves, Links
<1> HIDE DEF there
<1>4. vid' = Placed(vid, vid.here, there, vid.place)
  BY <1>1, <1>3 DEF Placed, Videos
<1>5. /\ Showing(vid', {}) /\ vid'.to = vid.to /\ vid'.mode = vid.mode
      /\ vid'.scope = vid.scope /\ vid'.here = vid.here
  BY <1>1, <1>2, <1>4, PlacesEffect
<1>6. InScope(vid', link')
  BY <1>1, <1>3, <1>5 DEF InScope
<1> QED BY <1>5, <1>6 DEF Allowed

(* Whatever is answered, in whatever order: in a client that has left, it  *)
(* only ends.                                                              *)
LEMMA VideoActsKeep ==
  ASSUME VidInv, VideoActs
  PROVE  Allowed(vid', link) /\ (gone => vid'.mode = "off" /\ vid'.pending = "off")
<1>1. /\ Showing(vid, {}) /\ InScope(vid, link)
      /\ gone => vid.mode = "off" /\ vid.pending = "off"
  BY DEF VidInv
<1>2. vid \in Videos /\ Pends(vid, {})
  BY <1>1 DEF Showing
<1>3. ASSUME NEW kind, vid' = StopKind(vid, kind)
      PROVE  Allowed(vid', link) /\ (gone => vid'.mode = "off" /\ vid'.pending = "off")
  BY <1>1, <1>3, StopKindEffect DEF Allowed
<1>4. CASE VideoTrackEnds \/ ClosesPanel
  <2>1. \E kind : vid' = StopKind(vid, kind)
    BY <1>4 DEF VideoTrackEnds, ClosesPanel, Video
  <2> QED BY <1>3, <2>1
<1>5. ASSUME NEW a \in Attempts, TogglesShare(a) \/ TogglesCamera(a)
      PROVE  Allowed(vid', link) /\ ~gone
  <2>1. ~gone /\ vid.stage[a] = "none" /\ a \notin vid.open
    BY <1>5 DEF TogglesShare, TogglesCamera, Unused
  <2>2. vid' = HandleScreenShareToggle(vid, link, a) \/ vid' = HandleCameraToggle(vid, link, a)
    BY <1>5 DEF TogglesShare, TogglesCamera, Video
  <2> QED BY <1>1, <2>1, <2>2, ShareEffect, CameraEffect
<1>6. ASSUME NEW a \in Attempts, vid' = Over(vid, a), vid.stage[a] \notin {"probing", "effect"}
      PROVE  Allowed(vid', link) /\ (gone => vid'.mode = "off" /\ vid'.pending = "off")
  <2>1. /\ Showing(vid', {}) /\ SameShow(vid, vid')
        /\ vid.pending = "off" => vid'.pending = "off"
    BY <1>1, <1>6, OverEffect
  <2> QED BY <1>1, <2>1, SameScope DEF Allowed, SameShow
<1>7. ASSUME NEW a \in Attempts, vid' = Stopped(vid, a), vid.stage[a] \in {"probing", "effect"}
      PROVE  Allowed(vid', link) /\ (gone => vid'.mode = "off" /\ vid'.pending = "off")
  BY <1>1, <1>7, StoppedEffect DEF Allowed
<1>8. ASSUME NEW a \in Attempts, gone, vid.stage[a] \in {"asked", "probing", "effect"}
      PROVE  IsStale(vid, a)
  <2>1. vid.current = None \/ vid.stage[vid.current] \in {"none", "permission"}
    BY <1>1, <1>2, <1>8 DEF Pends
  <2> QED BY <1>8, <2>1, NoneNoAttempt DEF IsStale, NoneApart
<1>9. ASSUME NEW a \in Attempts, NEW ok \in BOOLEAN, PermissionAnswered(a, ok)
      PROVE  Allowed(vid', link) /\ (gone => vid'.mode = "off" /\ vid'.pending = "off")
  <2> DEFINE granted == ok /\ ~gone
  <2>1. vid.stage[a] = "permission" /\ vid' = PermissionKnown(vid, link, a, granted)
    BY <1>9 DEF PermissionAnswered, Video
  <2>2. granted \in BOOLEAN /\ (gone => ~granted)
    OBVIOUS
  <2> HIDE DEF granted
  <2>3. Allowed(vid', link) /\ (~granted => vid' = Over(vid, a))
    BY <1>1, <2>1, <2>2, PermissionEffect
  <2> QED BY <1>6, <2>1, <2>2, <2>3
<1>10. ASSUME NEW a \in Attempts, NEW ok \in BOOLEAN, CaptureAnswered(a, ok)
       PROVE  Allowed(vid', link) /\ (gone => vid'.mode = "off" /\ vid'.pending = "off")
  <2>1. vid.stage[a] = "asked" /\ vid' = CaptureLands(vid, link, a, ok)
    BY <1>10 DEF CaptureAnswered, Video
  <2>2. Allowed(vid', link) /\ (IsStale(vid, a) => vid' = Over(vid, a))
    BY <1>1, <2>1, CaptureEffect
  <2> QED BY <1>6, <1>8, <2>1, <2>2
<1>11. ASSUME NEW a \in Attempts, NEW ok \in BOOLEAN, FrameAnswered(a, ok)
       PROVE  Allowed(vid', link) /\ (gone => vid'.mode = "off" /\ vid'.pending = "off")
  <2>1. vid.stage[a] = "probing" /\ vid' = FirstFrame(vid, link, a, ok)
    BY <1>11 DEF FrameAnswered, Video
  <2>2. Allowed(vid', link) /\ (IsStale(vid, a) => vid' = Stopped(vid, a))
    BY <1>1, <2>1, FrameEffect
  <2> QED BY <1>7, <1>8, <2>1, <2>2
<1>12. ASSUME NEW a \in Attempts, NEW ok \in BOOLEAN, EffectAnswered(a, ok)
       PROVE  Allowed(vid', link) /\ (gone => vid'.mode = "off" /\ vid'.pending = "off")
  <2>1. vid.stage[a] = "effect" /\ vid' = EffectReady(vid, link, a, ok)
    BY <1>12 DEF EffectAnswered, Video
  <2>2. Allowed(vid', link) /\ (IsStale(vid, a) => vid' = Stopped(vid, a))
    BY <1>1, <2>1, EffectReadyEffect
  <2> QED BY <1>7, <1>8, <2>1, <2>2
<1>13. ASSUME NEW a \in Attempts, NEW ok \in BOOLEAN, BackgroundStarted(a, ok)
       PROVE  Allowed(vid', link) /\ (gone => vid'.mode = "off" /\ vid'.pending = "off")
  <2>1. vid' = BackgroundMade(vid, a, ok)
    BY <1>13 DEF BackgroundStarted, Video
  <2> QED BY <1>1, <2>1, MadeEffect DEF Allowed
<1>14. ASSUME NEW on \in BOOLEAN, PicksBackground(on)
       PROVE  Allowed(vid', link) /\ (gone => vid'.mode = "off" /\ vid'.pending = "off")
  <2>1. vid' = SetCameraBackground(vid, on)
    BY <1>14 DEF PicksBackground, Video
  <2> QED BY <1>1, <2>1, ChosenEffect DEF Allowed
<1> QED
  BY <1>4, <1>5, <1>9, <1>10, <1>11, <1>12, <1>13, <1>14 DEF VideoActs

LEMMA VidNext ==
  ASSUME CaptureTyped, VidInv, [Next]_captureVars
  PROVE  VidInv'
<1>1. ASSUME Allowed(vid', link'), ~gone, gone' = gone
      PROVE  VidInv'
  BY <1>1 DEF Allowed, VidInv
<1>2. CASE \/ \E p \in Peers : Connect(p) \/ PageConnect(p) \/ EndPage(p)
           \/ \E here \in BOOLEAN : Frame(here)
  <2>1. ~gone /\ gone' = gone
    BY <1>2 DEF Connect, PageConnect, EndPage, Frame, Links
  <2> QED BY <1>1, <1>2, <2>1, VideoLinked
<1>3. ASSUME NEW p \in Peers, DisconnectProximity(p) PROVE VidInv'
  <2>1. ~gone /\ gone' = gone
    BY <1>3 DEF DisconnectProximity, Links
  <2> QED BY <1>1, <1>3, <2>1, OutOfHearing
<1>4. ASSUME NEW here \in BOOLEAN, NEW there \in SUBSET Peers, Snapshot(here, there)
      PROVE  VidInv'
  <2>1. ~gone /\ gone' = gone
    BY <1>4 DEF Snapshot, Links
  <2> QED BY <1>1, <1>4, <2>1, NewSpace
<1>5. ASSUME NEW p \in Peers, PeerMoves(p) PROVE VidInv'
  <2>1. ~gone /\ gone' = gone
    BY <1>5 DEF PeerMoves, Links
  <2> QED BY <1>1, <1>5, <2>1, PeerWalks
<1>6. CASE Destroy
  BY <1>6, VideoGone DEF VidInv, Allowed
<1>7. CASE VideoActs
  <2>1. link' = link /\ gone' = gone
    BY <1>7, VideoActsFrame
  <2>2. Allowed(vid', link) /\ (gone => vid'.mode = "off" /\ vid'.pending = "off")
    BY <1>7, VideoActsKeep
  <2> QED BY <2>1, <2>2 DEF VidInv, Allowed
<1>8. CASE UNCHANGED <<link, vid, gone>>
  BY <1>8 DEF VidInv
<1>9. CASE MicActs \/ UNCHANGED captureVars
  BY <1>8, <1>9, MicActsFrame DEF captureVars
<1> QED
  BY <1>2, <1>3, <1>4, <1>5, <1>6, <1>7, <1>9, CaptureCases

LEMMA VidStart == ASSUME Init PROVE VidInv
<1> DEFINE v == VideoInit
<1>1. vid = v /\ gone = FALSE
  BY DEF Init
<1>2. v \in Videos
  BY DEF VideoInit, Videos, Kinds, Stages
<1>3. /\ v.mode = "off" /\ v.live = None /\ v.source = None /\ v.to = {} /\ v.effect = FALSE
      /\ v.current = None /\ v.open = {} /\ \A a \in Attempts : v.stage[a] = "none"
  BY DEF VideoInit
<1> HIDE DEF v
<1>4. Modes(v) /\ Busy(v, {}) /\ Pends(v, {})
  BY <1>3 DEF Modes, Busy, Pends
<1>5. Accounted(v, {})
  BY <1>3 DEF Accounted, Probes
<1>6. Showing(v, {})
  BY <1>2, <1>4, <1>5 DEF Showing
<1>7. InScope(v, link)
  BY <1>3, <1>4, OffInScope
<1> QED BY <1>1, <1>6, <1>7 DEF VidInv

LEMMA VidHolds == ASSUME VidInv PROVE VideoSound
<1>1. Modes(vid) /\ Accounted(vid, {}) /\ InScope(vid, link) /\ vid \in Videos
      /\ (gone => vid.mode = "off" /\ vid.pending = "off")
  BY DEF VidInv, Showing
<1>2. NoCaptureLeak
  BY <1>1 DEF NoCaptureLeak, Accounted, Probes
<1>3. VideoInScope
  <2>1. vid.live = None => vid.mode = "off"
    BY <1>1 DEF Modes
  <2> QED BY <1>1, <2>1 DEF VideoInScope, InScope, Modes
<1>4. NothingAfterLeaving
  BY <1>1 DEF NothingAfterLeaving
<1> QED BY <1>2, <1>3, <1>4 DEF VideoSound

(* However prompts, pickers, first frames and background effects are       *)
(* answered, and calls, places and the session end meanwhile: every video  *)
(* capture of audio.ts that is open is the one that is sent, its camera,   *)
(* or held by an attempt that will stop or install it; a video never       *)
(* outlives what it was started for; and nothing is on after leaving.      *)
THEOREM VideoSoundCorrect == Spec => []VideoSound
<1>1. Init => VidInv /\ CaptureTyped
  BY VidStart, MicStart
<1>2. CaptureTyped /\ VidInv /\ [Next]_captureVars => VidInv'
  BY VidNext
<1>3. VidInv => VideoSound
  BY VidHolds
<1>4. Spec => []CaptureTyped
  <2>1. Init => MicInv /\ CaptureTyped
    BY MicStart
  <2>2. MicInv /\ CaptureTyped /\ [Next]_captureVars => (MicInv /\ CaptureTyped)'
    BY MicNext
  <2> QED BY <2>1, <2>2, PTL DEF Spec
<1> QED BY <1>1, <1>2, <1>3, <1>4, PTL DEF Spec

=============================================================================
