---------------------------- MODULE Office_proofs ----------------------------
(***************************************************************************)
(* Proofs about the client's office: the organisation chip and its lock    *)
(* (OrgDesk), the admin panels (AdminPanels) and the floor one walks       *)
(* (Floor), each on its own, for any organisations, rows and places and    *)
(* any number of requests, flows and messages on their way.                *)
(***************************************************************************)
EXTENDS OrgDesk, AdminPanels, Floor, SequenceTheorems, WellFoundedInduction, TLAPS

(***************************************************************************)
(* The desk: what is held of it, and why the chip can tell.                *)
(***************************************************************************)
Held == Orgs \union {None}

Bills == [org : Orgs, answer : {None, "locked", "trial", "paid"}]

Statuses == [of : Orgs, guess : BOOLEAN] \union {None}

Desks ==
  [session : Held, listed : Held, listing : BOOLEAN, chip : Held, open : BOOLEAN,
   switch : [to : Orgs, crossed : BOOLEAN] \union {None},
   lock : Held, status : Statuses, timer : BOOLEAN, trial : Held]

Typed ==
  /\ d \in Desks
  /\ bills \in Seq(Bills)
  /\ billing \in [Orgs -> {"locked", "trial", "paid"}]

(* The notice tells the status of the organisation it is tagged with, or   *)
(* a guess.                                                                *)
TellsItsOrg(v) == v.lock # None => v.status.guess \/ v.status.of = v.lock

(* Nothing is picked from the menu while a switch is on its way: an answer *)
(* that finds the session changed has no choice of the user's to take back. *)
SwitchAlone ==
  d.switch # None =>
    /\ ~d.open
    /\ d.switch.crossed => d.listing \/ d.chip = d.session

DeskInv == Typed /\ SwitchAlone /\ LockSound /\ ChipTellsOrg

(***************************************************************************)
(* The requests in flight.                                                 *)
(***************************************************************************)
LEMMA RemoveAtKeeps ==
  ASSUME NEW S, NEW q \in Seq(S), NEW i \in DOMAIN q
  PROVE  /\ RemoveAt(q, i) \in Seq(S)
         /\ \A j \in DOMAIN q : j # i => \E k \in DOMAIN RemoveAt(q, i) : RemoveAt(q, i)[k] = q[j]
         /\ \A k \in DOMAIN RemoveAt(q, i) : \E j \in DOMAIN q : j # i /\ RemoveAt(q, i)[k] = q[j]
<1>. DEFINE l == SubSeq(q, 1, i - 1)
            r == SubSeq(q, i + 1, Len(q))
<1>1. Len(q) \in Nat /\ DOMAIN q = 1 .. Len(q) /\ i \in 1 .. Len(q) /\ \A j \in 1 .. Len(q) : q[j] \in S
  BY LenProperties, ElementOfSeq
<1>2. /\ l \in Seq(S) /\ Len(l) = i - 1
      /\ \A j \in 1 .. i - 1 : l[j] = q[j]
  <2>1. \A j \in 1 .. i - 1 : q[j] \in S
    BY <1>1
  <2>. QED
    BY <1>1, <2>1, SubSeqProperties
<1>3. /\ r \in Seq(S) /\ Len(r) = Len(q) - i
      /\ \A j \in 1 .. Len(q) - i : r[j] = q[i + j]
  <2>1. \A j \in i + 1 .. Len(q) : q[j] \in S
    BY <1>1
  <2>2. r \in Seq(S) /\ Len(r) = Len(q) - i
    BY <1>1, <2>1, SubSeqProperties
  <2>. QED
    BY <1>1, <2>1, <2>2, SubSeqProperties
<1>. HIDE DEF l, r
<1>4. /\ l \o r \in Seq(S) /\ DOMAIN (l \o r) = 1 .. Len(q) - 1
      /\ \A k \in 1 .. i - 1 : (l \o r)[k] = q[k]
      /\ \A k \in i .. Len(q) - 1 : (l \o r)[k] = q[k + 1]
  <2>1. /\ l \o r \in Seq(S) /\ Len(l \o r) = Len(l) + Len(r)
        /\ \A k \in 1 .. Len(l) + Len(r) :
             (l \o r)[k] = IF k <= Len(l) THEN l[k] ELSE r[k - Len(l)]
    BY <1>2, <1>3, ConcatProperties
  <2>2. Len(l) + Len(r) = Len(q) - 1
    BY <1>1, <1>2, <1>3
  <2>3. DOMAIN (l \o r) = 1 .. Len(q) - 1
    BY <2>1, <2>2, LenProperties
  <2>4. ASSUME NEW k \in 1 .. i - 1 PROVE (l \o r)[k] = q[k]
    <3>1. k \in 1 .. Len(l) + Len(r) /\ k <= Len(l)
      BY <1>1, <1>2, <2>2
    <3>. QED
      BY <1>2, <2>1, <3>1
  <2>5. ASSUME NEW k \in i .. Len(q) - 1 PROVE (l \o r)[k] = q[k + 1]
    <3>1. k \in 1 .. Len(l) + Len(r) /\ ~(k <= Len(l))
      BY <1>1, <1>2, <2>2
    <3>2. (l \o r)[k] = r[k - (i - 1)]
      BY <1>2, <2>1, <3>1
    <3>3. k - (i - 1) \in 1 .. Len(q) - i /\ i + (k - (i - 1)) = k + 1
      BY <1>1
    <3>. QED
      BY <1>3, <3>2, <3>3
  <2>. QED
    BY <2>1, <2>3, <2>4, <2>5
<1>5. RemoveAt(q, i) = l \o r
  BY DEF RemoveAt, l, r
<1>6. ASSUME NEW j \in DOMAIN q, j # i
      PROVE  \E k \in DOMAIN (l \o r) : (l \o r)[k] = q[j]
  <2>1. CASE j < i
    <3>1. j \in 1 .. i - 1 /\ j \in 1 .. Len(q) - 1
      BY <1>1, <2>1
    <3>. QED
      BY <1>4, <3>1
  <2>2. CASE j > i
    <3>1. j - 1 \in 1 .. Len(q) - 1 /\ j - 1 \in i .. Len(q) - 1 /\ (j - 1) + 1 = j
      BY <1>1, <2>2
    <3>2. (l \o r)[j - 1] = q[j]
      BY <1>4, <3>1
    <3>. QED
      BY <1>4, <3>1, <3>2
  <2>. QED
    BY <1>1, <1>6, <2>1, <2>2
<1>7. ASSUME NEW k \in DOMAIN (l \o r)
      PROVE  \E j \in DOMAIN q : j # i /\ (l \o r)[k] = q[j]
  <2>3. k \in 1 .. Len(q) - 1
    BY <1>4, <1>7
  <2>1. CASE k < i
    <3>1. k \in 1 .. i - 1 /\ k \in DOMAIN q /\ k # i
      BY <1>1, <2>1, <2>3
    <3>. QED
      BY <1>4, <3>1
  <2>2. CASE ~(k < i)
    <3>1. k \in i .. Len(q) - 1 /\ k + 1 \in DOMAIN q /\ k + 1 # i
      BY <1>1, <2>2, <2>3
    <3>. QED
      BY <1>4, <3>1
  <2>. QED
    BY <2>1, <2>2
<1>. QED
  BY <1>4, <1>5, <1>6, <1>7

LEMMA AsksAppended ==
  ASSUME NEW q \in Seq(Bills), NEW v \in Desks
  PROVE  /\ q \o Asks(v) \in Seq(Bills)
         /\ v.session # None =>
              \E i \in DOMAIN (q \o Asks(v)) : (q \o Asks(v))[i].org = v.session
<1>1. CASE v.session = None
  BY <1>1, ConcatEmptySeq DEF Asks
<1>2. CASE v.session # None
  <2>. DEFINE ask == [org |-> v.session, answer |-> None]
  <2>1. ask \in Bills /\ Asks(v) = <<ask>>
    BY <1>2 DEF Asks, Bills, Desks, Held
  <2>2. Append(q, ask) \in Seq(Bills) /\ q \o <<ask>> = Append(q, ask)
    BY <2>1, AppendIsConcat, AppendProperties
  <2>3. Len(q) + 1 \in DOMAIN Append(q, ask) /\ Append(q, ask)[Len(q) + 1] = ask
    BY <2>1
  <2>. QED
    BY <2>1, <2>2, <2>3
<1>. QED
  BY <1>1, <1>2

(***************************************************************************)
(* What handlers do.                                                       *)
(***************************************************************************)
(* A check of the billing: a notice of another organisation goes.          *)
LEMMA SyncDoes ==
  ASSUME NEW v \in Desks
  PROVE  /\ SyncBillingLock(v) \in Desks
         /\ SyncBillingLock(v).lock \in {None, v.session}
         /\ TellsItsOrg(v) => TellsItsOrg(SyncBillingLock(v))
         /\ SyncBillingLock(v) = [v EXCEPT !.lock = SyncBillingLock(v).lock,
                                           !.status = SyncBillingLock(v).status,
                                           !.timer = SyncBillingLock(v).timer,
                                           !.trial = SyncBillingLock(v).trial]
<1>. DEFINE w == SyncBillingLock(v)
<1>. SUFFICES /\ w \in Desks
              /\ w.lock \in {None, v.session}
              /\ TellsItsOrg(v) => TellsItsOrg(w)
              /\ w = [v EXCEPT !.lock = w.lock, !.status = w.status, !.timer = w.timer,
                               !.trial = w.trial]
  OBVIOUS
<1>1. ASSUME NEW trial \in Held,
             w = [v EXCEPT !.lock = None, !.status = None, !.timer = FALSE, !.trial = trial]
      PROVE  /\ w \in Desks /\ w.lock = None
             /\ w = [v EXCEPT !.lock = w.lock, !.status = w.status, !.timer = w.timer,
                              !.trial = w.trial]
  <2>. HIDE DEF w
  <2>. QED
    BY <1>1 DEF Desks, Held, Statuses
<1>2. CASE v.session = None
  <2>1. w = [v EXCEPT !.lock = None, !.status = None, !.timer = FALSE, !.trial = None]
    BY <1>2 DEF SyncBillingLock, ApplyBillingLock, Desks
  <2>. HIDE DEF w
  <2>2. None \in Held
    BY DEF Held
  <2>. QED
    BY <1>1, <2>1, <2>2 DEF TellsItsOrg
<1>3. CASE v.session # None /\ v.lock \notin {None, v.session}
  <2>1. w = [v EXCEPT !.lock = None, !.status = None, !.timer = FALSE, !.trial = v.trial]
    BY <1>3 DEF SyncBillingLock, ApplyBillingLock, Desks
  <2>. HIDE DEF w
  <2>2. v.trial \in Held
    BY DEF Desks
  <2>. QED
    BY <1>1, <2>1, <2>2 DEF TellsItsOrg
<1>4. CASE v.session # None /\ v.lock \in {None, v.session}
  <2>1. w = v
    BY <1>4 DEF SyncBillingLock
  <2>2. v = [v EXCEPT !.lock = v.lock, !.status = v.status, !.timer = v.timer,
                      !.trial = v.trial]
    BY DEF Desks
  <2>. HIDE DEF w
  <2>. QED
    BY <1>4, <2>1, <2>2
<1>. QED
  BY <1>2, <1>3, <1>4

LEMMA BecomesDoes ==
  ASSUME Typed, NEW org \in Held
  PROVE  /\ Becomes(org) \in Desks
         /\ Becomes(org).session = org
         /\ Becomes(org).lock \in {None, org}
         /\ Becomes(org).listing \/ Becomes(org).chip = org
         /\ Becomes(org).open => d.open
         /\ d.switch = None => Becomes(org).switch = None
         /\ TellsItsOrg(d) => TellsItsOrg(Becomes(org))
<1>. DEFINE v == [d EXCEPT !.session = org]
            w == SetAuthSession(v)
            x == SyncBillingLock(w)
<1>1. /\ v \in Desks /\ v.session = org /\ v.open = d.open /\ v.switch = d.switch
      /\ v.lock = d.lock /\ v.status = d.status
  BY DEF Typed, Desks
<1>2. /\ w \in Desks /\ w.session = org /\ w.switch = d.switch
      /\ w.open => d.open
      /\ org = None => w.chip = None
      /\ w.lock = d.lock /\ w.status = d.status
  BY <1>1 DEF SetAuthSession, SetOrgList, Desks, Held
<1>. HIDE DEF v, w
<1>3. /\ x \in Desks /\ x.session = org /\ x.lock \in {None, org}
      /\ x.switch = d.switch /\ (x.open => d.open) /\ x.chip = w.chip
      /\ TellsItsOrg(d) => TellsItsOrg(x)
  <2>1. /\ x \in Desks /\ x.lock \in {None, org}
        /\ x = [w EXCEPT !.lock = x.lock, !.status = x.status, !.timer = x.timer,
                         !.trial = x.trial]
        /\ TellsItsOrg(w) => TellsItsOrg(x)
    BY <1>2, SyncDoes
  <2>. HIDE DEF x
  <2>2. x.session = w.session /\ x.switch = w.switch /\ x.open = w.open /\ x.chip = w.chip
    BY <1>2, <2>1 DEF Desks
  <2>3. TellsItsOrg(d) => TellsItsOrg(w)
    BY <1>2 DEF TellsItsOrg
  <2>. QED
    BY <1>2, <2>1, <2>2, <2>3
<1>. HIDE DEF x
<1>4. Becomes(org) = [x EXCEPT !.listing = org # None,
                               !.switch = IF @ = None THEN None ELSE [@ EXCEPT !.crossed = TRUE]]
  BY <1>1 DEF Becomes, Reflected, x, w, v
<1>5. ASSUME x.switch # None
      PROVE  [x.switch EXCEPT !.crossed = TRUE] \in [to : Orgs, crossed : BOOLEAN]
  BY <1>3, <1>5 DEF Desks
<1>6. PICK switch \in [to : Orgs, crossed : BOOLEAN] \union {None} :
        /\ Becomes(org) = [x EXCEPT !.listing = org # None, !.switch = switch]
        /\ d.switch = None => switch = None
  <2>1. CASE d.switch = None
    BY <1>3, <1>4, <2>1
  <2>2. CASE d.switch # None
    BY <1>3, <1>4, <1>5, <2>2
  <2>. QED
    BY <2>1, <2>2
<1>7. /\ Becomes(org) \in Desks /\ Becomes(org).session = org
      /\ Becomes(org).lock = x.lock /\ Becomes(org).status = x.status
      /\ Becomes(org).listing = (org # None)
      /\ Becomes(org).chip = x.chip /\ Becomes(org).open = x.open
      /\ Becomes(org).switch = switch
  BY <1>3, <1>6 DEF Desks
<1>8. TellsItsOrg(x) => TellsItsOrg(Becomes(org))
  BY <1>7 DEF TellsItsOrg
<1>. QED
  BY <1>2, <1>3, <1>6, <1>7, <1>8

LEMMA SwitchDoes ==
  ASSUME NEW v \in Desks, NEW org \in Orgs, NEW w, w = HandleSwitchOrg(v, org)
  PROVE  /\ w \in Desks
         /\ w.session = v.session /\ w.listing = v.listing /\ w.chip = v.chip
         /\ w.lock = v.lock /\ w.status = v.status /\ w.timer = v.timer
         /\ \/ w = v
            \/ w.switch # None /\ ~w.switch.crossed /\ ~w.open
         /\ w.switch = None => org = v.session
<1>. DEFINE s == [to |-> org, crossed |-> FALSE]
<1>1. s \in [to : Orgs, crossed : BOOLEAN] /\ ~s.crossed
  OBVIOUS
<1>2. s # None
  BY <1>1, OrgDeskAssumption DEF OrgDeskAssumption
<1>3. \/ w = v /\ (v.switch # None \/ org = v.session)
      \/ w = [v EXCEPT !.switch = s, !.open = FALSE]
  BY DEF HandleSwitchOrg
<1>. HIDE DEF s
<1>. QED
  BY <1>1, <1>2, <1>3 DEF Desks

(***************************************************************************)
(* The invariant, action by action.                                        *)
(***************************************************************************)
LEMMA DeskInit == Init => DeskInv
<1>. SUFFICES ASSUME Init PROVE DeskInv
  OBVIOUS
<1>1. /\ d.session = None /\ d.chip = None /\ d.switch = None /\ d.lock = None
      /\ bills = <<>>
  BY DEF Init
<1>2. d \in Desks
  BY DEF Init, Desks, Held, Statuses
<1>3. Typed
  BY <1>1, <1>2 DEF Init, Typed
<1>. QED
  BY <1>1, <1>3 DEF DeskInv, SwitchAlone, LockSound, ChipTellsOrg

(* Another session takes the place of the one held, and is asked about.    *)
LEMMA AdoptsKeep ==
  ASSUME DeskInv, NEW org \in Held, NEW v, v = Becomes(org),
         d' = v \/ d' = [v EXCEPT !.switch = None],
         bills' = bills \o Asks(d'), UNCHANGED billing
  PROVE  DeskInv'
<1>1. /\ v \in Desks /\ v.session = org /\ v.lock \in {None, org}
      /\ v.listing \/ v.chip = org
      /\ v.switch # None => ~v.open
      /\ TellsItsOrg(v)
  <2>1. TellsItsOrg(d)
    BY DEF DeskInv, LockSound, TellsItsOrg
  <2>. QED
    BY <2>1, BecomesDoes DEF DeskInv, SwitchAlone
<1>2. /\ d' \in Desks /\ d'.session = org /\ d'.lock \in {None, org}
      /\ d'.listing \/ d'.chip = org
      /\ d'.switch # None => ~d'.open
      /\ TellsItsOrg(d')
  <2>1. CASE d' = v
    BY <1>1, <2>1
  <2>2. CASE d' = [v EXCEPT !.switch = None]
    BY <1>1, <2>2 DEF Desks, TellsItsOrg
  <2>. QED
    BY <2>1, <2>2
<1>3. /\ bills' \in Seq(Bills)
      /\ org # None => \E i \in DOMAIN bills' : bills'[i].org = org
  BY <1>2, AsksAppended DEF DeskInv, Typed
<1>4. LockSound'
  BY <1>2, <1>3 DEF LockSound, TellsItsOrg
<1>. QED
  BY <1>2, <1>3, <1>4 DEF DeskInv, Typed, SwitchAlone, ChipTellsOrg

LEMMA SignOutKeeps == ASSUME DeskInv, SignOut PROVE DeskInv'
<1>1. d' = Becomes(None) /\ UNCHANGED <<bills, billing>> /\ None \in Held
  BY DEF SignOut, Held
<1>2. bills \o Asks(d') = bills
  <2>1. d'.session = None
    BY <1>1, BecomesDoes DEF DeskInv
  <2>. QED
    BY <2>1, ConcatEmptySeq DEF Asks, DeskInv, Typed
<1>. QED
  BY <1>1, <1>2, AdoptsKeep

(* The user and the list of memberships: no request and no notice changes. *)
ChipOnly ==
  /\ d' \in Desks /\ UNCHANGED <<bills, billing>>
  /\ d'.session = d.session /\ d'.lock = d.lock /\ d'.status = d.status /\ d'.timer = d.timer

LEMMA ChipOnlyKeeps ==
  ASSUME DeskInv, ChipOnly, SwitchAlone', ChipTellsOrg'
  PROVE  DeskInv'
BY DEF ChipOnly, DeskInv, Typed, LockSound

LEMMA PickKeeps == ASSUME DeskInv, NEW org \in Orgs, Pick(org) PROVE DeskInv'
<1>. DEFINE v == [d EXCEPT !.open = FALSE, !.chip = org]
<1>1. /\ d \in Desks /\ d.open /\ UNCHANGED <<bills, billing>>
      /\ (d' = v /\ org = d.chip) \/ d' = HandleSwitchOrg(v, org)
  BY DEF Pick, DeskInv, Typed
<1>2. /\ v \in Desks /\ v.session = d.session /\ v.lock = d.lock /\ v.status = d.status
      /\ v.timer = d.timer
      /\ v.chip = org /\ v.listing = d.listing /\ v.switch = d.switch /\ ~v.open
  BY <1>1 DEF Desks, Held
<1>3. d.switch = None
  BY <1>1 DEF DeskInv, SwitchAlone
<1>. HIDE DEF v
<1>4. CASE d' = v /\ org = d.chip
  BY <1>1, <1>2, <1>3, <1>4, ChipOnlyKeeps DEF ChipOnly, DeskInv, SwitchAlone, ChipTellsOrg
<1>5. CASE d' = HandleSwitchOrg(v, org)
  <2>1. /\ d' \in Desks
        /\ d'.session = d.session /\ d'.listing = d.listing /\ d'.chip = org
        /\ d'.lock = d.lock /\ d'.status = d.status /\ d'.timer = d.timer
        /\ d' = v \/ (d'.switch # None /\ ~d'.switch.crossed /\ ~d'.open)
        /\ d'.switch = None => org = d.session
    BY <1>2, <1>5, SwitchDoes
  <2>2. ChipOnly
    BY <1>1, <2>1 DEF ChipOnly
  <2>3. SwitchAlone'
    BY <1>2, <1>3, <2>1 DEF SwitchAlone
  <2>4. ChipTellsOrg'
    BY <2>1 DEF ChipTellsOrg
  <2>. QED
    BY <2>2, <2>3, <2>4, ChipOnlyKeeps
<1>. QED
  BY <1>1, <1>4, <1>5

LEMMA LockPickKeeps == ASSUME DeskInv, NEW org \in Orgs, PickFromLock(org) PROVE DeskInv'
<1>1. d \in Desks /\ d' = HandleSwitchOrg(d, org) /\ UNCHANGED <<bills, billing>>
  BY DEF PickFromLock, DeskInv, Typed
<1>2. /\ d' \in Desks
      /\ d'.session = d.session /\ d'.listing = d.listing /\ d'.chip = d.chip
      /\ d'.lock = d.lock /\ d'.status = d.status /\ d'.timer = d.timer
      /\ d' = d \/ (d'.switch # None /\ ~d'.switch.crossed /\ ~d'.open)
  BY <1>1, SwitchDoes
<1>3. ChipOnly
  BY <1>1, <1>2 DEF ChipOnly
<1>. QED
  BY <1>2, <1>3, ChipOnlyKeeps DEF DeskInv, SwitchAlone, ChipTellsOrg

LEMMA ListKeeps ==
  ASSUME DeskInv, NEW known \in BOOLEAN, ListAnswered(known) \/ ShowMenu \/ SwitchRefused
  PROVE  DeskInv'
<1>1. d \in Desks /\ UNCHANGED <<bills, billing>>
  BY DEF DeskInv, Typed, ListAnswered, ShowMenu, SwitchRefused
<1>2. CASE ListAnswered(known)
  <2>1. PICK listed \in Held :
          d' = [d EXCEPT !.listing = FALSE, !.listed = listed, !.chip = d.session]
    BY <1>1, <1>2 DEF ListAnswered, SetOrgList, Desks, Held
  <2>2. /\ ChipOnly /\ d'.chip = d.session /\ d'.open = d.open /\ d'.switch = d.switch
    BY <1>1, <2>1 DEF ChipOnly, Desks
  <2>. QED
    BY <2>2, ChipOnlyKeeps DEF ChipOnly, DeskInv, SwitchAlone, ChipTellsOrg
<1>3. CASE ShowMenu
  <2>1. d' = [d EXCEPT !.open = TRUE] /\ d.switch = None
    BY <1>3 DEF ShowMenu
  <2>2. ChipOnly /\ d'.chip = d.chip /\ d'.listing = d.listing /\ d'.switch = None
    BY <1>1, <2>1 DEF ChipOnly, Desks
  <2>. QED
    BY <2>1, <2>2, ChipOnlyKeeps DEF ChipOnly, DeskInv, SwitchAlone, ChipTellsOrg
<1>4. CASE SwitchRefused
  <2>1. CASE d.switch.crossed
    <3>1. d' = [d EXCEPT !.switch = None] /\ d.switch # None
      BY <1>4, <2>1 DEF SwitchRefused
    <3>2. ChipOnly /\ d'.chip = d.chip /\ d'.listing = d.listing /\ d'.switch = None
      BY <1>1, <3>1 DEF ChipOnly, Desks, Held
    <3>. QED
      BY <2>1, <3>1, <3>2, ChipOnlyKeeps DEF ChipOnly, DeskInv, SwitchAlone, ChipTellsOrg
  <2>2. CASE ~d.switch.crossed
    <3>1. PICK listed \in Held :
            d' = [d EXCEPT !.switch = None, !.listed = listed, !.chip = d.session]
      BY <1>1, <1>4, <2>2 DEF SwitchRefused, SetOrgList, Desks, Held
    <3>2. ChipOnly /\ d'.chip = d.session /\ d'.switch = None
      BY <1>1, <3>1 DEF ChipOnly, Desks, Held
    <3>. QED
      BY <3>2, ChipOnlyKeeps DEF ChipOnly, SwitchAlone, ChipTellsOrg
  <2>. QED
    BY <2>1, <2>2
<1>. QED
  BY <1>2, <1>3, <1>4

LEMMA SwitchAnsweredKeeps == ASSUME DeskInv, SwitchAnswered PROVE DeskInv'
<1>. d \in Desks /\ d.switch \in [to : Orgs, crossed : BOOLEAN]
  BY DEF DeskInv, Typed, Desks, SwitchAnswered
<1>1. CASE d.switch.crossed
  <2>1. d' = [d EXCEPT !.switch = None] /\ UNCHANGED <<bills, billing>>
    BY <1>1 DEF SwitchAnswered
  <2>. QED
    BY <1>1, <2>1 DEF DeskInv, Typed, SwitchAlone, LockSound, ChipTellsOrg, Desks
<1>2. CASE ~d.switch.crossed
  <2>1. d.switch.to \in Held
    BY DEF Held
  <2>2. /\ d' = [Becomes(d.switch.to) EXCEPT !.switch = None]
        /\ bills' = bills \o Asks(d') /\ UNCHANGED billing
    BY <1>2 DEF SwitchAnswered
  <2>. QED
    BY <2>1, <2>2, AdoptsKeep
<1>. QED
  BY <1>1, <1>2

(* A request of the billing's answered or failed, and the one it was about *)
(* no longer the session's, or answered for, or asked about again.         *)
LEMMA BillSettled ==
  ASSUME DeskInv, NEW i \in DOMAIN bills, bills' = RemoveAt(bills, i), UNCHANGED billing,
         NEW lock \in Held, NEW status \in Statuses, NEW timer \in BOOLEAN, NEW trial \in Held,
         d' = [d EXCEPT !.lock = lock, !.status = status, !.timer = timer, !.trial = trial],
         lock # None => status.guess \/ status.of = lock,
         lock # None => /\ lock = d.session
                        /\ \/ timer
                           \/ lock = d.lock /\ timer = d.timer /\ bills[i].org # lock
  PROVE  DeskInv'
<1>1. d \in Desks /\ bills \in Seq(Bills)
  BY DEF DeskInv, Typed
<1>2. /\ d' \in Desks /\ d'.session = d.session /\ d'.listing = d.listing
      /\ d'.chip = d.chip /\ d'.switch = d.switch /\ d'.open = d.open
      /\ d'.lock = lock /\ d'.status = status /\ d'.timer = timer
  BY <1>1 DEF Desks
<1>3. bills' \in Seq(Bills)
  BY <1>1, RemoveAtKeeps
<1>4. ASSUME lock # None, ~timer
      PROVE  \E k \in DOMAIN bills' : bills'[k].org = lock
  <2>1. PICK j \in DOMAIN bills : bills[j].org = lock /\ j # i
    BY <1>4 DEF DeskInv, LockSound
  <2>2. \E k \in DOMAIN bills' : bills'[k] = bills[j]
    BY <1>1, <2>1, RemoveAtKeeps
  <2>. QED
    BY <2>1, <2>2
<1>5. LockSound'
  BY <1>2, <1>4 DEF LockSound
<1>. QED
  BY <1>2, <1>3, <1>5 DEF DeskInv, Typed, SwitchAlone, ChipTellsOrg

LEMMA BillAnsweredKeeps == ASSUME DeskInv, NEW i \in DOMAIN bills, BillAnswered(i) PROVE DeskInv'
<1>. DEFINE org == bills[i].org
            is(answer) == IF bills[i].answer = answer THEN org ELSE None
<1>1. d \in Desks /\ org \in Orgs
  <2>1. bills[i] \in Bills
    BY ElementOfSeq, LenProperties DEF DeskInv, Typed
  <2>. QED
    BY <2>1 DEF DeskInv, Typed, Bills
<1>2. bills' = RemoveAt(bills, i) /\ UNCHANGED billing
  BY DEF BillAnswered
<1>3. CASE org # d.session
  <2>1. d' = [d EXCEPT !.lock = d.lock, !.status = d.status, !.timer = d.timer, !.trial = d.trial]
    BY <1>1, <1>3 DEF BillAnswered, Desks
  <2>2. d.lock \in Held /\ d.status \in Statuses /\ d.timer \in BOOLEAN /\ d.trial \in Held
    BY <1>1 DEF Desks
  <2>3. d.lock # None => d.lock = d.session /\ (d.status.guess \/ d.status.of = d.lock)
    BY DEF DeskInv, LockSound
  <2>. QED
    BY <1>2, <1>3, <2>1, <2>2, <2>3, BillSettled
<1>4. CASE org = d.session
  <2>. DEFINE lock == is("locked")
              trial == is("trial")
              timer == lock # None
              status == Status(i)
  <2>1. lock \in Held /\ trial \in Held /\ timer \in BOOLEAN /\ status \in Statuses
    BY <1>1 DEF Held, Statuses, Status
  <2>2. d' = [d EXCEPT !.lock = lock, !.status = status, !.timer = timer, !.trial = trial]
    BY <1>1, <1>4 DEF BillAnswered, ApplyBillingLock, Desks
  <2>3. lock # None => lock = d.session /\ status.of = lock
    BY <1>1, <1>4 DEF Status
  <2>. HIDE DEF lock, trial, status
  <2>. QED
    BY <1>2, <2>1, <2>2, <2>3, BillSettled
<1>. QED
  BY <1>3, <1>4

LEMMA BillFailedKeeps == ASSUME DeskInv, NEW i \in DOMAIN bills, BillFailed(i) PROVE DeskInv'
<1>1. d \in Desks /\ bills' = RemoveAt(bills, i) /\ UNCHANGED billing
  BY DEF BillFailed, DeskInv, Typed
<1>. DEFINE timer == d.timer \/ d.lock # None
<1>2. d' = [d EXCEPT !.lock = d.lock, !.status = d.status, !.timer = timer, !.trial = d.trial]
  BY <1>1 DEF BillFailed, ScheduleBillingRecheck, Desks
<1>3. d.lock \in Held /\ d.status \in Statuses /\ timer \in BOOLEAN /\ d.trial \in Held
  BY <1>1 DEF Desks
<1>4. d.lock # None =>
        d.lock = d.session /\ timer /\ (d.status.guess \/ d.status.of = d.lock)
  BY DEF DeskInv, LockSound
<1>. HIDE DEF timer
<1>. QED
  BY <1>1, <1>2, <1>3, <1>4, BillSettled

LEMMA BillServedKeeps == ASSUME DeskInv, NEW i \in DOMAIN bills, BillServed(i) PROVE DeskInv'
<1>1. /\ bills \in Seq(Bills) /\ bills[i] \in Bills
      /\ bills' = [bills EXCEPT ![i].answer = billing[bills[i].org]] /\ UNCHANGED <<d, billing>>
  BY ElementOfSeq, LenProperties DEF BillServed, DeskInv, Typed
<1>2. [bills[i] EXCEPT !.answer = billing[bills[i].org]] \in Bills
  BY <1>1 DEF DeskInv, Typed, Bills
<1>3. bills' \in Seq(Bills)
  BY <1>1, <1>2, ExceptSeq
<1>4. DOMAIN bills' = DOMAIN bills /\ \A j \in DOMAIN bills : bills'[j].org = bills[j].org
  BY <1>1 DEF Bills
<1>5. LockSound'
  BY <1>1, <1>4 DEF DeskInv, LockSound
<1>. QED
  BY <1>1, <1>3, <1>5 DEF DeskInv, Typed, SwitchAlone, ChipTellsOrg

LEMMA BillingMovesKeeps ==
  ASSUME DeskInv, NEW org \in Orgs, NEW status \in {"locked", "trial", "paid"},
         BillingMoves(org, status)
  PROVE  DeskInv'
BY DEF BillingMoves, DeskInv, Typed, SwitchAlone, LockSound, ChipTellsOrg

(* The billing is asked about again, with another timer or another notice  *)
(* up: what was shown of another organisation goes first.                  *)
LEMMA SyncedKeeps ==
  ASSUME DeskInv, NEW v \in Desks, TellsItsOrg(v),
         v.session = d.session, v.listing = d.listing, v.chip = d.chip,
         v.switch = d.switch, v.open = d.open,
         d' = SyncBillingLock(v), bills' = bills \o Asks(v), UNCHANGED billing
  PROVE  DeskInv'
<1>. DEFINE w == SyncBillingLock(v)
<1>1. d' = w
  OBVIOUS
<1>3. /\ w \in Desks /\ w.lock \in {None, v.session} /\ TellsItsOrg(w)
      /\ w = [v EXCEPT !.lock = w.lock, !.status = w.status, !.timer = w.timer, !.trial = w.trial]
  BY SyncDoes
<1>. HIDE DEF w
<1>4. /\ w.session = d.session /\ w.listing = d.listing /\ w.chip = d.chip
      /\ w.switch = d.switch /\ w.open = d.open
  BY <1>3 DEF Desks
<1>5. /\ bills' \in Seq(Bills)
      /\ v.session # None => \E k \in DOMAIN bills' : bills'[k].org = v.session
  BY AsksAppended DEF DeskInv, Typed
<1>6. LockSound'
  BY <1>1, <1>3, <1>4, <1>5 DEF LockSound, TellsItsOrg
<1>. QED
  BY <1>1, <1>3, <1>4, <1>5, <1>6 DEF DeskInv, Typed, SwitchAlone, ChipTellsOrg

LEMMA RecheckKeeps ==
  ASSUME DeskInv, NEW v \in Desks, v = [d EXCEPT !.timer = v.timer], Recheck(v)
  PROVE  DeskInv'
<1>1. /\ v.session = d.session /\ v.listing = d.listing /\ v.chip = d.chip
      /\ v.switch = d.switch /\ v.open = d.open /\ v.lock = d.lock /\ v.status = d.status
  BY DEF DeskInv, Typed, Desks
<1>2. TellsItsOrg(v)
  BY <1>1 DEF DeskInv, LockSound, TellsItsOrg
<1>3. d' = SyncBillingLock(v) /\ bills' = bills \o Asks(v) /\ UNCHANGED billing
  BY DEF Recheck
<1>. QED
  BY <1>1, <1>2, <1>3, SyncedKeeps

(* A refusal: a guess, or the status of the notice that was up already,    *)
(* which is of the organisation held.                                      *)
LEMMA RefusedKeeps == ASSUME DeskInv, NEW org \in Orgs, EntryRefused(org) PROVE DeskInv'
<1>. DEFINE status == IF d.lock = None THEN [of |-> org, guess |-> TRUE] ELSE d.status
            v == ApplyBillingLock(d, d.session, status)
<1>1. /\ d \in Desks /\ status \in Statuses
      /\ status.guess \/ status.of = d.session
  BY DEF DeskInv, Typed, LockSound, Desks, Statuses
<1>2. d' = SyncBillingLock(v) /\ bills' = bills \o Asks(d') /\ UNCHANGED billing
  BY DEF EntryRefused, ReflectSuspension
<1>. HIDE DEF status
<1>3. /\ v \in Desks /\ v.lock = d.session /\ v.status = status
      /\ v.session = d.session /\ v.listing = d.listing /\ v.chip = d.chip
      /\ v.switch = d.switch /\ v.open = d.open
  BY <1>1 DEF ApplyBillingLock, Desks
<1>. HIDE DEF v
<1>4. TellsItsOrg(v)
  BY <1>1, <1>3 DEF TellsItsOrg
<1>5. Asks(d') = Asks(v)
  <2>1. SyncBillingLock(v).session = v.session
    BY <1>3 DEF SyncBillingLock, ApplyBillingLock, Desks
  <2>. QED
    BY <1>2, <2>1 DEF Asks
<1>. QED
  BY <1>2, <1>3, <1>4, <1>5, SyncedKeeps

LEMMA GateKeeps ==
  ASSUME DeskInv, NEW org \in Orgs, GateLocks(org) \/ GateForgets(org) PROVE DeskInv'
BY DEF GateLocks, GateForgets, DeskInv, Typed, SwitchAlone, LockSound, ChipTellsOrg

LEMMA DeskNext == DeskInv /\ [Next]_deskVars => DeskInv'
<1>. SUFFICES ASSUME DeskInv, [Next]_deskVars PROVE DeskInv'
  OBVIOUS
<1>. d \in Desks
  BY DEF DeskInv, Typed
<1>1. ASSUME NEW org \in Orgs, Adopt(org) PROVE DeskInv'
  BY <1>1, AdoptsKeep DEF Adopt, Held
<1>2. CASE TimerFires
  <2>. DEFINE v == [d EXCEPT !.timer = FALSE]
  <2>1. v \in Desks /\ v = [d EXCEPT !.timer = v.timer] /\ Recheck(v)
    BY <1>2 DEF TimerFires, Desks
  <2>. QED
    BY <2>1, RecheckKeeps
<1>3. CASE Focus
  <2>1. d = [d EXCEPT !.timer = d.timer] /\ Recheck(d)
    BY <1>3 DEF Focus, Desks
  <2>. QED
    BY <2>1, RecheckKeeps
<1>4. CASE UNCHANGED deskVars
  BY <1>4 DEF deskVars, DeskInv, Typed, SwitchAlone, LockSound, ChipTellsOrg
<1>. QED
  BY <1>1, <1>2, <1>3, <1>4, SignOutKeeps, PickKeeps, LockPickKeeps, ListKeeps,
     SwitchAnsweredKeeps, BillAnsweredKeeps, BillFailedKeeps, BillServedKeeps, BillingMovesKeeps,
     RefusedKeeps, GateKeeps
  DEF Next, Answered, Served

LEMMA DeskInvariant == Spec => []DeskInv
BY DeskInit, DeskNext, PTL DEF Spec

(* A lock notice is tagged with the organisation held, tells its status or *)
(* a refusal's guess, and is being asked about again, whatever is refused, *)
(* answered late or adopted meanwhile: main.ts, syncBillingLock,           *)
(* reflectSuspension and scheduleBillingRecheck.                           *)
THEOREM LockSoundCorrect == Spec => []LockSound
<1>1. DeskInv => LockSound
  BY DEF DeskInv
<1>. QED
  BY <1>1, DeskInvariant, PTL

(* With nothing in flight the chip names the organisation held: main.ts,   *)
(* handleSwitchOrg and reflectAuthSession, and ui.ts, setOrgList.          *)
THEOREM ChipTellsOrgCorrect == Spec => []ChipTellsOrg
<1>1. DeskInv => ChipTellsOrg
  BY DEF DeskInv
<1>. QED
  BY <1>1, DeskInvariant, PTL

(***************************************************************************)
(* The panels.                                                             *)
(***************************************************************************)
Commands ==
  {"list", "issue", "issue list", "mail", "mail list", "setup", "revoke", "remove"}

Flows ==
  [what : Commands, panel : Panels, row : Rows \union {NoRow},
   at : {"asked", "done", "failed", "no mailer"}, rows : SUBSET Rows, old : BOOLEAN]

(* Each command is of its own panel, and only a mailing lacks a mailer.    *)
OfPanel(flow) ==
  /\ flow.what \in {"issue", "issue list", "mail", "mail list", "setup", "revoke"}
       => flow.panel = "invites"
  /\ flow.what = "remove" => flow.panel = "members"
  /\ flow.at = "no mailer" => flow.what \in {"mail", "setup"}

Screens == [up : BOOLEAN, rows : SUBSET Rows, error : BOOLEAN]

Forms ==
  [issuing : BOOLEAN, sending : BOOLEAN, mailer : BOOLEAN, setup : BOOLEAN, armed : SUBSET Rows]

PanelTyped ==
  /\ held \in [Panels -> SUBSET Rows]
  /\ flows \in Seq(Flows) /\ \A i \in DOMAIN flows : OfPanel(flows[i])
  /\ screen \in [Panels -> Screens]
  /\ forms \in Forms /\ overtaken \in BOOLEAN

(* A command of a panel that will end in a list yet to be served, or in an *)
(* error.                                                                  *)
Due(flow, panel) ==
  /\ flow.panel = panel /\ flow.what # "setup"
  /\ flow.what \in Lists => flow.at # "done"

SomeDue(panel) == \E i \in DOMAIN flows : Due(flows[i], panel)

(* With nothing due, the last list to be shown is the backend's, or comes  *)
(* after a later one.                                                      *)
Current(panel) ==
  /\ \A i \in Coming(panel) : flows[i].old \/ flows[i].rows = held[panel]
  /\ Coming(panel) = {} => screen[panel].rows = held[panel]

Told(panel) ==
  ~overtaken /\ screen[panel].up => screen[panel].error \/ SomeDue(panel) \/ Current(panel)

(* The invite step has the screen to itself, and so has its mailing, or    *)
(* the panel opened meanwhile is marked.                                   *)
SetupAlone ==
  /\ forms.setup => \A panel \in Panels : ~screen[panel].up
  /\ ~overtaken /\ (\E i \in DOMAIN flows : flows[i].what = "setup") =>
       \A panel \in Panels : ~screen[panel].up

PanelInv == PanelTyped /\ SetupAlone /\ \A panel \in Panels : Told(panel)

LEMMA PanelAtFirst == PanelInit => PanelInv
<1> SUFFICES ASSUME PanelInit PROVE PanelInv
  OBVIOUS
<1>1. PICK available \in BOOLEAN : forms = [Untouched EXCEPT !.mailer = available]
  BY DEF PanelInit
<1>2. forms \in Forms /\ ~forms.setup
  BY <1>1 DEF Forms, Untouched
<1>3. Closed \in Screens /\ ~Closed.up
  BY DEF Closed, Screens
<1>4. DOMAIN flows = {} /\ flows \in Seq(Flows)
  BY DEF PanelInit
<1>5. PanelTyped
  BY <1>2, <1>3, <1>4 DEF PanelInit, PanelTyped
<1> QED
  BY <1>2, <1>3, <1>4, <1>5 DEF PanelInit, PanelInv, SetupAlone, Told

(***************************************************************************)
(* What becomes of the commands.                                           *)
(***************************************************************************)
LEMMA FlowTyped ==
  ASSUME NEW what \in Commands, NEW panel \in Panels, NEW row \in Rows \union {NoRow}
  PROVE  /\ Flow(what, panel, row) \in Flows
         /\ Flow(what, panel, row).what = what /\ Flow(what, panel, row).panel = panel
         /\ Flow(what, panel, row).at = "asked" /\ ~Flow(what, panel, row).old
BY DEF Flow, Flows

LEMMA BeginDoes ==
  ASSUME PanelTyped, NEW flow \in Flows, flow.at = "asked", OfPanel(flow), Begin(flow)
  PROVE  /\ flows' \in Seq(Flows) /\ \A i \in DOMAIN flows' : OfPanel(flows'[i])
         /\ \A panel \in Panels : Coming(panel)' = Coming(panel)
         /\ \A i \in DOMAIN flows : i \in DOMAIN flows' /\ flows'[i] = flows[i]
         /\ \E i \in DOMAIN flows' : flows'[i] = flow
         /\ \A i \in DOMAIN flows' : i \in DOMAIN flows \/ flows'[i] = flow
<1>1. Len(flows) \in Nat /\ DOMAIN flows = 1 .. Len(flows) /\ flows' = Append(flows, flow)
  BY LenProperties DEF PanelTyped, Begin
<1>2. /\ flows' \in Seq(Flows) /\ Len(flows') = Len(flows) + 1
      /\ DOMAIN flows' = 1 .. Len(flows) + 1
      /\ \A i \in 1 .. Len(flows) : flows'[i] = flows[i]
      /\ flows'[Len(flows) + 1] = flow
  BY <1>1, AppendProperties, LenProperties DEF PanelTyped
<1>3. \A i \in DOMAIN flows : i \in DOMAIN flows' /\ flows'[i] = flows[i]
  BY <1>1, <1>2
<1>4. \A i \in DOMAIN flows' : i \in DOMAIN flows \/ i = Len(flows) + 1
  BY <1>1, <1>2
<1>5. Len(flows) + 1 \in DOMAIN flows'
  BY <1>1, <1>2
<1>6. \A i \in DOMAIN flows' : OfPanel(flows'[i])
  BY <1>2, <1>3, <1>4 DEF PanelTyped
<1>7. ASSUME NEW panel \in Panels PROVE Coming(panel)' = Coming(panel)
  BY <1>2, <1>3, <1>4 DEF Coming
<1> QED
  BY <1>2, <1>3, <1>4, <1>5, <1>6, <1>7

LEMMA RefreshingDoes ==
  ASSUME PanelTyped, NEW i \in DOMAIN flows, NEW what \in {"list", "issue list", "mail list"},
         flows[i].what \notin Lists, Refreshing(i, what),
         what # "list" => flows[i].panel = "invites"
  PROVE  /\ flows' \in Seq(Flows) /\ \A k \in DOMAIN flows' : OfPanel(flows'[k])
         /\ DOMAIN flows' = DOMAIN flows
         /\ \A panel \in Panels : Coming(panel)' = Coming(panel)
         /\ \A k \in DOMAIN flows : k # i => flows'[k] = flows[k]
         /\ Due(flows'[i], flows[i].panel) /\ flows'[i].what = what
<1>1. Len(flows) \in Nat /\ DOMAIN flows = 1 .. Len(flows) /\ flows[i] \in Flows
  BY LenProperties, ElementOfSeq DEF PanelTyped
<1>2. flows[i].panel \in Panels /\ what \in Commands /\ what \in Lists
  BY <1>1 DEF Flows, Commands, Lists
<1> DEFINE flow == Flow(what, flows[i].panel, NoRow)
<1>3. /\ flow \in Flows /\ flow.what = what /\ flow.panel = flows[i].panel
      /\ flow.at = "asked"
  <2>1. NoRow \in Rows \union {NoRow}
    OBVIOUS
  <2>2. flow \in Flows
    BY <1>2, <2>1, FlowTyped
  <2> QED BY <2>2 DEF Flow, flow
<1> HIDE DEF flow
<1>4. flows' = [flows EXCEPT ![i] = flow]
  BY DEF Refreshing, flow
<1>5. flows' \in Seq(Flows) /\ DOMAIN flows' = DOMAIN flows
  BY <1>1, <1>3, <1>4, ExceptSeq DEF PanelTyped
<1>6. flows'[i] = flow /\ \A k \in DOMAIN flows : k # i => flows'[k] = flows[k]
  BY <1>4
<1>7. OfPanel(flow)
  BY <1>3 DEF OfPanel
<1>8. \A k \in DOMAIN flows' : OfPanel(flows'[k])
  BY <1>5, <1>6, <1>7 DEF PanelTyped
<1>9. ASSUME NEW panel \in Panels PROVE Coming(panel)' = Coming(panel)
  BY <1>3, <1>5, <1>6 DEF Coming
<1>10. Due(flow, flows[i].panel)
  BY <1>3 DEF Due
<1> QED
  BY <1>3, <1>5, <1>6, <1>8, <1>9, <1>10

LEMMA EndedDoes ==
  ASSUME PanelTyped, NEW i \in DOMAIN flows, Ended(i)
  PROVE  /\ flows' \in Seq(Flows) /\ \A k \in DOMAIN flows' : OfPanel(flows'[k])
         /\ \A k \in DOMAIN flows : k # i => \E m \in DOMAIN flows' : flows'[m] = flows[k]
         /\ \A m \in DOMAIN flows' : \E k \in DOMAIN flows : k # i /\ flows'[m] = flows[k]
<1>1. flows' = RemoveAt(flows, i)
  BY DEF Ended
<1>2. /\ flows' \in Seq(Flows)
      /\ \A k \in DOMAIN flows : k # i => \E m \in DOMAIN flows' : flows'[m] = flows[k]
      /\ \A m \in DOMAIN flows' : \E k \in DOMAIN flows : k # i /\ flows'[m] = flows[k]
  BY <1>1, RemoveAtKeeps DEF PanelTyped
<1>3. \A k \in DOMAIN flows' : OfPanel(flows'[k])
  BY <1>2 DEF PanelTyped
<1> QED
  BY <1>2, <1>3

LEMMA ToldMoves ==
  ASSUME NEW panel \in Panels, Told(panel), screen'[panel] = screen[panel],
         held'[panel] = held[panel], overtaken => overtaken',
         \A i \in DOMAIN flows : Due(flows[i], panel) =>
           \E k \in DOMAIN flows' : Due(flows'[k], panel),
         \A k \in Coming(panel)' : \E i \in Coming(panel) :
           flows'[k].old = flows[i].old /\ flows'[k].rows = flows[i].rows,
         Coming(panel)' = {} => Coming(panel) = {}
  PROVE  Told(panel)'
<1> SUFFICES ASSUME ~overtaken', screen'[panel].up,
                    ~screen'[panel].error, ~SomeDue(panel)'
             PROVE  Current(panel)'
  BY DEF Told
<1>1. Current(panel)
  BY DEF Told, SomeDue
<1>2. \A k \in Coming(panel)' : flows'[k].old \/ flows'[k].rows = held'[panel]
  BY <1>1 DEF Current
<1>3. Coming(panel)' = {} => screen'[panel].rows = held'[panel]
  BY <1>1 DEF Current
<1> QED
  BY <1>2, <1>3 DEF Current

LEMMA SetupKept ==
  ASSUME SetupAlone, \A panel \in Panels : screen'[panel].up => screen[panel].up,
         forms'.setup => forms.setup, overtaken => overtaken',
         (\E i \in DOMAIN flows' : flows'[i].what = "setup")
           => overtaken' \/ \E i \in DOMAIN flows : flows[i].what = "setup"
  PROVE  SetupAlone'
BY DEF SetupAlone

(* Another command begins: what is due stays due, and nothing new is on    *)
(* its way to be shown.                                                    *)
LEMMA ToldAsBegun ==
  ASSUME PanelInv, NEW flow \in Flows, flow.at = "asked", OfPanel(flow), Begin(flow),
         NEW panel \in Panels, screen'[panel] = screen[panel],
         held'[panel] = held[panel], overtaken => overtaken'
  PROVE  Told(panel)'
<1>1. PanelTyped /\ Told(panel)
  BY DEF PanelInv
<1>2. /\ Coming(panel)' = Coming(panel)
      /\ \A i \in DOMAIN flows : i \in DOMAIN flows' /\ flows'[i] = flows[i]
  BY <1>1, BeginDoes
<1>3. \A i \in DOMAIN flows : Due(flows[i], panel) =>
        \E k \in DOMAIN flows' : Due(flows'[k], panel)
  BY <1>2
<1>4. \A k \in Coming(panel)' : k \in Coming(panel) /\ k \in DOMAIN flows
  BY <1>2 DEF Coming
<1>5. \A k \in Coming(panel)' : \E i \in Coming(panel) :
        flows'[k].old = flows[i].old /\ flows'[k].rows = flows[i].rows
  BY <1>2, <1>4
<1> QED
  BY <1>1, <1>2, <1>3, <1>5, ToldMoves

LEMMA DueAsBegun ==
  ASSUME PanelInv, NEW flow \in Flows, flow.at = "asked", flow.what # "setup", OfPanel(flow),
         Begin(flow)
  PROVE  Told(flow.panel)'
<1>1. \E i \in DOMAIN flows' : flows'[i] = flow
  BY BeginDoes DEF PanelInv
<1>2. Due(flow, flow.panel)
  BY DEF Due
<1> QED
  BY <1>1, <1>2 DEF Told, SomeDue

LEMMA ToldAsRefreshed ==
  ASSUME PanelInv, NEW i \in DOMAIN flows, NEW what \in {"list", "issue list", "mail list"},
         flows[i].what \notin Lists \union {"setup"}, Refreshing(i, what),
         what # "list" => flows[i].panel = "invites",
         \A panel \in Panels \ {flows[i].panel} : screen'[panel] = screen[panel],
         held' = held, overtaken' = overtaken, forms' = forms,
         \A panel \in Panels : screen'[panel].up => screen[panel].up
  PROVE  SetupAlone' /\ \A panel \in Panels : Told(panel)'
<1>1. PanelTyped /\ SetupAlone /\ \A panel \in Panels : Told(panel)
  BY DEF PanelInv
<1>2. /\ DOMAIN flows' = DOMAIN flows
      /\ \A panel \in Panels : Coming(panel)' = Coming(panel)
      /\ \A k \in DOMAIN flows : k # i => flows'[k] = flows[k]
      /\ Due(flows'[i], flows[i].panel) /\ flows'[i].what = what
  BY <1>1, RefreshingDoes
<1>3. SetupAlone'
  <2>1. (\E k \in DOMAIN flows' : flows'[k].what = "setup")
          => \E k \in DOMAIN flows : flows[k].what = "setup"
    BY <1>2
  <2> QED
    BY <1>1, <2>1, SetupKept
<1>4. ASSUME NEW panel \in Panels, panel = flows[i].panel PROVE Told(panel)'
  <2>1. i \in DOMAIN flows' /\ Due(flows'[i], panel)
    BY <1>2, <1>4
  <2> QED
    BY <2>1 DEF Told, SomeDue
<1>5. ASSUME NEW panel \in Panels, panel # flows[i].panel PROVE Told(panel)'
  <2>1. \A k \in DOMAIN flows : Due(flows[k], panel) =>
          \E m \in DOMAIN flows' : Due(flows'[m], panel)
    BY <1>2, <1>5 DEF Due
  <2>2. \A k \in Coming(panel)' : k \in Coming(panel) /\ flows'[k] = flows[k]
    BY <1>2, <1>5 DEF Coming
  <2>3. \A k \in Coming(panel)' : \E m \in Coming(panel) :
          flows'[k].old = flows[m].old /\ flows'[k].rows = flows[m].rows
    BY <2>2
  <2> QED
    BY <1>1, <1>2, <1>5, <2>1, <2>3, ToldMoves
<1> QED
  BY <1>3, <1>4, <1>5

(* A command that ends leaves the other panels as they were.               *)
LEMMA ToldAsEnded ==
  ASSUME PanelInv, NEW i \in DOMAIN flows, Ended(i), NEW panel \in Panels,
         screen'[panel] = screen[panel], held' = held, overtaken => overtaken',
         panel # flows[i].panel \/ flows[i].what = "setup"
  PROVE  Told(panel)'
<1>1. PanelTyped /\ Told(panel)
  BY DEF PanelInv
<1>2. /\ \A k \in DOMAIN flows : k # i => \E m \in DOMAIN flows' : flows'[m] = flows[k]
      /\ \A m \in DOMAIN flows' : \E k \in DOMAIN flows : k # i /\ flows'[m] = flows[k]
  BY <1>1, EndedDoes
<1>3. ~Due(flows[i], panel) /\ i \notin Coming(panel)
  BY DEF Due, Coming, Lists
<1>4. \A k \in DOMAIN flows : Due(flows[k], panel) =>
        \E m \in DOMAIN flows' : Due(flows'[m], panel)
  BY <1>2, <1>3
<1>5. \A m \in Coming(panel)' : \E k \in Coming(panel) :
        flows'[m].old = flows[k].old /\ flows'[m].rows = flows[k].rows
  BY <1>2 DEF Coming
<1>6. Coming(panel)' = {} => Coming(panel) = {}
  BY <1>2, <1>3 DEF Coming
<1> QED
  BY <1>1, <1>4, <1>5, <1>6, ToldMoves

LEMMA SetupAsEnded ==
  ASSUME PanelInv, NEW i \in DOMAIN flows, Ended(i),
         \A panel \in Panels : screen'[panel].up => screen[panel].up,
         forms'.setup => forms.setup, overtaken => overtaken'
  PROVE  SetupAlone'
<1>1. PanelTyped /\ SetupAlone
  BY DEF PanelInv
<1>2. (\E m \in DOMAIN flows' : flows'[m].what = "setup")
        => \E k \in DOMAIN flows : flows[k].what = "setup"
  BY <1>1, EndedDoes
<1> QED
  BY <1>1, <1>2, SetupKept

(***************************************************************************)
(* The steps.                                                              *)
(***************************************************************************)
LEMMA OpenKeeps ==
  ASSUME PanelInv, NEW panel \in Panels, HandleOpen(panel) PROVE PanelInv'
<1> DEFINE flow == Flow("list", panel, NoRow)
           fresh == [Closed EXCEPT !.up = TRUE]
<1>1. PanelTyped /\ SetupAlone
  BY DEF PanelInv
<1>2. flow \in Flows /\ flow.what = "list" /\ flow.panel = panel /\ flow.at = "asked"
  <2>1. "list" \in Commands /\ NoRow \in Rows \union {NoRow}
    BY DEF Commands
  <2>2. flow \in Flows
    BY <2>1, FlowTyped
  <2> QED
    BY <2>2 DEF Flow
<1> HIDE DEF flow
<1>3. OfPanel(flow) /\ Begin(flow)
  BY <1>2 DEF OfPanel, HandleOpen, flow
<1>4. /\ flows' \in Seq(Flows) /\ \A i \in DOMAIN flows' : OfPanel(flows'[i])
      /\ \A i \in DOMAIN flows' : i \in DOMAIN flows \/ flows'[i] = flow
      /\ \A i \in DOMAIN flows : i \in DOMAIN flows' /\ flows'[i] = flows[i]
  BY <1>1, <1>2, <1>3, BeginDoes
<1>5. fresh \in Screens
  BY DEF Closed, Screens
<1> HIDE DEF fresh
<1>6. /\ screen' \in [Panels -> Screens]
      /\ \A other \in Panels \ {panel} : screen'[other] = screen[other]
  BY <1>1, <1>5 DEF HandleOpen, PanelTyped, fresh
<1>7. forms' \in Forms /\ forms'.setup = forms.setup /\ ~forms.setup
  BY <1>1 DEF HandleOpen, PanelTyped, Forms
<1>8. overtaken' \in BOOLEAN /\ (overtaken => overtaken') /\ held' = held
      /\ (overtaken' <=> overtaken \/ \E i \in DOMAIN flows : flows[i].what = "setup")
  BY <1>1 DEF HandleOpen, PanelTyped
<1>9. PanelTyped'
  BY <1>1, <1>4, <1>6, <1>7, <1>8 DEF PanelTyped
<1>10. SetupAlone'
  <2>1. (\E i \in DOMAIN flows' : flows'[i].what = "setup") => overtaken'
    BY <1>2, <1>4, <1>8
  <2> QED
    BY <1>7, <2>1 DEF SetupAlone
<1>11. Told(panel)'
  BY <1>2, <1>3, DueAsBegun
<1>12. ASSUME NEW other \in Panels \ {panel} PROVE Told(other)'
  <2>1. screen'[other] = screen[other] /\ held'[other] = held[other]
    BY <1>6, <1>8
  <2> QED
    BY <1>2, <1>3, <1>8, <2>1, ToldAsBegun
<1> QED
  BY <1>9, <1>10, <1>11, <1>12 DEF PanelInv

(* Commands of the panels, and of the invite step.                         *)
LEMMA CommandKeeps ==
  ASSUME PanelInv, NEW flow \in Flows, flow.at = "asked", OfPanel(flow), Begin(flow),
         held' = held, overtaken' = overtaken, forms' \in Forms, forms'.setup = forms.setup,
         screen' \in [Panels -> Screens],
         \A panel \in Panels : panel # flow.panel \/ flow.what = "setup"
           => screen'[panel] = screen[panel],
         \A panel \in Panels : screen'[panel].up = screen[panel].up,
         flow.what = "setup" => forms.setup
  PROVE  PanelInv'
<1>1. PanelTyped /\ SetupAlone
  BY DEF PanelInv
<1>2. /\ flows' \in Seq(Flows) /\ \A i \in DOMAIN flows' : OfPanel(flows'[i])
      /\ \A i \in DOMAIN flows' : i \in DOMAIN flows \/ flows'[i] = flow
      /\ \A i \in DOMAIN flows : i \in DOMAIN flows' /\ flows'[i] = flows[i]
  BY <1>1, BeginDoes
<1>3. PanelTyped'
  BY <1>1, <1>2 DEF PanelTyped
<1>4. SetupAlone'
  <2>1. CASE flow.what = "setup"
    BY <1>1, <2>1 DEF SetupAlone
  <2>2. CASE flow.what # "setup"
    <3>1. (\E i \in DOMAIN flows' : flows'[i].what = "setup")
            => \E i \in DOMAIN flows : flows[i].what = "setup"
      BY <1>2, <2>2
    <3> QED
      BY <1>1, <3>1, SetupKept
  <2> QED
    BY <2>1, <2>2
<1>5. ASSUME NEW panel \in Panels PROVE Told(panel)'
  <2>1. CASE panel # flow.panel \/ flow.what = "setup"
    <3>1. screen'[panel] = screen[panel] /\ held'[panel] = held[panel]
      BY <2>1
    <3> QED
      BY <3>1, ToldAsBegun
  <2>2. CASE panel = flow.panel /\ flow.what # "setup"
    BY <2>2, DueAsBegun
  <2> QED
    BY <2>1, <2>2
<1> QED
  BY <1>3, <1>4, <1>5 DEF PanelInv

LEMMA Asked ==
  ASSUME NEW what \in Commands, NEW panel \in Panels, NEW row \in Rows \union {NoRow},
         what \in {"issue", "mail", "setup", "revoke"} => panel = "invites",
         what = "remove" => panel = "members",
         what \notin {"issue list", "mail list"}
  PROVE  /\ Flow(what, panel, row) \in Flows /\ OfPanel(Flow(what, panel, row))
         /\ Flow(what, panel, row).what = what /\ Flow(what, panel, row).panel = panel
         /\ Flow(what, panel, row).at = "asked"
BY FlowTyped DEF Flow, OfPanel

LEMMA IssueKeeps == ASSUME PanelInv, HandleIssueInvite PROVE PanelInv'
<1> DEFINE flow == Flow("issue", "invites", NoRow)
<1>1. /\ flow \in Flows /\ flow.what = "issue" /\ flow.panel = "invites"
      /\ flow.at = "asked" /\ OfPanel(flow)
  BY Asked DEF Commands, Panels
<1> HIDE DEF flow
<1>2. PanelTyped
  BY DEF PanelInv
<1>3. /\ Begin(flow) /\ held' = held /\ overtaken' = overtaken /\ screen' = screen
      /\ forms' \in Forms /\ forms'.setup = forms.setup
  BY <1>2 DEF HandleIssueInvite, PanelTyped, Forms, flow
<1> QED
  BY <1>1, <1>2, <1>3, CommandKeeps DEF PanelTyped

LEMMA SendKeeps == ASSUME PanelInv, SendFromPanel PROVE PanelInv'
<1> DEFINE flow == Flow("mail", "invites", NoRow)
<1>1. /\ flow \in Flows /\ flow.what = "mail" /\ flow.panel = "invites"
      /\ flow.at = "asked" /\ OfPanel(flow)
  BY Asked DEF Commands, Panels
<1> HIDE DEF flow
<1>2. PanelTyped
  BY DEF PanelInv
<1>3. /\ Begin(flow) /\ held' = held /\ overtaken' = overtaken
      /\ forms' \in Forms /\ forms'.setup = forms.setup
  BY <1>2 DEF SendFromPanel, PanelTyped, Forms, flow
<1>4. /\ screen' \in [Panels -> Screens]
      /\ \A panel \in Panels : panel # "invites" => screen'[panel] = screen[panel]
      /\ \A panel \in Panels : screen'[panel].up = screen[panel].up
  BY <1>2 DEF SendFromPanel, PanelTyped, Screens
<1> QED
  BY <1>1, <1>3, <1>4, CommandKeeps

LEMMA RevokeKeeps == ASSUME PanelInv, NEW row \in Rows, HandleRevokeInvite(row) PROVE PanelInv'
<1> DEFINE flow == Flow("revoke", "invites", row)
<1>1. /\ flow \in Flows /\ flow.what = "revoke" /\ flow.panel = "invites"
      /\ flow.at = "asked" /\ OfPanel(flow)
  BY Asked DEF Commands, Panels
<1> HIDE DEF flow
<1>2. PanelTyped
  BY DEF PanelInv
<1>3. /\ Begin(flow) /\ held' = held /\ overtaken' = overtaken
      /\ screen' = screen /\ forms' = forms
  BY DEF HandleRevokeInvite, flow
<1> QED
  BY <1>1, <1>2, <1>3, CommandKeeps DEF PanelTyped

LEMMA RemoveKeeps == ASSUME PanelInv, NEW row \in Rows, HandleRemoveMember(row) PROVE PanelInv'
<1> DEFINE flow == Flow("remove", "members", row)
<1>1. /\ flow \in Flows /\ flow.what = "remove" /\ flow.panel = "members"
      /\ flow.at = "asked" /\ OfPanel(flow)
  BY Asked DEF Commands, Panels
<1> HIDE DEF flow
<1>2. PanelTyped
  BY DEF PanelInv
<1>3. /\ Begin(flow) /\ held' = held /\ overtaken' = overtaken
      /\ screen' = screen /\ forms' = forms
  BY DEF HandleRemoveMember, flow
<1> QED
  BY <1>1, <1>2, <1>3, CommandKeeps DEF PanelTyped

LEMMA SetupSendKeeps == ASSUME PanelInv, SendFromSetup PROVE PanelInv'
<1> DEFINE flow == Flow("setup", "invites", NoRow)
<1>1. /\ flow \in Flows /\ flow.what = "setup" /\ flow.panel = "invites"
      /\ flow.at = "asked" /\ OfPanel(flow)
  BY Asked DEF Commands, Panels
<1> HIDE DEF flow
<1>2. PanelTyped
  BY DEF PanelInv
<1>3. /\ Begin(flow) /\ held' = held /\ overtaken' = overtaken /\ screen' = screen
      /\ forms.setup /\ forms' \in Forms /\ forms'.setup = forms.setup
  BY <1>2 DEF SendFromSetup, PanelTyped, Forms, flow
<1> QED
  BY <1>1, <1>2, <1>3, CommandKeeps DEF PanelTyped

(* What the user does to the screen alone.                                 *)
LEMMA ScreenKeeps ==
  ASSUME PanelInv, UNCHANGED <<held, flows, overtaken>>, screen' \in [Panels -> Screens],
         forms' \in Forms, SetupAlone',
         \A panel \in Panels : screen'[panel].up =>
           screen[panel].up /\ screen'[panel] = screen[panel]
  PROVE  PanelInv'
<1>1. PanelTyped'
  BY DEF PanelInv, PanelTyped
<1>2. ASSUME NEW panel \in Panels PROVE Told(panel)'
  <2> SUFFICES ASSUME screen'[panel].up PROVE Told(panel)'
    BY DEF Told
  <2>1. Told(panel) /\ Coming(panel)' = Coming(panel)
    BY DEF PanelInv, Coming
  <2> QED
    BY <2>1 DEF Told, SomeDue, Current
<1> QED
  BY <1>1, <1>2 DEF PanelInv

LEMMA HideKeeps == ASSUME PanelInv, NEW panel \in Panels, Hide(panel) PROVE PanelInv'
<1>1. PanelTyped /\ SetupAlone
  BY DEF PanelInv
<1>2. /\ screen' \in [Panels -> Screens] /\ ~screen'[panel].up
      /\ \A other \in Panels \ {panel} : screen'[other] = screen[other]
  BY <1>1 DEF Hide, PanelTyped, Screens
<1>3. UNCHANGED <<held, flows, forms, overtaken>> /\ forms' \in Forms
  BY <1>1 DEF Hide, PanelTyped
<1>4. SetupAlone'
  BY <1>1, <1>2, <1>3 DEF SetupAlone
<1> QED
  BY <1>2, <1>3, <1>4, ScreenKeeps

LEMMA ArmKeeps == ASSUME PanelInv, NEW row \in Rows, ArmRemove(row) PROVE PanelInv'
<1>1. PanelTyped /\ SetupAlone
  BY DEF PanelInv
<1>2. /\ UNCHANGED <<held, flows, screen, overtaken>> /\ screen' \in [Panels -> Screens]
      /\ forms' \in Forms /\ forms'.setup = forms.setup
  BY <1>1 DEF ArmRemove, PanelTyped, Forms
<1>3. SetupAlone'
  BY <1>1, <1>2 DEF SetupAlone
<1> QED
  BY <1>2, <1>3, ScreenKeeps

LEMMA ShowSetupKeeps == ASSUME PanelInv, ShowInviteSetup PROVE PanelInv'
<1>1. PanelTyped
  BY DEF PanelInv
<1>2. /\ UNCHANGED <<held, flows, screen, overtaken>> /\ screen' \in [Panels -> Screens]
      /\ forms' \in Forms /\ \A panel \in Panels : ~screen[panel].up
  BY <1>1 DEF ShowInviteSetup, PanelTyped, Forms
<1>3. SetupAlone'
  BY <1>2 DEF SetupAlone
<1> QED
  BY <1>2, <1>3, ScreenKeeps

LEMMA HideSetupKeeps == ASSUME PanelInv, HideInviteSetup PROVE PanelInv'
<1>1. PanelTyped /\ SetupAlone
  BY DEF PanelInv
<1>2. /\ UNCHANGED <<held, flows, screen, overtaken>> /\ screen' \in [Panels -> Screens]
      /\ forms' \in Forms /\ ~forms'.setup
  BY <1>1 DEF HideInviteSetup, PanelTyped, Forms
<1>3. SetupAlone'
  BY <1>1, <1>2 DEF SetupAlone
<1> QED
  BY <1>2, <1>3, ScreenKeeps


(* How a request fares: seen from the other panels nothing moved, and its  *)
(* own still has it coming, or is settled by it.                           *)
LEMMA FaresKeeps ==
  ASSUME PanelInv, NEW i \in DOMAIN flows, flows' \in Seq(Flows), DOMAIN flows' = DOMAIN flows,
         \A k \in DOMAIN flows :
           OfPanel(flows'[k]) /\ flows'[k].what = flows[k].what /\ flows'[k].panel = flows[k].panel,
         \A k \in DOMAIN flows : flows[k].panel # flows[i].panel => flows'[k] = flows[k],
         held' \in [Panels -> SUBSET Rows],
         \A panel \in Panels : panel # flows[i].panel => held'[panel] = held[panel],
         UNCHANGED <<screen, forms, overtaken>>,
         \A panel \in Panels : panel = flows[i].panel /\ flows[i].what # "setup" =>
           Due(flows'[i], panel) \/ Current(panel)'
  PROVE  PanelInv'
<1>1. PanelTyped /\ SetupAlone /\ \A panel \in Panels : Told(panel)
  BY DEF PanelInv
<1>2. PanelTyped'
  BY <1>1 DEF PanelTyped
<1>3. SetupAlone'
  BY <1>1 DEF SetupAlone
<1>4. ASSUME NEW panel \in Panels, panel # flows[i].panel PROVE Told(panel)'
  <2>1. \A k \in DOMAIN flows : Due(flows[k], panel) =>
          \E m \in DOMAIN flows' : Due(flows'[m], panel)
    BY <1>4 DEF Due
  <2>2. \A k \in Coming(panel)' : k \in Coming(panel) /\ flows'[k] = flows[k]
    BY <1>4 DEF Coming
  <2>3. \A k \in Coming(panel) : k \in Coming(panel)'
    BY <1>4 DEF Coming
  <2>4. \A k \in Coming(panel)' : \E m \in Coming(panel) :
          flows'[k].old = flows[m].old /\ flows'[k].rows = flows[m].rows
    BY <2>2
  <2>5. screen'[panel] = screen[panel] /\ held'[panel] = held[panel]
    BY <1>4
  <2> QED
    BY <1>1, <2>1, <2>3, <2>4, <2>5, ToldMoves
<1>5. ASSUME NEW panel \in Panels, panel = flows[i].panel PROVE Told(panel)'
  <2>1. CASE flows[i].what = "setup"
    <3>1. overtaken' \/ ~screen'[panel].up
      BY <1>1, <2>1 DEF SetupAlone
    <3> QED
      BY <3>1 DEF Told
  <2>2. CASE flows[i].what # "setup"
    BY <1>5, <2>2 DEF Told, SomeDue
  <2> QED
    BY <2>1, <2>2
<1> QED
  BY <1>2, <1>3, <1>4, <1>5 DEF PanelInv

LEMMA ServeKeeps == ASSUME PanelInv, NEW i \in DOMAIN flows, Serve(i) PROVE PanelInv'
<1>1. /\ PanelTyped /\ flows[i] \in Flows /\ OfPanel(flows[i]) /\ flows[i].at = "asked"
      /\ Len(flows) \in Nat /\ DOMAIN flows = 1 .. Len(flows)
      /\ \A k \in DOMAIN flows : flows[k] \in Flows
  BY ElementOfSeq, LenProperties DEF PanelInv, PanelTyped, Serve
<1> DEFINE own == flows[i].panel
           lists(at) == flows[i].what \in Lists /\ at = "done"
           served(at, rows) ==
             [flows[i] EXCEPT !.at = at, !.row = NoRow, !.rows = IF lists(at) THEN rows ELSE {}]
<1>2. PICK rows \in Acts(flows[i]), at \in {"done", "failed"} :
        /\ held' = [held EXCEPT ![own] = rows]
        /\ flows' = [k \in DOMAIN flows |->
             IF k = i THEN served(at, rows)
             ELSE IF lists(at) /\ k \in Coming(own) THEN [flows[k] EXCEPT !.old = TRUE]
             ELSE flows[k]]
  BY DEF Serve
<1>3. own \in Panels
  BY <1>1 DEF Flows
<1>4. rows \in SUBSET Rows /\ (flows[i].what \in Lists => rows = held[own])
  <2>1. /\ held["invites"] \in SUBSET Rows /\ held["members"] \in SUBSET Rows
        /\ held[own] \in SUBSET Rows
    BY <1>1, <1>3 DEF PanelTyped, Panels
  <2>2. CASE flows[i].what \in Lists
    BY <2>1, <2>2 DEF Acts, Lists
  <2>3. CASE flows[i].what = "issue"
    BY <2>1, <2>3 DEF Acts, Lists
  <2>4. CASE flows[i].what \in {"mail", "setup"}
    BY <2>1, <2>4 DEF Acts, Lists
  <2>5. CASE flows[i].what \in {"revoke", "remove"}
    BY <2>1, <2>5 DEF Acts, Lists
  <2> QED
    BY <1>1, <2>2, <2>3, <2>4, <2>5 DEF Flows, Commands, Lists
<1>5. /\ served(at, rows) \in Flows /\ served(at, rows).what = flows[i].what
      /\ served(at, rows).panel = own /\ served(at, rows).at = at
      /\ lists(at) => served(at, rows).rows = rows
  BY <1>1, <1>4 DEF Flows
<1> HIDE DEF served
<1>6. \A k \in Coming(own) :
        /\ [flows[k] EXCEPT !.old = TRUE] \in Flows
        /\ [flows[k] EXCEPT !.old = TRUE].what = flows[k].what
        /\ [flows[k] EXCEPT !.old = TRUE].panel = flows[k].panel
        /\ [flows[k] EXCEPT !.old = TRUE].at = flows[k].at
        /\ [flows[k] EXCEPT !.old = TRUE].old
  BY <1>1 DEF Flows, Coming
<1>7. DOMAIN flows' = DOMAIN flows /\ flows'[i] = served(at, rows)
  BY <1>2
<1>8. \A k \in DOMAIN flows : k # i /\ ~(lists(at) /\ k \in Coming(own)) => flows'[k] = flows[k]
  BY <1>2
<1>9. \A k \in Coming(own) : lists(at) /\ k # i => flows'[k] = [flows[k] EXCEPT !.old = TRUE]
  BY <1>2 DEF Coming
<1>10. ASSUME NEW k \in DOMAIN flows
       PROVE  /\ flows'[k] \in Flows /\ flows'[k].what = flows[k].what
              /\ flows'[k].panel = flows[k].panel
              /\ k # i => flows'[k].at = flows[k].at
  <2>1. CASE k = i
    BY <1>5, <1>7, <2>1
  <2>2. CASE k # i /\ ~(lists(at) /\ k \in Coming(own))
    BY <1>1, <1>8, <2>2
  <2>3. CASE k # i /\ lists(at) /\ k \in Coming(own)
    BY <1>6, <1>9, <2>3
  <2> QED
    BY <2>1, <2>2, <2>3
<1>11. \A k \in DOMAIN flows : OfPanel(flows'[k])
  <2> SUFFICES ASSUME NEW k \in DOMAIN flows PROVE OfPanel(flows'[k])
    OBVIOUS
  <2>1. OfPanel(flows[k])
    BY <1>1 DEF PanelTyped
  <2>2. flows'[k].at # "no mailer" \/ flows'[k].at = flows[k].at
    BY <1>5, <1>7, <1>10
  <2> QED
    BY <1>10, <2>1, <2>2 DEF OfPanel
<1>12. flows' \in Seq(Flows)
  <2>1. flows' \in [1 .. Len(flows) -> Flows]
    BY <1>1, <1>2, <1>10
  <2> QED
    BY <1>1, <2>1, SeqDef
<1>13. \A k \in DOMAIN flows : flows[k].panel # own => flows'[k] = flows[k]
  BY <1>8 DEF Coming
<1>14. /\ held' \in [Panels -> SUBSET Rows]
       /\ \A panel \in Panels : panel # own => held'[panel] = held[panel]
       /\ held'[own] = rows
  BY <1>1, <1>2, <1>3, <1>4 DEF PanelTyped
<1>15. ASSUME NEW panel \in Panels, panel = own, flows[i].what # "setup"
       PROVE  Due(flows'[i], panel) \/ Current(panel)'
  <2>1. CASE ~lists(at)
    BY <1>5, <1>7, <1>15, <2>1 DEF Due
  <2>2. CASE lists(at)
    <3>1. i \in Coming(panel)'
      BY <1>5, <1>7, <1>15, <2>2 DEF Coming
    <3>2. \A k \in Coming(panel)' : k # i => k \in Coming(panel)
      BY <1>7, <1>10, <1>15 DEF Coming
    <3>3. \A k \in Coming(panel)' : k # i => flows'[k].old
      BY <1>6, <1>9, <1>15, <2>2, <3>2
    <3>4. flows'[i].rows = held'[panel]
      BY <1>5, <1>7, <1>14, <1>15, <2>2
    <3> QED
      BY <3>1, <3>3, <3>4 DEF Current
  <2> QED
    BY <2>1, <2>2
<1>16. UNCHANGED <<screen, forms, overtaken>>
  BY DEF Serve
<1> QED
  BY <1>7, <1>10, <1>11, <1>12, <1>13, <1>14, <1>15, <1>16, FaresKeeps

LEMMA FailKeeps == ASSUME PanelInv, NEW i \in DOMAIN flows, Fail(i) PROVE PanelInv'
<1>1. /\ PanelTyped /\ flows[i] \in Flows /\ OfPanel(flows[i])
      /\ Len(flows) \in Nat /\ DOMAIN flows = 1 .. Len(flows)
  BY ElementOfSeq, LenProperties DEF PanelInv, PanelTyped
<1>2. PICK at \in {"failed", "no mailer"} :
        /\ at = "no mailer" => flows[i].what \in {"mail", "setup"}
        /\ flows' = [flows EXCEPT ![i].at = at]
  BY DEF Fail
<1> DEFINE flow == [flows[i] EXCEPT !.at = at]
<1>3. flow \in Flows /\ flow.what = flows[i].what /\ flow.panel = flows[i].panel /\ flow.at = at
  BY <1>1 DEF Flows
<1>4. flows' = [flows EXCEPT ![i] = flow]
  BY <1>2
<1> HIDE DEF flow
<1>5. flows' \in Seq(Flows) /\ DOMAIN flows' = DOMAIN flows
  BY <1>1, <1>3, <1>4, ExceptSeq DEF PanelTyped
<1>6. flows'[i] = flow /\ \A k \in DOMAIN flows : k # i => flows'[k] = flows[k]
  BY <1>4
<1>7. OfPanel(flow)
  BY <1>1, <1>2, <1>3 DEF OfPanel
<1>8. \A k \in DOMAIN flows :
        OfPanel(flows'[k]) /\ flows'[k].what = flows[k].what /\ flows'[k].panel = flows[k].panel
  BY <1>1, <1>3, <1>6, <1>7 DEF PanelTyped
<1>9. held' = held /\ UNCHANGED <<screen, forms, overtaken>>
  BY DEF Fail
<1>10. held' \in [Panels -> SUBSET Rows]
  BY <1>1, <1>9 DEF PanelTyped
<1>11. \A panel \in Panels : panel = flows[i].panel /\ flows[i].what # "setup" =>
         Due(flows'[i], panel)
  BY <1>3, <1>6 DEF Due
<1> QED
  BY <1>5, <1>6, <1>8, <1>9, <1>10, <1>11, FaresKeeps

LEMMA ErrorShown ==
  ASSUME PanelTyped, NEW panel \in Panels, ShowError(panel)
  PROVE  /\ screen' \in [Panels -> Screens] /\ screen'[panel].error
         /\ \A other \in Panels : screen'[other].up = screen[other].up
         /\ \A other \in Panels : other # panel => screen'[other] = screen[other]
<1> DEFINE shown == [screen[panel] EXCEPT !.error = TRUE]
<1>1. shown \in Screens /\ shown.error /\ shown.up = screen[panel].up
  BY DEF PanelTyped, Screens
<1>2. screen' = [screen EXCEPT ![panel] = shown]
  BY DEF ShowError
<1> HIDE DEF shown
<1>3. screen \in [Panels -> Screens]
  BY DEF PanelTyped
<1> QED
  BY <1>1, <1>2, <1>3

(* Answers.  A list is the last on its way, or another follows it.         *)
LEMMA ListedTells ==
  ASSUME PanelInv, NEW i \in DOMAIN flows, Listed(i)
  PROVE  /\ flows' \in Seq(Flows) /\ \A k \in DOMAIN flows' : OfPanel(flows'[k])
         /\ held' = held /\ screen' \in [Panels -> Screens] /\ overtaken' \in BOOLEAN
         /\ overtaken => overtaken'
         /\ \A panel \in Panels : screen'[panel].up = screen[panel].up
         /\ \A panel \in Panels : Told(panel)'
<1>1. /\ PanelTyped /\ flows[i] \in Flows /\ flows[i].rows \in SUBSET Rows
      /\ flows[i].panel \in Panels /\ flows[i].old \in BOOLEAN
  <2>1. PanelTyped /\ flows[i] \in Flows
    BY ElementOfSeq, LenProperties DEF PanelInv, PanelTyped
  <2> QED
    BY <2>1 DEF Flows
<1>2. /\ Ended(i) /\ held' = held /\ flows[i].what \in Lists
      /\ overtaken' = (overtaken \/ (flows[i].old /\ Coming(flows[i].panel) = {i}))
      /\ flows[i].at = "done" => screen' = [screen EXCEPT ![flows[i].panel].rows = flows[i].rows]
      /\ flows[i].at # "done" => screen' = [screen EXCEPT ![flows[i].panel].error = TRUE]
  BY DEF Listed
<1>3. /\ screen' \in [Panels -> Screens]
      /\ \A panel \in Panels : screen'[panel].up = screen[panel].up
      /\ \A panel \in Panels : panel # flows[i].panel => screen'[panel] = screen[panel]
      /\ flows[i].at = "done" => /\ screen'[flows[i].panel].rows = flows[i].rows
                                 /\ screen'[flows[i].panel].error = screen[flows[i].panel].error
      /\ flows[i].at # "done" => screen'[flows[i].panel].error
  <2>1. CASE flows[i].at = "done"
    BY <1>1, <1>2, <2>1 DEF PanelTyped, Screens
  <2>2. CASE flows[i].at # "done"
    <3>1. ShowError(flows[i].panel)
      BY <1>2, <2>2 DEF ShowError
    <3> QED
      BY <1>1, <2>2, <3>1, ErrorShown
  <2> QED
    BY <2>1, <2>2
<1>4. overtaken' \in BOOLEAN /\ (overtaken => overtaken')
  BY <1>1, <1>2 DEF PanelTyped
<1>5. /\ \A k \in DOMAIN flows : k # i => \E m \in DOMAIN flows' : flows'[m] = flows[k]
      /\ \A m \in DOMAIN flows' : \E k \in DOMAIN flows : k # i /\ flows'[m] = flows[k]
      /\ flows' \in Seq(Flows) /\ \A k \in DOMAIN flows' : OfPanel(flows'[k])
  BY <1>1, <1>2, EndedDoes
<1>6. ASSUME NEW panel \in Panels, panel # flows[i].panel PROVE Told(panel)'
  BY <1>2, <1>3, <1>4, <1>6, ToldAsEnded
<1>7. ASSUME NEW panel \in Panels, panel = flows[i].panel PROVE Told(panel)'
  <2> SUFFICES ASSUME ~overtaken', screen'[panel].up, ~screen'[panel].error, ~SomeDue(panel)'
               PROVE  Current(panel)'
    BY DEF Told
  <2>1. flows[i].at = "done" /\ ~screen[panel].error /\ screen[panel].up /\ ~overtaken
        /\ screen'[panel].rows = flows[i].rows
    BY <1>3, <1>4, <1>7
  <2>2. ~Due(flows[i], panel)
    BY <1>2, <2>1 DEF Due
  <2>3. ~SomeDue(panel)
    <3>1. \A k \in DOMAIN flows : k # i => ~Due(flows[k], panel)
      BY <1>5 DEF SomeDue
    <3> QED
      BY <2>2, <3>1 DEF SomeDue
  <2>4. Current(panel) /\ i \in Coming(panel)
    BY <1>2, <1>7, <2>1, <2>3 DEF PanelInv, Told, Coming
  <2>5. \A m \in Coming(panel)' : \E k \in Coming(panel) : k # i /\ flows'[m] = flows[k]
    BY <1>5 DEF Coming
  <2>6. \A m \in Coming(panel)' : flows'[m].old \/ flows'[m].rows = held'[panel]
    BY <1>2, <2>4, <2>5 DEF Current
  <2>7. ASSUME Coming(panel)' = {} PROVE screen'[panel].rows = held'[panel]
    <3>1. \A k \in Coming(panel) : k = i
      BY <1>5, <2>7 DEF Coming
    <3>2. Coming(panel) = {i}
      BY <2>4, <3>1
    <3>3. ~flows[i].old
      BY <1>2, <1>7, <3>2
    <3> QED
      BY <1>2, <2>1, <2>4, <3>3 DEF Current
  <2> QED
    BY <2>6, <2>7 DEF Current
<1> QED
  BY <1>2, <1>3, <1>4, <1>5, <1>6, <1>7

LEMMA ListedKeeps ==
  ASSUME PanelInv, NEW i \in DOMAIN flows, Listed(i), forms' \in Forms, forms'.setup => forms.setup
  PROVE  PanelInv'
<1>1. /\ flows' \in Seq(Flows) /\ \A k \in DOMAIN flows' : OfPanel(flows'[k])
      /\ held' = held /\ screen' \in [Panels -> Screens] /\ overtaken' \in BOOLEAN
      /\ overtaken => overtaken'
      /\ \A panel \in Panels : screen'[panel].up = screen[panel].up
      /\ \A panel \in Panels : Told(panel)'
  BY ListedTells
<1>2. SetupAlone'
  <2>1. Ended(i)
    BY DEF Listed
  <2> QED
    BY <1>1, <2>1, SetupAsEnded
<1>3. PanelTyped'
  BY <1>1 DEF PanelInv, PanelTyped
<1> QED
  BY <1>1, <1>2, <1>3 DEF PanelInv

LEMMA FreedTyped ==
  ASSUME forms \in Forms, NEW what, NEW at
  PROVE  /\ Freed(what) \in Forms /\ Freed(what).setup = forms.setup
         /\ MailerGone(Freed(what), at) \in Forms
         /\ MailerGone(Freed(what), at).setup = forms.setup
<1>1. Freed(what) \in Forms /\ Freed(what).setup = forms.setup
  BY DEF Freed, Forms
<1> QED
  BY <1>1 DEF MailerGone, Forms

LEMMA InvitesListedKeeps ==
  ASSUME PanelInv, NEW i \in DOMAIN flows, RefreshInviteList(i) PROVE PanelInv'
<1>1. forms' \in Forms /\ forms'.setup = forms.setup
  BY FreedTyped DEF PanelInv, PanelTyped, RefreshInviteList
<1> QED
  BY <1>1, ListedKeeps DEF RefreshInviteList

LEMMA MembersListedKeeps ==
  ASSUME PanelInv, NEW i \in DOMAIN flows, RefreshMemberList(i) PROVE PanelInv'
<1>1. forms' \in Forms /\ forms'.setup = forms.setup
  BY DEF PanelInv, PanelTyped, RefreshMemberList, Forms
<1> QED
  BY <1>1, ListedKeeps DEF RefreshMemberList

(* A command that ends with an error on its panel, or was the invite       *)
(* step's.                                                                 *)
LEMMA EndedKeeps ==
  ASSUME PanelInv, NEW i \in DOMAIN flows, Ended(i), held' = held, overtaken' = overtaken,
         forms' \in Forms, forms'.setup = forms.setup,
         flows[i].what = "setup" => screen' = screen,
         flows[i].what # "setup" => ShowError(flows[i].panel)
  PROVE  PanelInv'
<1>1. PanelTyped /\ flows[i].panel \in Panels
  <2>1. flows[i] \in Flows
    BY ElementOfSeq, LenProperties DEF PanelInv, PanelTyped
  <2> QED
    BY <2>1 DEF PanelInv, Flows
<1>2. /\ screen' \in [Panels -> Screens]
      /\ \A panel \in Panels : screen'[panel].up = screen[panel].up
      /\ \A panel \in Panels : screen'[panel] = screen[panel] \/ screen'[panel].error
      /\ \A panel \in Panels : panel # flows[i].panel \/ flows[i].what = "setup"
           => screen'[panel] = screen[panel]
      /\ flows[i].what # "setup" => screen'[flows[i].panel].error
  <2>1. CASE flows[i].what = "setup"
    BY <1>1, <2>1 DEF PanelTyped
  <2>2. CASE flows[i].what # "setup"
    BY <1>1, <2>2, ErrorShown
  <2> QED
    BY <2>1, <2>2
<1>3. PanelTyped'
  BY <1>1, <1>2, EndedDoes DEF PanelTyped
<1>4. SetupAlone'
  BY <1>2, SetupAsEnded
<1>5. ASSUME NEW panel \in Panels PROVE Told(panel)'
  <2>1. CASE panel # flows[i].panel \/ flows[i].what = "setup"
    BY <1>2, <2>1, ToldAsEnded
  <2>2. CASE panel = flows[i].panel /\ flows[i].what # "setup"
    BY <1>2, <2>2 DEF Told
  <2> QED
    BY <2>1, <2>2
<1> QED
  BY <1>3, <1>4, <1>5 DEF PanelInv

(* A command that goes on to fetch its panel's list.                       *)
LEMMA RefreshKeeps ==
  ASSUME PanelInv, NEW i \in DOMAIN flows, NEW what \in {"list", "issue list", "mail list"},
         flows[i].what \notin Lists \union {"setup"}, Refreshing(i, what),
         what # "list" => flows[i].panel = "invites",
         held' = held, overtaken' = overtaken, forms' = forms,
         screen' = screen \/ ShowError(flows[i].panel)
  PROVE  PanelInv'
<1>1. PanelTyped /\ flows[i].panel \in Panels
  <2>1. flows[i] \in Flows
    BY ElementOfSeq, LenProperties DEF PanelInv, PanelTyped
  <2> QED
    BY <2>1 DEF PanelInv, Flows
<1>2. /\ screen' \in [Panels -> Screens]
      /\ \A panel \in Panels : screen'[panel].up = screen[panel].up
      /\ \A panel \in Panels \ {flows[i].panel} : screen'[panel] = screen[panel]
  <2>1. CASE screen' = screen
    BY <1>1, <2>1 DEF PanelTyped
  <2>2. CASE ShowError(flows[i].panel)
    BY <1>1, <2>2, ErrorShown
  <2> QED
    BY <2>1, <2>2
<1>3. SetupAlone' /\ \A panel \in Panels : Told(panel)'
  BY <1>2, ToldAsRefreshed
<1>4. flows' \in Seq(Flows) /\ \A k \in DOMAIN flows' : OfPanel(flows'[k])
  BY <1>1, RefreshingDoes
<1>5. PanelTyped'
  BY <1>1, <1>2, <1>4 DEF PanelTyped
<1> QED
  BY <1>3, <1>5 DEF PanelInv

LEMMA AnswerOfPanel ==
  ASSUME PanelInv, NEW i \in DOMAIN flows
  PROVE  /\ flows[i].what \in {"issue", "mail", "setup", "revoke"} => flows[i].panel = "invites"
         /\ flows[i].what = "remove" => flows[i].panel = "members"
BY DEF PanelInv, PanelTyped, OfPanel

LEMMA IssueAnsweredKeeps ==
  ASSUME PanelInv, NEW i \in DOMAIN flows, IssueAnswered(i) PROVE PanelInv'
<1>1. /\ flows[i].what = "issue" /\ flows[i].panel = "invites"
      /\ held' = held /\ overtaken' = overtaken /\ flows[i].what \notin Lists \union {"setup"}
  BY AnswerOfPanel DEF IssueAnswered, Lists
<1>2. CASE flows[i].at = "done"
  <2>1. Refreshing(i, "issue list") /\ screen' = screen /\ forms' = forms
    BY <1>2 DEF IssueAnswered
  <2> QED
    BY <1>1, <2>1, RefreshKeeps
<1>3. CASE flows[i].at # "done"
  <2>1. Ended(i) /\ ShowError("invites") /\ forms' = Freed("issue")
    BY <1>3 DEF IssueAnswered
  <2>2. forms' \in Forms /\ forms'.setup = forms.setup
    BY <2>1, FreedTyped DEF PanelInv, PanelTyped
  <2> QED
    BY <1>1, <2>1, <2>2, EndedKeeps
<1> QED
  BY <1>2, <1>3

LEMMA MailAnsweredKeeps ==
  ASSUME PanelInv, NEW i \in DOMAIN flows, MailAnswered(i) PROVE PanelInv'
<1>1. /\ flows[i].what = "mail" /\ flows[i].panel = "invites"
      /\ held' = held /\ overtaken' = overtaken /\ flows[i].what \notin Lists \union {"setup"}
  BY AnswerOfPanel DEF MailAnswered, Lists
<1>2. CASE flows[i].at = "done"
  <2>1. /\ Refreshing(i, "mail list") /\ forms' = forms
        /\ screen' = screen \/ ShowError("invites")
    BY <1>2 DEF MailAnswered
  <2> QED
    BY <1>1, <2>1, RefreshKeeps
<1>3. CASE flows[i].at # "done"
  <2>1. /\ Ended(i) /\ ShowError("invites")
        /\ forms' = MailerGone(Freed("mail"), flows[i].at)
    BY <1>3 DEF MailAnswered
  <2>2. forms' \in Forms /\ forms'.setup = forms.setup
    BY <2>1, FreedTyped DEF PanelInv, PanelTyped
  <2> QED
    BY <1>1, <2>1, <2>2, EndedKeeps
<1> QED
  BY <1>2, <1>3

LEMMA SetupAnsweredKeeps ==
  ASSUME PanelInv, NEW i \in DOMAIN flows, SetupAnswered(i) PROVE PanelInv'
<1>1. /\ flows[i].what = "setup" /\ Ended(i) /\ held' = held /\ overtaken' = overtaken
      /\ screen' = screen /\ forms' = MailerGone(Freed("setup"), flows[i].at)
  BY DEF SetupAnswered
<1>2. forms' \in Forms /\ forms'.setup = forms.setup
  BY <1>1, FreedTyped DEF PanelInv, PanelTyped
<1> QED
  BY <1>1, <1>2, EndedKeeps

LEMMA RevokeAnsweredKeeps ==
  ASSUME PanelInv, NEW i \in DOMAIN flows, RevokeAnswered(i) PROVE PanelInv'
<1>1. /\ flows[i].what \notin Lists \union {"setup"} /\ Refreshing(i, "list")
      /\ held' = held /\ overtaken' = overtaken /\ screen' = screen /\ forms' = forms
  BY DEF RevokeAnswered, Lists
<1> QED
  BY <1>1, RefreshKeeps

LEMMA RemoveAnsweredKeeps ==
  ASSUME PanelInv, NEW i \in DOMAIN flows, RemoveAnswered(i) PROVE PanelInv'
<1>1. flows[i].panel = "members" /\ flows[i].what \notin Lists \union {"setup"}
  BY AnswerOfPanel DEF RemoveAnswered, Lists
<1>2. /\ Refreshing(i, "list") /\ held' = held /\ overtaken' = overtaken /\ forms' = forms
      /\ screen' = screen \/ ShowError("members")
  BY DEF RemoveAnswered
<1> QED
  BY <1>1, <1>2, RefreshKeeps

LEMMA PanelStutters == ASSUME PanelInv, UNCHANGED panelVars PROVE PanelInv'
BY DEF panelVars, PanelInv, PanelTyped, SetupAlone, Told, SomeDue, Current, Coming

LEMMA PanelNextKeeps == PanelInv /\ [PanelNext]_panelVars => PanelInv'
<1> SUFFICES ASSUME PanelInv, [PanelNext]_panelVars PROVE PanelInv'
  OBVIOUS
<1>1. CASE \E panel \in Panels : HandleOpen(panel) \/ Hide(panel)
  BY <1>1, OpenKeeps, HideKeeps
<1>2. CASE \/ HandleIssueInvite \/ SendFromPanel \/ ShowInviteSetup
           \/ SendFromSetup \/ HideInviteSetup
  BY <1>2, IssueKeeps, SendKeeps, ShowSetupKeeps, SetupSendKeeps, HideSetupKeeps
<1>3. CASE \E row \in Rows : HandleRevokeInvite(row) \/ ArmRemove(row) \/ HandleRemoveMember(row)
  BY <1>3, RevokeKeeps, ArmKeeps, RemoveKeeps
<1>4. CASE \E i \in DOMAIN flows : Serve(i) \/ Fail(i)
  BY <1>4, ServeKeeps, FailKeeps
<1>5. CASE \E i \in DOMAIN flows :
        \/ RefreshInviteList(i) \/ RefreshMemberList(i)
        \/ IssueAnswered(i) \/ MailAnswered(i) \/ SetupAnswered(i)
        \/ RevokeAnswered(i) \/ RemoveAnswered(i)
  BY <1>5, InvitesListedKeeps, MembersListedKeeps, IssueAnsweredKeeps, MailAnsweredKeeps,
     SetupAnsweredKeeps, RevokeAnsweredKeeps, RemoveAnsweredKeeps
<1>6. CASE UNCHANGED panelVars
  BY <1>6, PanelStutters
<1> QED
  BY <1>1, <1>2, <1>3, <1>4, <1>5, <1>6 DEF PanelNext

(* Of the panels: with nothing in flight, and unless answers came out of   *)
(* order, one lists what the backend holds or says something failed.       *)
THEOREM PanelCurrentCorrect == PanelSpec => []PanelCurrent
<1>1. PanelInv => PanelCurrent
  <2> SUFFICES ASSUME PanelInv, flows = <<>>, ~overtaken, NEW panel \in Panels, screen[panel].up,
                      ~screen[panel].error
               PROVE  screen[panel].rows = held[panel]
    BY DEF PanelCurrent
  <2>1. Coming(panel) = {} /\ ~SomeDue(panel)
    BY DEF Coming, SomeDue
  <2> QED
    BY <2>1 DEF PanelInv, Told, Current
<1> QED
  BY <1>1, PanelAtFirst, PanelNextKeeps, PTL DEF PanelSpec

(***************************************************************************)
(* The floor.  What the client knows is typed, and so is what is on its    *)
(* way.                                                                    *)
(***************************************************************************)
ToServer == [t : {"move"}, pos : Places] \union [t : {"enter"}, space : Spaces]

ToClient == [t : {"snapshot"}, space : Spaces, pos : Places] \union [t : {"notes"}, space : Spaces]

HintsCurrent(v) ==
  /\ v.mic # "asking" => v.nudge = Nudged(v)
  /\ v.room = InRoom(v.space, v.pos) /\ v.place = InGroupPlace(v.space, v.pos)

(* What is to be drawn or walked has a frame coming; a walk was drawn.     *)
Wakeful(v) ==
  /\ v.idle = ~v.away
  /\ v.dirty \/ v.active => v.scheduled
  /\ v.target # Nil => v.dirty \/ v.active
  /\ ~v.scheduled => HintsCurrent(v) /\ Dist(v.pos, v.sent) <= SendEps

AtBoard(v) ==
  /\ v.chatByWalk => v.chatOpen
  /\ v.nearBoard => v.notes /\ Dist(v.pos, BoardAt) <= CloseR
  /\ v.notes /\ ~v.nearBoard => Dist(v.pos, BoardAt) > OpenR

ClientInv ==
  /\ c \in ClientType /\ drawn \in BOOLEAN
  /\ c.scheduled => c.up
  /\ c.up => Wakeful(c) /\ (drawn \/ c.dirty) /\ AtBoard(c)

IsSnap(i) == i \in DOMAIN toClient /\ toClient[i].t = "snapshot"

IsMove(i) == i \in DOMAIN toServer /\ toServer[i].t = "move"

LastSnap(i) == IsSnap(i) /\ \A k \in DOMAIN toClient : IsSnap(k) => k <= i

LastMove(i) == IsMove(i) /\ \A k \in DOMAIN toServer : IsMove(k) => k <= i

(* The client is, or is told last to be, in the space the server has it in.*)
SpaceFollows ==
  c.up =>
    /\ (\A i \in DOMAIN toClient : ~IsSnap(i)) => srv.space = c.space
    /\ \A i \in DOMAIN toClient : LastSnap(i) => toClient[i].space = srv.space

(* Unless a move crossed a switch, moves go before switches, none goes     *)
(* while a snapshot comes, and the last is where we said we are.           *)
PosFollows ==
  c.up /\ ~crossed =>
    /\ \A i, k \in DOMAIN toServer : i < k /\ IsMove(k) => IsMove(i)
    /\ (\E i \in DOMAIN toServer : IsMove(i)) => \A k \in DOMAIN toClient : ~IsSnap(k)
    /\ \A i \in DOMAIN toServer : LastMove(i) => toServer[i].pos = c.sent
    /\ (\A i \in DOMAIN toServer : ~IsMove(i)) /\ (\A k \in DOMAIN toClient : ~IsSnap(k))
         => srv.pos = c.sent
    /\ \A k \in DOMAIN toClient : LastSnap(k) => toClient[k].pos = srv.pos

NetInv ==
  /\ srv \in [space : Spaces \union {Nil}, pos : Places]
  /\ toServer \in Seq(ToServer) /\ toClient \in Seq(ToClient) /\ crossed \in BOOLEAN
  /\ ~c.up => toServer = <<>> /\ toClient = <<>>
  /\ SpaceFollows /\ PosFollows

FloorInv == ClientInv /\ NetInv

(***************************************************************************)
(* What handlers make of the client's memory: what they keep, and whether  *)
(* a frame is to come.                                                     *)
(***************************************************************************)
(* In a frame the loop runs.                                               *)
Client ==
  [up : BOOLEAN, space : Spaces \union {Nil}, pos : Places, sent : Places,
   target : Clicks \union Seats \union {Nil}, keys : SUBSET Directions, timed : BOOLEAN,
   dirty : BOOLEAN, scheduled : BOOLEAN, running : BOOLEAN, active : BOOLEAN,
   peer : PeerPlaces \union {Nil}, mic : {"muted", "asking", "live"},
   away : BOOLEAN, idle : BOOLEAN, notes : BOOLEAN, chatOpen : BOOLEAN,
   chatByWalk : BOOLEAN, nearBoard : BOOLEAN, nudge : BOOLEAN, room : BOOLEAN,
   place : BOOLEAN]

KeepsPlace(v, w) ==
  /\ w.up = v.up /\ w.space = v.space /\ w.pos = v.pos /\ w.sent = v.sent
  /\ w.running = v.running

KeepsWalk(v, w) == w.target = v.target /\ w.keys = v.keys /\ w.timed = v.timed

KeepsSeen(v, w) == w.peer = v.peer /\ w.mic = v.mic

KeepsBoard(v, w) ==
  /\ w.notes = v.notes /\ w.nearBoard = v.nearBoard
  /\ w.chatOpen = v.chatOpen /\ w.chatByWalk = v.chatByWalk

KeepsHints(v, w) == w.nudge = v.nudge /\ w.room = v.room /\ w.place = v.place

KeepsLoop(v, w) == w.dirty = v.dirty /\ w.scheduled = v.scheduled

KeepsIdle(v, w) == w.away = v.away /\ w.idle = v.idle

Woken(v, w) == w.dirty /\ w.scheduled = (v.scheduled \/ ~v.running)

LEMMA WakeDoes ==
  ASSUME NEW v \in Client
  PROVE  /\ Wake(v) \in Client /\ KeepsPlace(v, Wake(v)) /\ KeepsWalk(v, Wake(v))
         /\ KeepsSeen(v, Wake(v)) /\ KeepsBoard(v, Wake(v)) /\ KeepsHints(v, Wake(v))
         /\ KeepsIdle(v, Wake(v)) /\ Wake(v).active = v.active /\ Woken(v, Wake(v))
<1>1. Wake(v) \in Client
  BY DEF Wake, Client
<1> QED
  BY <1>1 DEF Wake, Client, KeepsPlace, KeepsWalk, KeepsSeen, KeepsBoard, KeepsHints, KeepsIdle,
              Woken

LEMMA MarkActiveDoes ==
  ASSUME NEW v \in Client
  PROVE  /\ MarkActive(v) \in Client /\ KeepsPlace(v, MarkActive(v)) /\ KeepsWalk(v, MarkActive(v))
         /\ KeepsSeen(v, MarkActive(v)) /\ KeepsBoard(v, MarkActive(v))
         /\ KeepsHints(v, MarkActive(v)) /\ MarkActive(v).active = v.active
         /\ MarkActive(v).idle /\ ~MarkActive(v).away
         /\ IF v.away THEN Woken(v, MarkActive(v)) ELSE KeepsLoop(v, MarkActive(v))
<1>1. CASE ~v.away
  BY <1>1 DEF MarkActive, ResetIdleTimer, Client, KeepsPlace, KeepsWalk, KeepsSeen, KeepsBoard,
              KeepsHints, KeepsLoop
<1>2. CASE v.away
  <2> DEFINE back == [v EXCEPT !.away = FALSE]
             woke == Wake(back)
  <2>1. /\ back \in Client /\ KeepsPlace(v, back) /\ KeepsWalk(v, back) /\ KeepsSeen(v, back)
        /\ KeepsBoard(v, back) /\ KeepsHints(v, back) /\ back.active = v.active
        /\ ~back.away /\ KeepsLoop(v, back)
    BY DEF Client, KeepsPlace, KeepsWalk, KeepsSeen, KeepsBoard, KeepsHints, KeepsLoop
  <2> HIDE DEF back
  <2>2. /\ woke \in Client /\ KeepsPlace(back, woke) /\ KeepsWalk(back, woke)
        /\ KeepsSeen(back, woke) /\ KeepsBoard(back, woke) /\ KeepsHints(back, woke)
        /\ woke.active = back.active /\ woke.away = back.away /\ Woken(back, woke)
    BY <2>1, WakeDoes DEF KeepsIdle
  <2> HIDE DEF woke
  <2>3. MarkActive(v) = [woke EXCEPT !.idle = TRUE]
    BY <1>2 DEF MarkActive, ResetIdleTimer, woke, back
  <2>4. /\ MarkActive(v) \in Client /\ MarkActive(v).idle /\ ~MarkActive(v).away
        /\ MarkActive(v).active = v.active
    BY <2>1, <2>2, <2>3 DEF Client
  <2>5. KeepsPlace(v, MarkActive(v)) /\ KeepsWalk(v, MarkActive(v))
    BY <2>1, <2>2, <2>3 DEF Client, KeepsPlace, KeepsWalk
  <2>6. KeepsSeen(v, MarkActive(v)) /\ KeepsBoard(v, MarkActive(v))
    BY <2>1, <2>2, <2>3 DEF Client, KeepsSeen, KeepsBoard
  <2>7. KeepsHints(v, MarkActive(v)) /\ Woken(v, MarkActive(v))
    BY <2>1, <2>2, <2>3 DEF Client, KeepsHints, Woken, KeepsLoop, KeepsPlace
  <2> QED
    BY <1>2, <2>4, <2>5, <2>6, <2>7
<1> QED
  BY <1>1, <1>2 DEF Client

LEMMA SetChatOpenDoes ==
  ASSUME NEW v \in Client, NEW open \in BOOLEAN, NEW byWalk \in BOOLEAN
  PROVE  LET w == SetChatOpen(v, open, byWalk)
         IN  /\ w \in Client /\ KeepsPlace(v, w) /\ KeepsWalk(v, w) /\ KeepsSeen(v, w)
             /\ KeepsHints(v, w) /\ KeepsIdle(v, w) /\ w.active = v.active
             /\ w.notes = v.notes /\ w.nearBoard = v.nearBoard
             /\ w.chatOpen = open /\ w.chatByWalk = (open /\ byWalk)
             /\ KeepsLoop(v, w) \/ Woken(v, w)
<1> DEFINE walked == open /\ byWalk
           set == [v EXCEPT !.chatByWalk = walked, !.chatOpen = open]
           w == SetChatOpen(v, open, byWalk)
<1>0. walked \in BOOLEAN /\ (w = set \/ w = Wake(set))
  BY DEF SetChatOpen
<1> HIDE DEF walked, w
<1>1. /\ set \in Client /\ KeepsPlace(v, set) /\ KeepsWalk(v, set) /\ KeepsSeen(v, set)
      /\ KeepsHints(v, set) /\ KeepsIdle(v, set) /\ set.active = v.active
      /\ set.notes = v.notes /\ set.nearBoard = v.nearBoard
      /\ set.chatOpen = open /\ set.chatByWalk = walked /\ KeepsLoop(v, set)
  BY <1>0 DEF Client, KeepsPlace, KeepsWalk, KeepsSeen, KeepsHints, KeepsIdle, KeepsLoop
<1> HIDE DEF set
<1>3. CASE w = set
  BY <1>1, <1>3 DEF w, walked
<1>4. CASE w = Wake(set)
  <2>1. /\ w \in Client /\ KeepsPlace(set, w) /\ KeepsWalk(set, w) /\ KeepsSeen(set, w)
        /\ KeepsBoard(set, w) /\ KeepsHints(set, w) /\ KeepsIdle(set, w)
        /\ w.active = set.active /\ Woken(set, w)
    BY <1>1, <1>4, WakeDoes
  <2>2. KeepsPlace(v, w) /\ KeepsWalk(v, w) /\ KeepsSeen(v, w) /\ KeepsHints(v, w)
    BY <1>1, <2>1 DEF KeepsPlace, KeepsWalk, KeepsSeen, KeepsHints
  <2>3. KeepsIdle(v, w) /\ w.active = v.active /\ Woken(v, w)
    BY <1>1, <2>1 DEF KeepsIdle, Woken, KeepsLoop, KeepsPlace
  <2>4. /\ w.notes = v.notes /\ w.nearBoard = v.nearBoard
        /\ w.chatOpen = open /\ w.chatByWalk = (open /\ byWalk)
    BY <1>1, <2>1 DEF KeepsBoard, walked
  <2> QED
    BY <2>1, <2>2, <2>3, <2>4 DEF w
<1> QED
  BY <1>0, <1>3, <1>4

LEMMA DistTyped == \A p, q \in Int : Dist(p, q) \in Nat
BY DEF Dist

(* Whether we stand at the board is found out anew; a chat opened or       *)
(* closed by it tells.                                                     *)
LEMMA BoardDoes ==
  ASSUME NEW v \in Client, v.chatByWalk => v.chatOpen
  PROVE  LET w == UpdateBoardProximity(v)
         IN  /\ w \in Client /\ KeepsPlace(v, w) /\ KeepsWalk(v, w) /\ KeepsSeen(v, w)
             /\ KeepsHints(v, w) /\ KeepsIdle(v, w) /\ w.active = v.active
             /\ KeepsLoop(v, w) \/ Woken(v, w)
             /\ AtBoard(w)
<1> DEFINE dist == Dist(v.pos, BoardAt)
           near == v.notes /\ BoardOpen(v.nearBoard, dist)
           came == [v EXCEPT !.nearBoard = near]
           w == UpdateBoardProximity(v)
<1>1. dist \in Nat /\ v.notes \in BOOLEAN /\ v.nearBoard \in BOOLEAN
  <2>1. BoardAt \in Int
    BY FloorAssumption
  <2>2. v.pos \in Int /\ v.notes \in BOOLEAN /\ v.nearBoard \in BOOLEAN
    BY FloorAssumption DEF Client, Places
  <2> QED
    BY <2>1, <2>2, DistTyped
<1>2. near \in BOOLEAN /\ (near => v.notes /\ dist <= CloseR) /\ (v.notes /\ ~near => dist > OpenR)
  BY <1>1, FloorAssumption DEF BoardOpen
<1>3. /\ came \in Client /\ KeepsPlace(v, came) /\ KeepsWalk(v, came) /\ KeepsSeen(v, came)
      /\ KeepsHints(v, came) /\ KeepsIdle(v, came) /\ came.active = v.active
      /\ came.notes = v.notes /\ came.nearBoard = near
      /\ came.chatOpen = v.chatOpen /\ came.chatByWalk = v.chatByWalk /\ KeepsLoop(v, came)
  BY <1>2 DEF Client, KeepsPlace, KeepsWalk, KeepsSeen, KeepsHints, KeepsIdle, KeepsLoop
<1>4. \/ w = v /\ near = v.nearBoard
      \/ w = came
      \/ w = SetChatOpen(came, TRUE, TRUE)
      \/ w = SetChatOpen(came, FALSE, FALSE)
  BY DEF UpdateBoardProximity
<1> HIDE DEF came, w, near, dist
<1>5. CASE w = v /\ near = v.nearBoard
  <2>1. AtBoard(w)
    BY <1>2, <1>5 DEF AtBoard, dist
  <2> QED
    BY <1>5, <2>1 DEF w, KeepsPlace, KeepsWalk, KeepsSeen, KeepsHints, KeepsIdle, KeepsLoop
<1>6. CASE w = came
  <2>1. AtBoard(w)
    BY <1>2, <1>3, <1>6 DEF AtBoard, dist, KeepsPlace
  <2> QED
    BY <1>3, <1>6, <2>1 DEF w
<1>7. ASSUME NEW open \in BOOLEAN, w = SetChatOpen(came, open, open)
      PROVE  /\ w \in Client /\ KeepsPlace(v, w) /\ KeepsWalk(v, w) /\ KeepsSeen(v, w)
             /\ KeepsHints(v, w) /\ KeepsIdle(v, w) /\ w.active = v.active
             /\ KeepsLoop(v, w) \/ Woken(v, w)
             /\ AtBoard(w)
  <2>1. /\ w \in Client /\ KeepsPlace(came, w) /\ KeepsWalk(came, w) /\ KeepsSeen(came, w)
        /\ KeepsHints(came, w) /\ KeepsIdle(came, w) /\ w.active = came.active
        /\ w.notes = came.notes /\ w.nearBoard = came.nearBoard
        /\ w.chatOpen = open /\ w.chatByWalk = (open /\ open)
        /\ KeepsLoop(came, w) \/ Woken(came, w)
    BY <1>3, <1>7, SetChatOpenDoes
  <2>2. KeepsPlace(v, w) /\ KeepsWalk(v, w) /\ KeepsSeen(v, w) /\ KeepsHints(v, w)
    BY <1>3, <2>1 DEF KeepsPlace, KeepsWalk, KeepsSeen, KeepsHints
  <2>3. KeepsIdle(v, w) /\ w.active = v.active /\ (KeepsLoop(v, w) \/ Woken(v, w))
    BY <1>3, <2>1 DEF KeepsIdle, Woken, KeepsLoop, KeepsPlace
  <2>4. AtBoard(w)
    BY <1>2, <1>3, <2>1, <2>2 DEF AtBoard, dist, KeepsPlace
  <2> QED
    BY <2>1, <2>2, <2>3, <2>4
<1> QED
  BY <1>4, <1>5, <1>6, <1>7 DEF w

(***************************************************************************)
(* What the user and the peer do: a frame comes, or nothing seen changed.  *)
(***************************************************************************)
LEMMA RunningOrNot ==
  /\ \A v \in Client : ~v.running => v \in ClientType
  /\ \A v \in ClientType : v \in Client /\ ~v.running
BY DEF Client, ClientType

LEMMA NetStays ==
  ASSUME NetInv, UNCHANGED network, c'.up = c.up, c'.space = c.space, c'.sent = c.sent
  PROVE  NetInv'
BY DEF NetInv, network, SpaceFollows, PosFollows, IsSnap, IsMove, LastSnap, LastMove

LEMMA HandledKeeps ==
  ASSUME ClientInv, c.up, NEW w \in Client, Handled(w), KeepsPlace(c, w), Wakeful(w), AtBoard(w),
         c.dirty => w.dirty, Picture(w) = Picture(c) \/ w.dirty
  PROVE  ClientInv' /\ KeepsPlace(c, c')
<1>1. c' = w /\ drawn' = (drawn /\ Picture(w) = Picture(c))
  BY DEF Handled
<1>2. w \in ClientType /\ w.up
  BY RunningOrNot DEF KeepsPlace, ClientInv
<1>3. drawn' \/ w.dirty
  BY <1>1 DEF ClientInv
<1> QED
  BY <1>1, <1>2, <1>3 DEF ClientInv

LEMMA WokenKeeps ==
  ASSUME ClientInv, c.up, NEW w \in Client, c' = w, drawn' \in BOOLEAN, KeepsPlace(c, w),
         Woken(c, w), w.idle = ~w.away, AtBoard(w)
  PROVE  ClientInv' /\ KeepsPlace(c, c')
<1>1. w \in ClientType /\ w.up /\ w.scheduled
  BY RunningOrNot DEF KeepsPlace, ClientInv, Woken
<1>2. Wakeful(w)
  BY <1>1 DEF Wakeful, Woken
<1> QED
  BY <1>1, <1>2 DEF ClientInv, Woken

(* Nothing is seen of it: at most the microphone is asked for.             *)
Unseen(v, w) ==
  /\ KeepsPlace(v, w) /\ KeepsLoop(v, w) /\ KeepsHints(v, w)
  /\ w.active = v.active /\ w.target = v.target /\ w.peer = v.peer
  /\ w.mic = v.mic \/ (w.mic = "asking" /\ v.mic # "live")
  /\ w.away = v.away /\ w.idle = v.idle

LEMMA SameKeeps ==
  ASSUME ClientInv, c.up, NEW w \in Client, Handled(w), Unseen(c, w), AtBoard(w)
  PROVE  ClientInv' /\ KeepsPlace(c, c')
<1>1. Wakeful(c)
  BY DEF ClientInv
<1>2. HintsCurrent(c) => HintsCurrent(w)
  BY DEF HintsCurrent, KeepsHints, KeepsPlace, Nudged, Muted, SomeoneInRange, Unseen
<1>3. Wakeful(w)
  BY <1>1, <1>2 DEF Wakeful, KeepsLoop, KeepsPlace, Unseen
<1>4. Picture(w) = Picture(c)
  BY DEF Picture, KeepsPlace, Unseen
<1>5. KeepsPlace(c, w) /\ (c.dirty => w.dirty)
  BY DEF KeepsLoop, Unseen
<1> QED
  BY <1>3, <1>4, <1>5, HandledKeeps

LEMMA BoardStays ==
  ASSUME NEW v, NEW w, AtBoard(v), KeepsPlace(v, w), KeepsBoard(v, w) PROVE AtBoard(w)
BY DEF AtBoard, KeepsPlace, KeepsBoard

LEMMA Here ==
  ASSUME ClientInv, c.up
  PROVE  /\ c \in Client /\ ~c.running /\ Wakeful(c) /\ AtBoard(c) /\ c.idle = ~c.away
         /\ c.mic \in {"muted", "asking", "live"}
BY RunningOrNot DEF ClientInv, Wakeful, Client

(* Activity: whoever was away is back.                                     *)
LEMMA ActivityKeeps ==
  ASSUME ClientInv, c.up, NEW v \in Client, KeepsPlace(c, v), KeepsBoard(c, v), KeepsLoop(c, v),
         c' = OnInputActivity(v), drawn' \in BOOLEAN
  PROVE  ClientInv' /\ KeepsPlace(c, c')
<1> DEFINE m == MarkActive(v)
           w == Wake(m)
<1>1. /\ m \in Client /\ KeepsPlace(v, m) /\ KeepsBoard(v, m) /\ m.idle = ~m.away
      /\ Woken(v, m) \/ KeepsLoop(v, m)
  BY MarkActiveDoes
<1> HIDE DEF m
<1>2. /\ w \in Client /\ KeepsPlace(m, w) /\ KeepsBoard(m, w) /\ KeepsIdle(m, w) /\ Woken(m, w)
  BY <1>1, WakeDoes
<1>3. c' = w
  BY DEF OnInputActivity, m
<1> HIDE DEF w
<1>4. KeepsPlace(c, w) /\ KeepsBoard(c, w)
  BY <1>1, <1>2 DEF KeepsPlace, KeepsBoard
<1>5. Woken(c, w) /\ w.idle = ~w.away
  BY <1>1, <1>2 DEF Woken, KeepsPlace, KeepsLoop, KeepsIdle
<1>6. AtBoard(w)
  BY <1>4, Here, BoardStays
<1> QED
  BY <1>2, <1>3, <1>4, <1>5, <1>6, WokenKeeps

(* Another change, and a wake.                                             *)
LEMMA ChangeKeeps ==
  ASSUME ClientInv, c.up, NEW v \in Client, KeepsPlace(c, v), KeepsBoard(c, v),
         v.idle = ~v.away, v.scheduled \in {c.scheduled, TRUE},
         c' = Wake(v), drawn' \in BOOLEAN
  PROVE  ClientInv' /\ KeepsPlace(c, c')
<1> DEFINE w == Wake(v)
<1>1. /\ w \in Client /\ KeepsPlace(v, w) /\ KeepsBoard(v, w) /\ KeepsIdle(v, w) /\ Woken(v, w)
  BY WakeDoes
<1>2. c' = w
  OBVIOUS
<1> HIDE DEF w
<1>3. KeepsPlace(c, w) /\ KeepsBoard(c, w)
  BY <1>1 DEF KeepsPlace, KeepsBoard
<1>4. Woken(c, w) /\ w.idle = ~w.away
  BY <1>1, Here DEF Woken, KeepsPlace, KeepsIdle
<1>5. AtBoard(w)
  BY <1>3, Here, BoardStays
<1> QED
  BY <1>1, <1>2, <1>3, <1>4, <1>5, WokenKeeps

LEMMA KeyDownKeeps ==
  ASSUME ClientInv, NEW k \in Directions, KeyDown(k)
  PROVE  ClientInv' /\ KeepsPlace(c, c')
<1> DEFINE pressed == [c EXCEPT !.keys = @ \union {k}]
           fresh == [pressed EXCEPT !.timed = FALSE]
<1>1. /\ c.up /\ c \in Client /\ AtBoard(c) /\ c.idle = ~c.away
  BY Here DEF KeyDown
<1>2. /\ pressed \in Client
      /\ KeepsPlace(c, pressed) /\ KeepsBoard(c, pressed) /\ KeepsLoop(c, pressed)
      /\ KeepsHints(c, pressed) /\ KeepsSeen(c, pressed) /\ KeepsIdle(c, pressed)
      /\ pressed.active = c.active /\ pressed.target = c.target
  BY <1>1 DEF Client, KeepsPlace, KeepsBoard, KeepsLoop, KeepsHints, KeepsSeen, KeepsIdle
<1>3. /\ fresh \in Client /\ KeepsPlace(c, fresh) /\ KeepsBoard(c, fresh) /\ KeepsLoop(c, fresh)
  BY <1>1 DEF Client, KeepsPlace, KeepsBoard, KeepsLoop
<1>4. \/ c' = OnInputActivity(fresh) /\ drawn' \in BOOLEAN
      \/ Handled(pressed)
  BY DEF KeyDown, Handled
<1> HIDE DEF pressed, fresh
<1>5. CASE c' = OnInputActivity(fresh) /\ drawn' \in BOOLEAN
  BY <1>1, <1>3, <1>5, ActivityKeeps
<1>6. CASE Handled(pressed)
  <2>1. AtBoard(pressed)
    BY <1>1, <1>2, BoardStays
  <2>2. Unseen(c, pressed)
    BY <1>2 DEF KeepsIdle, KeepsSeen, Unseen
  <2> QED
    BY <1>1, <1>2, <1>6, <2>1, <2>2, SameKeeps
<1> QED
  BY <1>4, <1>5, <1>6

LEMMA KeyUpKeeps ==
  ASSUME ClientInv, NEW k \in Directions, KeyUp(k)
  PROVE  ClientInv' /\ KeepsPlace(c, c')
<1> DEFINE pressed == [c EXCEPT !.keys = @ \ {k}]
<1>1. /\ c.up /\ c \in Client /\ AtBoard(c) /\ c.idle = ~c.away
  BY Here DEF KeyUp
<1>2. /\ pressed \in Client
      /\ KeepsPlace(c, pressed) /\ KeepsBoard(c, pressed) /\ KeepsLoop(c, pressed)
      /\ KeepsHints(c, pressed) /\ KeepsSeen(c, pressed) /\ KeepsIdle(c, pressed)
      /\ pressed.active = c.active /\ pressed.target = c.target
  BY <1>1 DEF Client, KeepsPlace, KeepsBoard, KeepsLoop, KeepsHints, KeepsSeen, KeepsIdle
<1>3. Handled(pressed)
  BY DEF KeyUp
<1> HIDE DEF pressed
<1>4. AtBoard(pressed)
  BY <1>1, <1>2, BoardStays
<1>5. Unseen(c, pressed)
  BY <1>2 DEF KeepsIdle, KeepsSeen, Unseen
<1> QED
  BY <1>1, <1>2, <1>3, <1>4, <1>5, SameKeeps

(* A seat under the pointer is one of the seats: they are places, so one   *)
(* of those is closest.                                                    *)
LEMMA SeatFound == ASSUME NEW p \in Clicks PROVE SeatAt(p) \in Clicks \union Seats
<1> DEFINE hit == {s \in Seats : Dist(s, p) <= HitR}
           far == {Dist(s, p) : s \in hit}
<1>1. CASE hit = {}
  BY <1>1 DEF SeatAt
<1>2. CASE hit # {}
  <2>1. p \in Int /\ \A s \in Seats : s \in Int
    BY FloorAssumption
  <2>2. far \subseteq Nat /\ far # {}
    BY <1>2, <2>1, DistTyped
  <2>3. PICK x \in far : \A y \in far : ~(<<y, x>> \in OpToRel(<, Nat))
    BY <2>2, WFMin, NatLessThanWellFounded
  <2>4. \A y \in far : x <= y
    <3>1. \A y \in far : y < x => <<y, x>> \in OpToRel(<, Nat)
      BY <2>2 DEF OpToRel
    <3>2. x \in Nat /\ \A y \in far : y \in Nat /\ ~(y < x)
      BY <2>2, <2>3, <3>1
    <3> HIDE DEF far
    <3> QED
      BY <3>2
  <2>5. PICK s \in hit : \A r \in hit : Dist(s, p) <= Dist(r, p)
    BY <2>4
  <2> QED
    BY <1>2, <2>5 DEF SeatAt
<1> QED
  BY <1>1, <1>2

LEMMA MoveTargetKeeps ==
  ASSUME ClientInv, c.up, NEW p \in Clicks \union Seats, c' = SetMoveTarget(c, p),
         drawn' \in BOOLEAN
  PROVE  ClientInv' /\ KeepsPlace(c, c')
<1> DEFINE timed == c.timed /\ ~(c.keys = {} /\ c.target = Nil)
           aimed == [c EXCEPT !.target = p, !.timed = timed]
<1>1. timed \in BOOLEAN /\ c \in Client /\ c' = OnInputActivity(aimed)
  BY Here DEF SetMoveTarget
<1> HIDE DEF timed
<1>2. /\ aimed \in Client /\ KeepsPlace(c, aimed) /\ KeepsBoard(c, aimed) /\ KeepsLoop(c, aimed)
  BY <1>1 DEF Client, KeepsPlace, KeepsBoard, KeepsLoop
<1> QED
  BY <1>1, <1>2, ActivityKeeps

LEMMA PointerKeeps ==
  ASSUME ClientInv, NEW p \in Clicks, PointerDown(p)
  PROVE  ClientInv' /\ KeepsPlace(c, c')
<1>1. c.up /\ drawn' \in BOOLEAN /\ c \in Client
  BY Here DEF PointerDown, Handled, ClientInv
<1>2. CASE c' = Wake(MarkActive(c))
  <2>1. KeepsPlace(c, c) /\ KeepsBoard(c, c) /\ KeepsLoop(c, c) /\ c' = OnInputActivity(c)
    BY <1>2 DEF KeepsPlace, KeepsBoard, KeepsLoop, OnInputActivity
  <2> QED
    BY <1>1, <2>1, ActivityKeeps
<1>3. CASE c' = SetMoveTarget(c, SeatAt(p))
  BY <1>1, <1>3, SeatFound, MoveTargetKeeps
<1> QED
  BY <1>2, <1>3 DEF PointerDown, Handled

LEMMA DragKeeps ==
  ASSUME ClientInv, NEW p \in Clicks, Drag(p)
  PROVE  ClientInv' /\ KeepsPlace(c, c')
BY MoveTargetKeeps DEF Drag, Handled, ClientInv

LEMMA ChatButtonKeeps ==
  ASSUME ClientInv, NEW open \in BOOLEAN, OnSetChatOpen(open)
  PROVE  ClientInv' /\ KeepsPlace(c, c')
<1> DEFINE w == SetChatOpen(c, open, FALSE)
<1>1. c.up /\ Handled(w) /\ c \in Client /\ AtBoard(c) /\ c.idle = ~c.away /\ drawn' \in BOOLEAN
  BY Here DEF OnSetChatOpen, Handled
<1>2. /\ w \in Client /\ KeepsPlace(c, w) /\ KeepsWalk(c, w) /\ KeepsSeen(c, w)
      /\ KeepsHints(c, w) /\ KeepsIdle(c, w) /\ w.active = c.active
      /\ w.notes = c.notes /\ w.nearBoard = c.nearBoard
      /\ ~w.chatByWalk
      /\ KeepsLoop(c, w) \/ Woken(c, w)
  BY <1>1, SetChatOpenDoes
<1> HIDE DEF w
<1>3. AtBoard(w)
  BY <1>1, <1>2 DEF AtBoard, KeepsPlace
<1>4. CASE Woken(c, w)
  BY <1>1, <1>2, <1>3, <1>4, WokenKeeps DEF Handled, KeepsIdle
<1>5. CASE KeepsLoop(c, w)
  <2>1. Unseen(c, w)
    BY <1>2, <1>5 DEF KeepsIdle, KeepsSeen, KeepsWalk, Unseen
  <2> QED
    BY <1>1, <1>2, <1>3, <1>5, <2>1, SameKeeps
<1> QED
  BY <1>2, <1>4, <1>5

LEMMA MarkedKeeps ==
  ASSUME ClientInv, c.up, Handled(MarkActive(c))
  PROVE  ClientInv' /\ KeepsPlace(c, c')
<1> DEFINE w == MarkActive(c)
<1>1. c \in Client /\ AtBoard(c) /\ c.idle = ~c.away /\ drawn' \in BOOLEAN
  BY Here DEF Handled
<1>2. /\ w \in Client /\ KeepsPlace(c, w) /\ KeepsWalk(c, w) /\ KeepsSeen(c, w)
      /\ KeepsBoard(c, w) /\ KeepsHints(c, w) /\ w.active = c.active /\ w.idle /\ ~w.away
      /\ IF c.away THEN Woken(c, w) ELSE KeepsLoop(c, w)
  BY <1>1, MarkActiveDoes
<1> HIDE DEF w
<1>3. AtBoard(w)
  BY <1>1, <1>2, BoardStays
<1>4. CASE c.away
  BY <1>1, <1>2, <1>3, <1>4, WokenKeeps DEF Handled, w
<1>5. CASE ~c.away
  <2>1. /\ c.away \in BOOLEAN /\ c.idle \in BOOLEAN
        /\ w.away \in BOOLEAN /\ w.idle \in BOOLEAN
    BY <1>1, <1>2 DEF Client
  <2>2. Unseen(c, w) /\ Handled(w)
    BY <1>1, <1>2, <1>5, <2>1 DEF KeepsSeen, KeepsWalk, Unseen, w
  <2> QED
    BY <1>2, <1>3, <1>5, <2>1, <2>2, SameKeeps
<1> QED
  BY <1>4, <1>5

LEMMA MicToggleKeeps ==
  ASSUME ClientInv, NEW mic \in {"muted", "asking", "live"}, HandleMicToggle(mic)
  PROVE  ClientInv' /\ KeepsPlace(c, c')
<1> DEFINE back == MarkActive(c)
           pressed == [back EXCEPT !.mic = mic]
<1>1. c.up /\ c \in Client /\ AtBoard(c) /\ drawn' \in BOOLEAN
  BY Here DEF HandleMicToggle, Handled
<1>2. /\ back \in Client /\ KeepsPlace(c, back) /\ KeepsWalk(c, back) /\ KeepsSeen(c, back)
      /\ KeepsBoard(c, back) /\ KeepsHints(c, back) /\ back.active = c.active
      /\ back.idle /\ ~back.away
      /\ IF c.away THEN Woken(c, back) ELSE KeepsLoop(c, back)
  BY <1>1, MarkActiveDoes
<1> HIDE DEF back
<1>3. /\ pressed \in Client /\ KeepsPlace(back, pressed) /\ KeepsWalk(back, pressed)
      /\ pressed.peer = back.peer /\ pressed.mic = mic
      /\ KeepsBoard(back, pressed) /\ KeepsHints(back, pressed) /\ pressed.active = back.active
      /\ pressed.idle /\ ~pressed.away /\ KeepsLoop(back, pressed)
  BY <1>2 DEF Client, KeepsPlace, KeepsWalk, KeepsBoard, KeepsHints, KeepsLoop
<1>4. Handled(IF mic = "asking" THEN pressed ELSE Wake(pressed))
  BY DEF HandleMicToggle, pressed, back
<1> HIDE DEF pressed
<1>5. /\ KeepsPlace(c, pressed) /\ KeepsBoard(c, pressed) /\ KeepsHints(c, pressed)
      /\ pressed.active = c.active /\ pressed.target = c.target /\ pressed.peer = c.peer
      /\ pressed.idle = ~pressed.away
  BY <1>2, <1>3 DEF KeepsPlace, KeepsBoard, KeepsHints, KeepsWalk, KeepsSeen
<1>6. IF c.away THEN Woken(c, pressed) ELSE KeepsLoop(c, pressed)
  BY <1>2, <1>3 DEF Woken, KeepsLoop, KeepsPlace
<1>7. AtBoard(pressed)
  BY <1>1, <1>5, BoardStays
<1>8. CASE mic # "asking"
  <2>1. c' = Wake(pressed)
    BY <1>4, <1>8 DEF Handled
  <2>2. pressed.scheduled \in {c.scheduled, TRUE}
    BY <1>1, <1>6, Here DEF Woken, KeepsLoop
  <2> QED
    BY <1>1, <1>3, <1>5, <2>1, <2>2, ChangeKeeps
<1>9. CASE mic = "asking" /\ c.away
  <2>1. c' = pressed /\ Woken(c, pressed)
    BY <1>4, <1>6, <1>9 DEF Handled
  <2> QED
    BY <1>1, <1>3, <1>5, <1>7, <2>1, WokenKeeps
<1>10. CASE mic = "asking" /\ ~c.away
  <2>1. Handled(pressed) /\ KeepsLoop(c, pressed) /\ pressed.mic = "asking"
    BY <1>3, <1>4, <1>6, <1>10
  <2>2. c.mic # "live"
    BY <1>10 DEF HandleMicToggle, Muted
  <2>3. pressed.away = c.away /\ pressed.idle = c.idle
    <3>1. /\ c.away \in BOOLEAN /\ c.idle \in BOOLEAN /\ c.idle
          /\ pressed.away \in BOOLEAN /\ pressed.idle \in BOOLEAN
      BY <1>1, <1>3, <1>10, Here DEF Client
    <3> QED
      BY <1>3, <1>10, <3>1
  <2>4. Unseen(c, pressed)
    BY <1>5, <2>1, <2>2, <2>3 DEF Unseen
  <2> QED
    BY <1>1, <1>3, <1>7, <2>1, <2>4, SameKeeps
<1> QED
  BY <1>1, <1>8, <1>9, <1>10 DEF Client

LEMMA MicLandsKeeps ==
  ASSUME ClientInv, NEW granted \in BOOLEAN, MicLands(granted)
  PROVE  ClientInv' /\ KeepsPlace(c, c')
<1> DEFINE mic == IF granted THEN "live" ELSE "muted"
           v == [c EXCEPT !.mic = mic]
<1>1. /\ c.up /\ c \in Client /\ drawn' \in BOOLEAN /\ c.idle = ~c.away
      /\ c' = Wake(v) /\ mic \in {"muted", "asking", "live"}
  BY Here DEF MicLands, Handled
<1> HIDE DEF mic
<1>2. /\ v \in Client /\ KeepsPlace(c, v) /\ KeepsBoard(c, v) /\ v.idle = c.idle /\ v.away = c.away
      /\ v.scheduled = c.scheduled
  BY <1>1 DEF Client, KeepsPlace, KeepsBoard
<1> HIDE DEF v
<1>3. v.idle = ~v.away /\ v.scheduled \in {c.scheduled, TRUE}
  BY <1>1, <1>2
<1> QED
  BY <1>1, <1>2, <1>3, ChangeKeeps

LEMMA StatusKeeps ==
  ASSUME ClientInv, NEW away \in BOOLEAN, HandleSetStatus(away)
  PROVE  ClientInv' /\ KeepsPlace(c, c')
<1> DEFINE clock == ~away
           v == [c EXCEPT !.away = away, !.idle = clock]
<1>1. /\ c.up /\ c \in Client /\ drawn' \in BOOLEAN /\ AtBoard(c)
      /\ Handled(IF away # c.away THEN Wake(v) ELSE v)
  BY Here DEF HandleSetStatus, Handled
<1>2. clock \in BOOLEAN
  OBVIOUS
<1>3. clock = ~away
  OBVIOUS
<1> HIDE DEF clock
<1>4. /\ v \in Client /\ KeepsPlace(c, v) /\ KeepsBoard(c, v) /\ v.idle = clock /\ v.away = away
      /\ KeepsLoop(c, v) /\ KeepsHints(c, v) /\ v.active = c.active /\ v.target = c.target
      /\ v.peer = c.peer /\ v.mic = c.mic
  BY <1>1, <1>2 DEF Client, KeepsPlace, KeepsBoard, KeepsLoop, KeepsHints
<1> HIDE DEF v
<1>5. AtBoard(v) /\ v.idle = ~v.away /\ v.scheduled \in {c.scheduled, TRUE}
  BY <1>3, <1>1, <1>4, BoardStays DEF KeepsLoop
<1>6. CASE away # c.away
  BY <1>1, <1>4, <1>5, <1>6, ChangeKeeps DEF Handled
<1>7. CASE away = c.away
  <2>1. Unseen(c, v)
    BY <1>3, <1>1, <1>4, <1>7, Here DEF Unseen
  <2> QED
    BY <1>1, <1>4, <1>5, <1>7, <2>1, SameKeeps
<1> QED
  BY <1>6, <1>7

(* The clock runs only while we are not away.                              *)
LEMMA AwayKeeps ==
  ASSUME ClientInv, GoAway
  PROVE  ClientInv' /\ KeepsPlace(c, c')
<1> DEFINE v == [c EXCEPT !.idle = FALSE, !.away = TRUE]
<1>1. /\ c.up /\ c \in Client /\ drawn' \in BOOLEAN /\ ~c.away /\ c' = Wake(v)
  BY Here DEF GoAway, Handled
<1>2. /\ v \in Client /\ KeepsPlace(c, v) /\ KeepsBoard(c, v) /\ ~v.idle /\ v.away
      /\ v.scheduled = c.scheduled
  BY <1>1 DEF Client, KeepsPlace, KeepsBoard
<1> HIDE DEF v
<1>3. v.idle = ~v.away /\ v.scheduled \in {c.scheduled, TRUE}
  <2>1. v.idle \in BOOLEAN /\ v.away \in BOOLEAN
    BY <1>2 DEF Client
  <2> QED
    BY <1>2, <2>1
<1> QED
  BY <1>1, <1>2, <1>3, ChangeKeeps

LEMMA RepaintKeeps ==
  ASSUME ClientInv, Repaint
  PROVE  ClientInv' /\ KeepsPlace(c, c')
<1>1. /\ c.up /\ c \in Client /\ drawn' \in BOOLEAN /\ c' = Wake(c) /\ c.idle = ~c.away
      /\ c.scheduled \in {c.scheduled, TRUE} /\ KeepsPlace(c, c) /\ KeepsBoard(c, c)
  BY Here DEF Repaint, KeepsPlace, KeepsBoard
<1> QED
  BY <1>1, ChangeKeeps

LEMMA PeerKeeps ==
  ASSUME ClientInv, NEW place \in PeerPlaces \union {Nil}, OnPeer(place)
  PROVE  ClientInv' /\ KeepsPlace(c, c')
<1> DEFINE v == [c EXCEPT !.peer = place]
<1>1. /\ c.up /\ c \in Client /\ drawn' \in BOOLEAN /\ c.idle = ~c.away /\ c' = Wake(v)
  BY Here DEF OnPeer, Handled
<1>2. /\ v \in Client /\ KeepsPlace(c, v) /\ KeepsBoard(c, v) /\ v.idle = c.idle /\ v.away = c.away
      /\ v.scheduled = c.scheduled
  BY <1>1 DEF Client, KeepsPlace, KeepsBoard
<1> HIDE DEF v
<1>3. v.idle = ~v.away /\ v.scheduled \in {c.scheduled, TRUE}
  BY <1>1, <1>2
<1> QED
  BY <1>1, <1>2, <1>3, ChangeKeeps

(***************************************************************************)
(* Walking, and what a frame paints.                                       *)
(***************************************************************************)
LEMMA StepsTyped == ASSUME NEW v, NEW step \in StepsOf(v) PROVE step \in Nat
<1>1. Steps \subseteq Nat
  BY FloorAssumption
<1> QED
  BY <1>1 DEF StepsOf

LEMMA WalkedTyped ==
  ASSUME NEW v \in Client, NEW step \in Nat
  PROVE  /\ Walked(v, step) \in Places
         /\ Velocity(v) = 0 /\ v.target = Nil => Walked(v, step) = v.pos
<1>1. Width \in Nat /\ v.pos \in 0 .. Width
  BY FloorAssumption DEF Client, Places
<1>2. v.target # Nil => v.target \in 0 .. Width
  BY FloorAssumption DEF Client
<1>3. Velocity(v) \in {-1, 0, 1}
  BY DEF Velocity
<1>4. \A p \in Int : Clamp(p) \in 0 .. Width
  BY <1>1 DEF Clamp
<1>5. v.pos + Velocity(v) * step \in Int
  <2>1. CASE Velocity(v) = -1
    BY <1>1, <2>1
  <2>2. CASE Velocity(v) = 0
    BY <1>1, <2>2
  <2>3. CASE Velocity(v) = 1
    BY <1>1, <2>3
  <2> QED
    BY <1>3, <2>1, <2>2, <2>3
<1>6. \A q \in 0 .. Width : Toward(v.pos, q, step) \in 0 .. Width
  <2> SUFFICES ASSUME NEW q \in 0 .. Width PROVE Toward(v.pos, q, step) \in 0 .. Width
    OBVIOUS
  <2>1. CASE Dist(v.pos, q) <= step
    BY <2>1 DEF Toward
  <2>2. CASE ~(Dist(v.pos, q) <= step)
    BY <1>1, <2>2 DEF Toward, Dist
  <2> QED
    BY <2>1, <2>2
<1>7. Walked(v, step) \in 0 .. Width
  <2>1. CASE Velocity(v) # 0
    <3>1. Walked(v, step) = Clamp(v.pos + Velocity(v) * step)
      BY <2>1 DEF Walked
    <3> QED
      BY <1>4, <1>5, <3>1
  <2>2. CASE Velocity(v) = 0 /\ v.target # Nil
    BY <1>2, <1>6, <2>2 DEF Walked
  <2>3. CASE Velocity(v) = 0 /\ v.target = Nil
    BY <1>1, <2>3 DEF Walked
  <2> QED
    BY <2>1, <2>2, <2>3
<1>8. Velocity(v) = 0 /\ v.target = Nil => Walked(v, step) = v.pos
  BY DEF Walked
<1> QED
  BY <1>7, <1>8 DEF Places

LEMMA StepDoes ==
  ASSUME NEW v \in Client, NEW step \in Nat, v.chatByWalk => v.chatOpen
  PROVE  LET w == Step(v, step)
         IN  /\ w \in Client /\ w.up = v.up /\ w.space = v.space /\ w.sent = v.sent
             /\ w.running = v.running /\ w.keys = v.keys /\ w.active = v.active
             /\ KeepsSeen(v, w) /\ KeepsHints(v, w) /\ KeepsIdle(v, w)
             /\ KeepsLoop(v, w) \/ Woken(v, w)
             /\ w.target \in {v.target, Nil}
             /\ Velocity(v) = 0 /\ v.target = Nil => w.pos = v.pos /\ w.target = Nil
             /\ AtBoard(w)
<1> DEFINE to == Walked(v, step)
           target == IF Velocity(v) # 0 \/ to = v.target THEN Nil ELSE v.target
           moved == [v EXCEPT !.pos = to, !.timed = TRUE, !.target = target]
           w == Step(v, step)
<1>1. to \in Places /\ (Velocity(v) = 0 /\ v.target = Nil => to = v.pos)
  BY WalkedTyped
<1>2. target \in {v.target, Nil} /\ v.target \in Clicks \union Seats \union {Nil}
  BY DEF Client
<1>3. w = UpdateBoardProximity(moved)
  BY DEF Step
<1> HIDE DEF to, target, w
<1>4. /\ moved \in Client /\ moved.up = v.up /\ moved.space = v.space /\ moved.sent = v.sent
      /\ moved.running = v.running /\ moved.keys = v.keys /\ moved.active = v.active
      /\ KeepsSeen(v, moved) /\ KeepsHints(v, moved) /\ KeepsIdle(v, moved) /\ KeepsLoop(v, moved)
      /\ moved.target = target /\ moved.pos = to
      /\ moved.chatByWalk = v.chatByWalk /\ moved.chatOpen = v.chatOpen
  BY <1>1, <1>2 DEF Client, KeepsSeen, KeepsHints, KeepsIdle, KeepsLoop
<1> HIDE DEF moved
<1>5. /\ w \in Client /\ KeepsPlace(moved, w) /\ KeepsWalk(moved, w) /\ KeepsSeen(moved, w)
      /\ KeepsHints(moved, w) /\ KeepsIdle(moved, w) /\ w.active = moved.active
      /\ KeepsLoop(moved, w) \/ Woken(moved, w)
      /\ AtBoard(w)
  BY <1>3, <1>4, BoardDoes
<1>6. /\ w.up = v.up /\ w.space = v.space /\ w.sent = v.sent /\ w.running = v.running
      /\ w.keys = v.keys /\ w.active = v.active /\ w.target = target /\ w.pos = to
  BY <1>4, <1>5 DEF KeepsPlace, KeepsWalk
<1>7. KeepsSeen(v, w) /\ KeepsHints(v, w) /\ KeepsIdle(v, w)
  BY <1>4, <1>5 DEF KeepsSeen, KeepsHints, KeepsIdle
<1>8. KeepsLoop(v, w) \/ Woken(v, w)
  BY <1>4, <1>5 DEF KeepsLoop, Woken
<1>9. Velocity(v) = 0 /\ v.target = Nil => w.pos = v.pos /\ w.target = Nil
  BY <1>1, <1>2, <1>6
<1> QED
  BY <1>2, <1>5, <1>6, <1>7, <1>8, <1>9 DEF w

LEMMA DrawDoes ==
  ASSUME NEW v \in Client, NEW eases \in BOOLEAN
  PROVE  LET w == Draw(v, eases)
         IN  /\ w \in Client /\ KeepsPlace(v, w) /\ KeepsWalk(v, w) /\ KeepsSeen(v, w)
             /\ KeepsBoard(v, w) /\ KeepsIdle(v, w)
             /\ ~w.dirty /\ (v.target # Nil => w.active)
<1> DEFINE active == eases \/ v.target # Nil
           w == [v EXCEPT !.dirty = FALSE, !.active = active]
<1>1. active \in BOOLEAN /\ (v.target # Nil => active) /\ Draw(v, eases) = w
  BY DEF Draw
<1> HIDE DEF active
<1>2. /\ w \in Client /\ KeepsPlace(v, w) /\ KeepsWalk(v, w) /\ KeepsSeen(v, w)
      /\ KeepsBoard(v, w) /\ KeepsIdle(v, w) /\ ~w.dirty /\ w.active = active
  BY <1>1 DEF Client, KeepsPlace, KeepsWalk, KeepsSeen, KeepsBoard, KeepsIdle
<1> QED
  BY <1>1, <1>2

(* What a frame leaves: the hints are of where it painted us.              *)
Left(v, awake) == [UpdateHints(v) EXCEPT !.running = FALSE, !.scheduled = awake]

LEMMA LeftDoes ==
  ASSUME NEW v \in Client, NEW awake \in BOOLEAN
  PROVE  LET w == Left(v, awake)
         IN  /\ w \in Client /\ ~w.running /\ w.scheduled = awake
             /\ w.up = v.up /\ w.space = v.space /\ w.pos = v.pos /\ w.sent = v.sent
             /\ KeepsWalk(v, w) /\ KeepsSeen(v, w) /\ KeepsBoard(v, w) /\ KeepsIdle(v, w)
             /\ w.dirty = v.dirty /\ w.active = v.active /\ HintsCurrent(w)
<1> DEFINE nudge == Nudged(v)
           room == InRoom(v.space, v.pos)
           place == InGroupPlace(v.space, v.pos)
           hinted == [v EXCEPT !.nudge = nudge, !.room = room, !.place = place]
           w == [hinted EXCEPT !.running = FALSE, !.scheduled = awake]
<1>1. nudge \in BOOLEAN /\ room \in BOOLEAN /\ place \in BOOLEAN
  BY DEF Nudged, InRoom, InGroupPlace
<1>2. Left(v, awake) = w
  BY DEF Left, UpdateHints
<1> HIDE DEF nudge, room, place
<1>3. /\ hinted \in Client /\ hinted.nudge = nudge /\ hinted.room = room /\ hinted.place = place
      /\ hinted.up = v.up /\ hinted.space = v.space /\ hinted.pos = v.pos /\ hinted.sent = v.sent
      /\ KeepsWalk(v, hinted) /\ KeepsSeen(v, hinted) /\ KeepsBoard(v, hinted)
      /\ KeepsIdle(v, hinted) /\ hinted.dirty = v.dirty /\ hinted.active = v.active
  <2>1. hinted \in Client
    BY <1>1 DEF Client
  <2>2. hinted.nudge = nudge /\ hinted.room = room /\ hinted.place = place
    BY DEF Client
  <2>3. /\ hinted.up = v.up /\ hinted.space = v.space /\ hinted.pos = v.pos
        /\ hinted.sent = v.sent /\ hinted.dirty = v.dirty /\ hinted.active = v.active
    BY DEF Client
  <2>4. KeepsWalk(v, hinted) /\ KeepsSeen(v, hinted)
    BY DEF Client, KeepsWalk, KeepsSeen
  <2>5. KeepsBoard(v, hinted) /\ KeepsIdle(v, hinted)
    BY DEF Client, KeepsBoard, KeepsIdle
  <2> QED
    BY <2>1, <2>2, <2>3, <2>4, <2>5
<1> HIDE DEF hinted
<1>4. /\ w \in Client /\ ~w.running /\ w.scheduled = awake
      /\ w.nudge = hinted.nudge /\ w.room = hinted.room /\ w.place = hinted.place
      /\ w.up = hinted.up /\ w.space = hinted.space /\ w.pos = hinted.pos /\ w.sent = hinted.sent
      /\ KeepsWalk(hinted, w) /\ KeepsSeen(hinted, w) /\ KeepsBoard(hinted, w)
      /\ KeepsIdle(hinted, w) /\ w.dirty = hinted.dirty /\ w.active = hinted.active
  <2>1. hinted \in Client
    BY <1>3
  <2>2. w \in Client /\ ~w.running /\ w.scheduled = awake
    <3>1. w \in Client
      BY <2>1 DEF Client
    <3>2. w.running = FALSE
      BY <2>1 DEF Client
    <3>3. w.scheduled = awake
      BY <2>1 DEF Client
    <3> QED
      BY <3>1, <3>2, <3>3
  <2>3. /\ w.nudge = hinted.nudge /\ w.room = hinted.room /\ w.place = hinted.place
        /\ w.up = hinted.up /\ w.space = hinted.space /\ w.pos = hinted.pos
        /\ w.sent = hinted.sent /\ w.dirty = hinted.dirty /\ w.active = hinted.active
    BY <2>1 DEF Client
  <2>4. /\ KeepsWalk(hinted, w) /\ KeepsSeen(hinted, w) /\ KeepsBoard(hinted, w)
        /\ KeepsIdle(hinted, w)
    BY <2>1 DEF Client, KeepsWalk, KeepsSeen, KeepsBoard, KeepsIdle
  <2> QED
    BY <2>2, <2>3, <2>4
<1> HIDE DEF w
<1>5. KeepsWalk(v, w) /\ KeepsSeen(v, w) /\ KeepsBoard(v, w) /\ KeepsIdle(v, w)
  BY <1>3, <1>4 DEF KeepsWalk, KeepsSeen, KeepsBoard, KeepsIdle
<1>6. Nudged(w) = Nudged(v)
  BY <1>3, <1>4, <1>5 DEF Nudged, Muted, SomeoneInRange, KeepsSeen
<1>7. HintsCurrent(w)
  BY <1>3, <1>4, <1>6 DEF HintsCurrent, nudge, room, place
<1> QED
  BY <1>2, <1>3, <1>4, <1>5, <1>7

(* What a frame leaves of the client, as far as the rest depends on it:    *)
(* one that paints nothing had nothing to paint.                           *)
LEMMA FrameKeeps ==
  ASSUME ClientInv, NEW heard \in {"nothing", "links", "voices", "us"}, Frame(heard)
  PROVE  /\ ClientInv' /\ c.up /\ c'.up /\ c'.space = c.space
         /\ \/ /\ UNCHANGED <<toServer, crossed>> /\ c'.sent = c.sent
            \/ \E walked \in Client : c'.sent = walked.pos /\ Send(walked)
<1>1. /\ c.up /\ c.scheduled /\ c \in Client /\ ~c.running /\ Wakeful(c) /\ AtBoard(c)
      /\ drawn \in BOOLEAN /\ (drawn \/ c.dirty)
  BY Here DEF Frame, ClientInv
<1> DEFINE start == [c EXCEPT !.scheduled = FALSE, !.running = TRUE]
<1>2. /\ start \in Client /\ start.up = c.up /\ start.space = c.space /\ start.pos = c.pos
      /\ start.sent = c.sent /\ KeepsWalk(c, start) /\ KeepsSeen(c, start)
      /\ KeepsBoard(c, start) /\ KeepsIdle(c, start) /\ start.dirty = c.dirty
      /\ start.active = c.active /\ start.running
  <2>1. c \in Client
    BY <1>1
  <2> QED
    BY <2>1 DEF Client, KeepsWalk, KeepsSeen, KeepsBoard, KeepsIdle
<1>3. PICK step \in StepsOf(c) :
        LET walked == Step(start, step)
        IN  \E sends \in MaySend(walked) :
              LET sent == IF sends THEN [walked EXCEPT !.sent = walked.pos] ELSE walked
                  spoke == IF heard = "us" THEN MarkActive(sent) ELSE sent
                  draws == ShouldDraw(spoke, heard)
              IN  \E eases \in IF draws THEN BOOLEAN ELSE {FALSE} :
                    LET painted == IF draws THEN Draw(spoke, eases) ELSE spoke
                    IN  /\ c' = Left(painted, KeepAwake(painted, heard))
                        /\ drawn' = (draws \/ (drawn /\ Picture(painted) = Picture(c)))
                        /\ IF sends THEN Send(walked) ELSE UNCHANGED <<toServer, crossed>>
  BY DEF Frame, Left
<1> HIDE DEF start
<1> DEFINE walked == Step(start, step)
<1>4. /\ walked \in Client /\ walked.up = c.up /\ walked.space = c.space /\ walked.sent = c.sent
      /\ walked.keys = c.keys /\ walked.active = c.active /\ KeepsSeen(c, walked)
      /\ KeepsIdle(c, walked) /\ AtBoard(walked) /\ (c.dirty => walked.dirty)
      /\ walked.target \in {c.target, Nil}
      /\ Velocity(c) = 0 /\ c.target = Nil => walked.pos = c.pos /\ walked.target = Nil
  <2>1. step \in Nat /\ (start.chatByWalk => start.chatOpen)
    BY <1>1, <1>2, StepsTyped DEF AtBoard, KeepsBoard
  <2>2. /\ walked \in Client /\ walked.up = start.up /\ walked.space = start.space
        /\ walked.sent = start.sent /\ walked.keys = start.keys /\ walked.active = start.active
        /\ KeepsSeen(start, walked) /\ KeepsIdle(start, walked)
        /\ KeepsLoop(start, walked) \/ Woken(start, walked)
        /\ walked.target \in {start.target, Nil}
        /\ Velocity(start) = 0 /\ start.target = Nil
             => walked.pos = start.pos /\ walked.target = Nil
        /\ AtBoard(walked)
    BY <1>2, <2>1, StepDoes
  <2> HIDE DEF walked
  <2>3. Velocity(start) = Velocity(c)
    BY <1>2 DEF Velocity, KeepsWalk
  <2>4. KeepsSeen(c, walked) /\ KeepsIdle(c, walked) /\ (c.dirty => walked.dirty)
    BY <1>2, <2>2 DEF KeepsSeen, KeepsIdle, KeepsLoop, Woken
  <2> QED
    BY <1>2, <2>2, <2>3, <2>4 DEF KeepsWalk
<1>5. PICK sends \in MaySend(walked) :
        LET sent == IF sends THEN [walked EXCEPT !.sent = walked.pos] ELSE walked
            spoke == IF heard = "us" THEN MarkActive(sent) ELSE sent
            draws == ShouldDraw(spoke, heard)
        IN  \E eases \in IF draws THEN BOOLEAN ELSE {FALSE} :
              LET painted == IF draws THEN Draw(spoke, eases) ELSE spoke
              IN  /\ c' = Left(painted, KeepAwake(painted, heard))
                  /\ drawn' = (draws \/ (drawn /\ Picture(painted) = Picture(c)))
                  /\ IF sends THEN Send(walked) ELSE UNCHANGED <<toServer, crossed>>
  BY <1>3
<1> HIDE DEF walked
<1> DEFINE sent == IF sends THEN [walked EXCEPT !.sent = walked.pos] ELSE walked
<1>6. /\ sent \in Client /\ sent.up = c.up /\ sent.space = c.space /\ sent.pos = walked.pos
      /\ KeepsWalk(walked, sent) /\ KeepsSeen(c, sent) /\ KeepsIdle(c, sent)
      /\ sent.dirty = walked.dirty /\ sent.active = c.active /\ AtBoard(sent)
      /\ sends => sent.sent = walked.pos
      /\ ~sends => sent.sent = c.sent
  <2>1. CASE ~sends
    BY <1>4, <2>1 DEF KeepsWalk, KeepsSeen, KeepsIdle
  <2>2. CASE sends
    <3>1. /\ sent \in Client /\ sent.up = walked.up /\ sent.space = walked.space
          /\ sent.pos = walked.pos /\ KeepsWalk(walked, sent) /\ KeepsSeen(walked, sent)
          /\ KeepsBoard(walked, sent) /\ KeepsIdle(walked, sent) /\ sent.dirty = walked.dirty
          /\ sent.active = walked.active /\ sent.sent = walked.pos
      BY <1>4, <2>2 DEF Client, KeepsWalk, KeepsSeen, KeepsBoard, KeepsIdle
    <3> HIDE DEF sent
    <3>2. KeepsSeen(c, sent) /\ KeepsIdle(c, sent) /\ AtBoard(sent)
      BY <1>4, <3>1 DEF KeepsSeen, KeepsIdle, KeepsBoard, AtBoard
    <3> QED
      BY <1>4, <2>2, <3>1, <3>2
  <2> QED
    BY <2>1, <2>2
<1> HIDE DEF sent
<1> DEFINE spoke == IF heard = "us" THEN MarkActive(sent) ELSE sent
           draws == ShouldDraw(spoke, heard)
<1>7. PICK eases \in IF draws THEN BOOLEAN ELSE {FALSE} :
        LET painted == IF draws THEN Draw(spoke, eases) ELSE spoke
        IN  /\ c' = Left(painted, KeepAwake(painted, heard))
            /\ drawn' = (draws \/ (drawn /\ Picture(painted) = Picture(c)))
            /\ IF sends THEN Send(walked) ELSE UNCHANGED <<toServer, crossed>>
  BY <1>5 DEF sent
<1> DEFINE painted == IF draws THEN Draw(spoke, eases) ELSE spoke
           awake == KeepAwake(painted, heard)
<1>8. /\ spoke \in Client /\ spoke.up = c.up /\ spoke.space = c.space /\ spoke.pos = walked.pos
      /\ spoke.sent = sent.sent /\ KeepsWalk(walked, spoke) /\ KeepsSeen(c, spoke)
      /\ spoke.idle = ~spoke.away /\ AtBoard(spoke) /\ (walked.dirty => spoke.dirty)
      /\ spoke.active = c.active /\ (heard # "us" => spoke.away = c.away)
  <2>1. CASE heard # "us"
    <3>1. spoke = sent
      BY <2>1
    <3> QED
      BY <1>1, <1>6, <2>1, <3>1 DEF Wakeful, KeepsIdle
  <2>2. CASE heard = "us"
    <3>1. spoke = MarkActive(sent)
      BY <2>2
    <3>2. /\ spoke \in Client /\ KeepsPlace(sent, spoke) /\ KeepsWalk(sent, spoke)
          /\ KeepsSeen(sent, spoke) /\ KeepsBoard(sent, spoke) /\ spoke.active = sent.active
          /\ spoke.idle /\ ~spoke.away
          /\ Woken(sent, spoke) \/ KeepsLoop(sent, spoke)
      BY <1>6, <3>1, MarkActiveDoes
    <3> HIDE DEF spoke
    <3>3. AtBoard(spoke)
      BY <1>6, <3>2, BoardStays
    <3>4. /\ KeepsWalk(walked, spoke) /\ KeepsSeen(c, spoke)
          /\ spoke.up = c.up /\ spoke.space = c.space /\ spoke.pos = walked.pos
          /\ spoke.sent = sent.sent
      BY <1>6, <3>2 DEF KeepsWalk, KeepsSeen, KeepsPlace
    <3>5. walked.dirty => spoke.dirty
      BY <1>6, <3>2 DEF Woken, KeepsLoop
    <3>6. spoke.idle = ~spoke.away
      <4>1. spoke.idle \in BOOLEAN /\ spoke.away \in BOOLEAN
        BY <3>2 DEF Client
      <4> QED
        BY <3>2, <4>1
    <3> QED
      BY <1>6, <2>2, <3>2, <3>3, <3>4, <3>5, <3>6
  <2> QED
    BY <2>1, <2>2
<1> HIDE DEF spoke
<1>9. /\ painted \in Client /\ KeepsPlace(spoke, painted) /\ KeepsWalk(spoke, painted)
      /\ KeepsSeen(spoke, painted) /\ KeepsBoard(spoke, painted) /\ KeepsIdle(spoke, painted)
      /\ ~painted.dirty /\ (painted.target # Nil => painted.active)
      /\ ~draws => painted = spoke
  <2>1. CASE ~draws
    <3>1. painted = spoke
      BY <2>1
    <3>2. ~spoke.dirty /\ spoke.target = Nil
      BY <2>1 DEF ShouldDraw, Moving
    <3> QED
      BY <1>8, <3>1, <3>2 DEF KeepsPlace, KeepsWalk, KeepsSeen, KeepsBoard, KeepsIdle
  <2>2. CASE draws
    <3>1. eases \in BOOLEAN /\ painted = Draw(spoke, eases)
      BY <2>2
    <3> HIDE DEF painted
    <3>2. /\ painted \in Client /\ KeepsPlace(spoke, painted) /\ KeepsWalk(spoke, painted)
          /\ KeepsSeen(spoke, painted) /\ KeepsBoard(spoke, painted)
          /\ KeepsIdle(spoke, painted) /\ ~painted.dirty
          /\ spoke.target # Nil => painted.active
      BY <1>8, <3>1, DrawDoes
    <3>3. painted.target = spoke.target
      BY <3>2 DEF KeepsWalk
    <3> QED
      BY <2>2, <3>2, <3>3
  <2> QED
    BY <2>1, <2>2
<1>10. /\ c' = Left(painted, awake)
       /\ drawn' = (draws \/ (drawn /\ Picture(painted) = Picture(c)))
       /\ IF sends THEN Send(walked) ELSE UNCHANGED <<toServer, crossed>>
  BY <1>7
<1> HIDE DEF painted, draws
<1>11. awake \in BOOLEAN /\ (painted.active => awake) /\ (~awake => ~Moving(painted))
  BY DEF KeepAwake
<1> HIDE DEF awake
<1>12. /\ c' \in Client /\ ~c'.running /\ c'.scheduled = awake
       /\ c'.up = painted.up /\ c'.space = painted.space /\ c'.pos = painted.pos
       /\ c'.sent = painted.sent /\ KeepsWalk(painted, c') /\ KeepsSeen(painted, c')
       /\ KeepsBoard(painted, c') /\ KeepsIdle(painted, c')
       /\ c'.dirty = painted.dirty /\ c'.active = painted.active /\ HintsCurrent(c')
  BY <1>9, <1>10, <1>11, LeftDoes
<1>13. /\ c'.up /\ c'.space = c.space /\ c'.pos = walked.pos /\ c'.sent = sent.sent
  BY <1>1, <1>8, <1>9, <1>12 DEF KeepsPlace
<1>14. AtBoard(c')
  <2>1. AtBoard(painted)
    BY <1>8, <1>9, BoardStays
  <2> QED
    BY <1>12, <2>1 DEF AtBoard, KeepsBoard
<1>15. ~awake => Dist(c'.pos, c'.sent) <= SendEps
  <2> SUFFICES ASSUME ~awake PROVE Dist(c'.pos, c'.sent) <= SendEps
    OBVIOUS
  <2>1. ~Moving(walked)
    BY <1>8, <1>9, <1>11 DEF Moving, Velocity, KeepsWalk
  <2>2. walked.pos \in Int /\ walked.sent \in Int /\ SendEps \in Nat
    BY <1>4, FloorAssumption DEF Client, Places
  <2>3. CASE Dist(walked.pos, walked.sent) <= SendEps
    <3>1. sends = FALSE
      BY <2>3 DEF MaySend
    <3> QED
      BY <1>4, <1>6, <1>13, <2>3, <3>1
  <2>4. CASE ~(Dist(walked.pos, walked.sent) <= SendEps)
    <3>1. sends = TRUE
      BY <2>1, <2>4 DEF MaySend
    <3>2. Dist(walked.pos, walked.pos) = 0
      BY <2>2 DEF Dist
    <3> QED
      BY <1>6, <1>13, <2>2, <3>1, <3>2
  <2> QED
    BY <2>3, <2>4
<1>16. Wakeful(c')
  <2>1. c'.idle = ~c'.away
    BY <1>8, <1>9, <1>12 DEF KeepsIdle
  <2>2. c'.target # Nil => c'.active
    BY <1>9, <1>12 DEF KeepsWalk
  <2> QED
    BY <1>9, <1>11, <1>12, <1>15, <2>1, <2>2 DEF Wakeful
<1>17. drawn'
  <2> SUFFICES ASSUME ~draws PROVE drawn /\ Picture(painted) = Picture(c)
    BY <1>10
  <2>1. /\ painted = spoke /\ ~Moving(spoke) /\ ~spoke.dirty /\ ~spoke.active /\ heard # "us"
    BY <1>9 DEF ShouldDraw, draws
  <2>2. drawn /\ ~c.dirty /\ ~c.active
    BY <1>1, <1>4, <1>8, <2>1
  <2>3. c.target = Nil /\ Velocity(c) = 0
    <3>1. c.target = Nil
      BY <1>1, <2>2 DEF Wakeful
    <3>2. Velocity(spoke) = 0 /\ spoke.keys = c.keys
      BY <1>4, <1>8, <2>1 DEF Moving, KeepsWalk
    <3> QED
      BY <3>1, <3>2 DEF Velocity
  <2>4. /\ spoke.pos = c.pos /\ spoke.target = c.target /\ spoke.up = c.up
        /\ spoke.space = c.space /\ spoke.away = c.away /\ spoke.peer = c.peer /\ spoke.mic = c.mic
    BY <1>4, <1>8, <2>1, <2>3 DEF KeepsWalk, KeepsSeen
  <2> QED
    BY <2>1, <2>2, <2>4 DEF Picture
<1>18. ClientInv'
  <2>1. c' \in ClientType
    BY <1>12, RunningOrNot
  <2>2. drawn' \in BOOLEAN
    BY <1>10
  <2> QED
    BY <1>13, <1>14, <1>16, <1>17, <2>1, <2>2 DEF ClientInv
<1>19. CASE sends
  BY <1>1, <1>4, <1>6, <1>10, <1>13, <1>18, <1>19
<1>20. CASE ~sends
  BY <1>1, <1>6, <1>10, <1>13, <1>18, <1>20
<1> QED
  BY <1>19, <1>20

(***************************************************************************)
(* Sessions and the server's messages, as the client takes them.           *)
(***************************************************************************)
LEMMA DownTyped == Down \in ClientType /\ Down \in Client
<1>1. 0 \in Places
  BY FloorAssumption DEF Places
<1> QED
  BY <1>1 DEF Down, ClientType, Client

(* A wake after all else is changed.                                       *)
LEMMA ShownKeeps ==
  ASSUME NEW v \in Client, v.up, ~v.running, v.idle = ~v.away, AtBoard(v),
         c' = Wake(v), drawn' \in BOOLEAN
  PROVE  ClientInv'
<1>1. /\ c' \in Client /\ KeepsPlace(v, c') /\ KeepsBoard(v, c') /\ KeepsIdle(v, c')
      /\ Woken(v, c')
  BY WakeDoes
<1>2. c' \in ClientType /\ c'.up
  BY <1>1, RunningOrNot DEF KeepsPlace
<1>3. AtBoard(c')
  BY <1>1, BoardStays
<1>4. Wakeful(c') /\ c'.dirty
  BY <1>1 DEF Wakeful, Woken, KeepsIdle
<1> QED
  BY <1>2, <1>3, <1>4 DEF ClientInv

LEMMA ShownDoes ==
  ASSUME NEW v \in Client, NEW s \in Spaces, NEW p \in Places, NEW peer \in PeerPlaces \union {Nil}
  PROVE  LET w == Shown(v, s, p, peer)
         IN  /\ w \in Client /\ w.up = v.up /\ w.space = s /\ w.pos = p /\ w.sent = p
             /\ w.running = v.running /\ KeepsBoard(v, w) /\ KeepsIdle(v, w)
BY DEF Shown, Client, KeepsBoard, KeepsIdle

LEMMA SessionStarts ==
  ASSUME NEW s \in Spaces, NEW p \in Spawns, NEW peer \in PeerPlaces \union {Nil},
         StartSession(s, p, peer)
  PROVE  ClientInv' /\ c'.up /\ c'.space = s /\ c'.sent = p
<1> DEFINE shown == Shown(Down, s, p, peer)
           v == [[shown EXCEPT !.up = TRUE] EXCEPT !.idle = TRUE]
<1>1. p \in Places
  BY FloorAssumption DEF Places
<1>2. /\ shown \in Client /\ shown.space = s /\ shown.pos = p /\ shown.sent = p
      /\ shown.running = Down.running /\ KeepsBoard(Down, shown) /\ KeepsIdle(Down, shown)
  BY <1>1, DownTyped, ShownDoes
<1>3. c' = Wake(v) /\ drawn' = FALSE
  BY DEF StartSession, ResetIdleTimer
<1> HIDE DEF shown
<1>4. /\ ~Down.running /\ ~Down.away /\ ~Down.notes /\ ~Down.nearBoard /\ ~Down.chatByWalk
  BY DEF Down
<1>5. /\ v \in Client /\ v.up /\ v.idle /\ v.away = shown.away /\ v.running = shown.running
      /\ v.space = s /\ v.pos = p /\ v.sent = p /\ KeepsBoard(shown, v)
  BY <1>2 DEF Client, KeepsBoard
<1> HIDE DEF v
<1>6. ~v.running /\ ~v.away /\ AtBoard(v)
  BY <1>2, <1>4, <1>5 DEF KeepsBoard, KeepsIdle, AtBoard
<1>7. v.idle = ~v.away
  <2>1. v.idle \in BOOLEAN /\ v.away \in BOOLEAN
    BY <1>5 DEF Client
  <2> QED
    BY <1>5, <1>6, <2>1
<1>8. KeepsPlace(v, c')
  BY <1>3, <1>5, WakeDoes
<1> QED
  BY <1>3, <1>5, <1>6, <1>7, <1>8, ShownKeeps DEF KeepsPlace

LEMMA SessionEnds == ASSUME ClientInv, TeardownSession PROVE ClientInv' /\ ~c'.up
<1>1. c' = [Down EXCEPT !.dirty = c.dirty] /\ drawn' = TRUE /\ c.dirty \in BOOLEAN
  BY DEF TeardownSession, ClientInv, ClientType
<1>2. c' \in ClientType /\ ~c'.up /\ ~c'.scheduled
  BY <1>1, DownTyped DEF Down, ClientType
<1> QED
  BY <1>1, <1>2 DEF ClientInv

LEMMA SnapshotKeeps ==
  ASSUME ClientInv, c.up, NEW peer \in PeerPlaces \union {Nil}, OnSpaceSnapshot(peer),
         Head(toClient).space \in Spaces, Head(toClient).pos \in Places
  PROVE  /\ ClientInv' /\ c'.up
         /\ c'.space = Head(toClient).space /\ c'.sent = Head(toClient).pos
<1>1. PICK s \in Spaces, p \in Places : Head(toClient).space = s /\ Head(toClient).pos = p
  OBVIOUS
<1> DEFINE cleared == [c EXCEPT !.notes = FALSE, !.nearBoard = FALSE]
           shown == Shown(cleared, s, p, peer)
           near == UpdateBoardProximity(shown)
<1>2. c \in Client /\ ~c.running /\ c.idle = ~c.away /\ AtBoard(c)
  BY Here
<1>3. c' = Wake(near) /\ drawn' = FALSE
  BY <1>1 DEF OnSpaceSnapshot
<1>4. /\ cleared \in Client /\ cleared.up = c.up /\ cleared.running = c.running
      /\ KeepsIdle(c, cleared) /\ cleared.chatOpen = c.chatOpen
      /\ cleared.chatByWalk = c.chatByWalk
  <2>1. c \in Client
    BY <1>2
  <2> QED
    BY <2>1 DEF Client, KeepsIdle
<1> HIDE DEF cleared
<1>5. /\ shown \in Client /\ shown.up = cleared.up /\ shown.space = s
      /\ shown.sent = p /\ shown.running = cleared.running
      /\ KeepsBoard(cleared, shown) /\ KeepsIdle(cleared, shown)
  <2>1. cleared \in Client
    BY <1>4
  <2> QED
    BY <2>1, ShownDoes
<1> HIDE DEF shown
<1>6. shown.chatByWalk => shown.chatOpen
  BY <1>2, <1>4, <1>5 DEF KeepsBoard, AtBoard
<1>7. near \in Client /\ KeepsPlace(shown, near) /\ KeepsIdle(shown, near) /\ AtBoard(near)
  BY <1>5, <1>6, BoardDoes
<1> HIDE DEF near
<1>8. /\ near.up /\ ~near.running /\ near.idle = ~near.away /\ near.space = s
      /\ near.sent = p
  BY <1>2, <1>4, <1>5, <1>7 DEF KeepsPlace, KeepsIdle
<1>9. KeepsPlace(near, c')
  BY <1>3, <1>7, WakeDoes
<1> QED
  BY <1>1, <1>3, <1>7, <1>8, <1>9, ShownKeeps DEF KeepsPlace

LEMMA NotesKeep == ASSUME ClientInv, c.up, OnNotes PROVE ClientInv' /\ KeepsPlace(c, c')
<1> DEFINE told == [c EXCEPT !.notes = TRUE]
           woke == Wake(told)
           near == UpdateBoardProximity(woke)
<1>1. c \in Client /\ ~c.running /\ c.idle = ~c.away /\ AtBoard(c) /\ drawn \in BOOLEAN
  BY Here DEF ClientInv
<1>2. Handled(near) \/ Handled(c)
  BY DEF OnNotes
<1>3. CASE Handled(c)
  BY <1>1, <1>3 DEF Handled, ClientInv, KeepsPlace
<1>4. CASE Handled(near)
  <2>1. /\ told \in Client /\ KeepsPlace(c, told) /\ KeepsIdle(c, told)
        /\ told.chatOpen = c.chatOpen /\ told.chatByWalk = c.chatByWalk
    <3>1. c \in Client
      BY <1>1
    <3> QED
      BY <3>1 DEF Client, KeepsPlace, KeepsIdle
  <2> HIDE DEF told
  <2>2. /\ woke \in Client /\ KeepsPlace(told, woke) /\ KeepsIdle(told, woke)
        /\ KeepsBoard(told, woke) /\ Woken(told, woke)
    BY <2>1, WakeDoes
  <2> HIDE DEF woke
  <2>3. woke.chatByWalk => woke.chatOpen
    BY <1>1, <2>1, <2>2 DEF KeepsBoard, AtBoard
  <2>4. /\ near \in Client /\ KeepsPlace(woke, near) /\ KeepsIdle(woke, near) /\ AtBoard(near)
        /\ KeepsLoop(woke, near) \/ Woken(woke, near)
    BY <2>2, <2>3, BoardDoes
  <2> HIDE DEF near
  <2>5. KeepsPlace(c, near) /\ near.idle = ~near.away
    BY <1>1, <2>1, <2>2, <2>4 DEF KeepsPlace, KeepsIdle
  <2>6. Woken(c, near)
    BY <1>1, <2>1, <2>2, <2>4, <2>5 DEF Woken, KeepsLoop, KeepsPlace
  <2>7. c' = near /\ drawn' \in BOOLEAN
    BY <1>4 DEF Handled
  <2> QED
    BY <2>4, <2>5, <2>6, <2>7, WokenKeeps
<1> QED
  BY <1>2, <1>3, <1>4

(***************************************************************************)
(* What is on its way.                                                     *)
(***************************************************************************)
LEMMA TailIs ==
  ASSUME NEW S, NEW q \in Seq(S), q # <<>>
  PROVE  /\ Tail(q) \in Seq(S) /\ Head(q) = q[1] /\ Head(q) \in S /\ 1 \in DOMAIN q
         /\ \A i \in DOMAIN Tail(q) : i \in Nat \ {0} /\ i + 1 \in DOMAIN q /\ Tail(q)[i] = q[i + 1]
         /\ \A k \in DOMAIN q : k \in Nat \ {0} /\ (k = 1 \/ k - 1 \in DOMAIN Tail(q))
<1>1. Len(q) \in Nat /\ DOMAIN q = 1 .. Len(q) /\ Len(q) # 0
  BY LenProperties, EmptySeq
<1>2. /\ Tail(q) \in Seq(S) /\ Len(Tail(q)) = Len(q) - 1 /\ Head(q) = q[1] /\ Head(q) \in S
      /\ \A i \in 1 .. Len(Tail(q)) : Tail(q)[i] = q[i + 1]
  BY <1>1, HeadTailProperties, ElementOfSeq
<1>3. DOMAIN Tail(q) = 1 .. Len(q) - 1
  BY <1>1, <1>2, LenProperties
<1> QED
  BY <1>1, <1>2, <1>3

LEMMA AppendIs ==
  ASSUME NEW S, NEW q \in Seq(S), NEW x \in S
  PROVE  /\ Append(q, x) \in Seq(S)
         /\ \E n \in Nat \ {0} :
              /\ DOMAIN q = 1 .. n - 1 /\ DOMAIN Append(q, x) = 1 .. n
              /\ \A i \in DOMAIN q : Append(q, x)[i] = q[i]
              /\ Append(q, x)[n] = x
<1>1. Len(q) \in Nat /\ DOMAIN q = 1 .. Len(q)
  BY LenProperties
<1>2. /\ Append(q, x) \in Seq(S) /\ Len(Append(q, x)) = Len(q) + 1
      /\ \A i \in 1 .. Len(q) : Append(q, x)[i] = q[i]
      /\ Append(q, x)[Len(q) + 1] = x
  BY AppendProperties
<1>3. DOMAIN Append(q, x) = 1 .. Len(q) + 1
  BY <1>2, LenProperties
<1>4. Len(q) + 1 \in Nat \ {0} /\ DOMAIN q = 1 .. (Len(q) + 1) - 1
  BY <1>1
<1> QED
  BY <1>2, <1>3, <1>4

LEMMA TwoMore ==
  ASSUME NEW S, NEW q \in Seq(S), NEW x \in S, NEW y \in S
  PROVE  /\ q \o <<x, y>> \in Seq(S)
         /\ \E n \in Nat \ {0} :
              /\ DOMAIN q = 1 .. n - 1 /\ DOMAIN (q \o <<x, y>>) = 1 .. n + 1
              /\ \A i \in DOMAIN q : (q \o <<x, y>>)[i] = q[i]
              /\ (q \o <<x, y>>)[n] = x /\ (q \o <<x, y>>)[n + 1] = y
<1> DEFINE two == <<x, y>>
<1>1. two \in Seq(S) /\ Len(two) = 2 /\ two[1] = x /\ two[2] = y
  OBVIOUS
<1> HIDE DEF two
<1>2. Len(q) \in Nat /\ DOMAIN q = 1 .. Len(q)
  BY LenProperties
<1>3. /\ q \o two \in Seq(S) /\ Len(q \o two) = Len(q) + 2
      /\ \A i \in 1 .. Len(q) + 2 :
           (q \o two)[i] = IF i <= Len(q) THEN q[i] ELSE two[i - Len(q)]
  <2>1. two \in Seq(S)
    BY <1>1
  <2>2. /\ q \o two \in Seq(S) /\ Len(q \o two) = Len(q) + Len(two)
        /\ \A i \in 1 .. Len(q) + Len(two) :
             (q \o two)[i] = IF i <= Len(q) THEN q[i] ELSE two[i - Len(q)]
    BY <2>1, ConcatProperties
  <2> QED
    BY <1>1, <2>2
<1>4. DOMAIN (q \o two) = 1 .. Len(q) + 2
  BY <1>3, LenProperties
<1>5. /\ \A i \in 1 .. Len(q) : (q \o two)[i] = q[i]
      /\ (q \o two)[Len(q) + 1] = x /\ (q \o two)[Len(q) + 2] = y
  BY <1>1, <1>2, <1>3
<1>6. /\ Len(q) + 1 \in Nat \ {0} /\ DOMAIN q = 1 .. (Len(q) + 1) - 1
      /\ (Len(q) + 1) + 1 = Len(q) + 2
  BY <1>2
<1> QED
  BY <1>2, <1>3, <1>4, <1>5, <1>6 DEF two

LEMMA NetStarts ==
  ASSUME NetInv, NEW s \in Spaces, NEW p \in Spawns, NEW peer, StartSession(s, p, peer),
         c'.up, c'.space = s, c'.sent = p
  PROVE  NetInv'
<1> DEFINE m == [t |-> "notes", space |-> s]
<1>1. p \in Places
  BY FloorAssumption DEF Places
<1>2. /\ toServer = <<>> /\ toServer' = <<>> /\ toClient' = <<m>> /\ crossed' = crossed
      /\ srv' = [space |-> s, pos |-> p]
  BY DEF StartSession, NetInv
<1>3. m \in ToClient /\ m.t # "snapshot"
  BY DEF ToClient
<1> HIDE DEF m
<1>4. toClient' \in Seq(ToClient) /\ \A i \in DOMAIN toClient' : toClient'[i] = m
  BY <1>2, <1>3
<1>5. \A i \in DOMAIN toClient' : ~IsSnap(i)'
  BY <1>3, <1>4 DEF IsSnap
<1>6. toServer' \in Seq(ToServer) /\ DOMAIN toServer' = {}
  BY <1>2
<1>7. SpaceFollows'
  BY <1>2, <1>5 DEF SpaceFollows, LastSnap
<1>8. PosFollows'
  BY <1>2, <1>5, <1>6 DEF PosFollows, LastSnap, IsMove
<1> QED
  BY <1>1, <1>2, <1>4, <1>6, <1>7, <1>8 DEF NetInv

LEMMA NetEnds == ASSUME TeardownSession, ~c'.up PROVE NetInv'
<1>1. 0 \in Places
  BY FloorAssumption DEF Places
<1>2. /\ toServer' = <<>> /\ toClient' = <<>> /\ crossed' = FALSE
      /\ srv' = [space |-> Nil, pos |-> 0]
  BY DEF TeardownSession
<1>3. toServer' \in Seq(ToServer) /\ toClient' \in Seq(ToClient)
  BY <1>2
<1>4. SpaceFollows' /\ PosFollows'
  BY DEF SpaceFollows, PosFollows
<1> QED
  BY <1>1, <1>2, <1>3, <1>4 DEF NetInv

(* A move that crosses nothing goes after moves only.                      *)
LEMMA NetAtSend ==
  ASSUME NetInv, c.up, NEW walked \in Client, Send(walked), UNCHANGED <<srv, toClient>>,
         c'.up, c'.space = c.space, c'.sent = walked.pos
  PROVE  NetInv'
<1> DEFINE m == [t |-> "move", pos |-> walked.pos]
<1>1. m \in ToServer /\ m.t = "move" /\ m.pos = walked.pos
  BY DEF ToServer, Client
<1>2. toServer' = Append(toServer, m) /\ crossed' = EnterInFlight /\ toServer \in Seq(ToServer)
  BY DEF Send, NetInv
<1> HIDE DEF m
<1>3. /\ toServer' \in Seq(ToServer)
      /\ \E n \in Nat \ {0} :
           /\ DOMAIN toServer = 1 .. n - 1 /\ DOMAIN toServer' = 1 .. n
           /\ \A i \in DOMAIN toServer : toServer'[i] = toServer[i]
           /\ toServer'[n] = m
  BY <1>1, <1>2, AppendIs
<1>4. PICK n \in Nat \ {0} :
        /\ DOMAIN toServer = 1 .. n - 1 /\ DOMAIN toServer' = 1 .. n
        /\ \A i \in DOMAIN toServer : toServer'[i] = toServer[i]
        /\ toServer'[n] = m
  BY <1>3
<1>5. SpaceFollows'
  BY DEF NetInv, SpaceFollows, LastSnap, IsSnap
<1>6. ASSUME ~EnterInFlight
      PROVE  /\ \A i \in DOMAIN toServer' : IsMove(i)'
             /\ \A k \in DOMAIN toClient : ~IsSnap(k)'
  <2>1. ASSUME NEW i \in DOMAIN toServer PROVE toServer[i].t = "move"
    <3>1. toServer[i] \in ToServer
      BY <1>2, ElementOfSeq, LenProperties
    <3> QED
      BY <1>6, <3>1 DEF EnterInFlight, ToServer
  <2>2. ASSUME NEW i \in DOMAIN toServer' PROVE IsMove(i)'
    <3>1. CASE i = n
      BY <1>1, <1>4, <3>1 DEF IsMove
    <3>2. CASE i # n
      BY <1>4, <2>1, <3>2 DEF IsMove
    <3> QED
      BY <3>1, <3>2
  <2>3. \A k \in DOMAIN toClient : ~IsSnap(k)'
    BY <1>6 DEF EnterInFlight, IsSnap
  <2> QED
    BY <2>2, <2>3
<1>7. PosFollows'
  <2> SUFFICES ASSUME ~EnterInFlight
               PROVE  PosFollows'
    BY <1>2 DEF PosFollows
  <2>1. n \in DOMAIN toServer' /\ \A i \in DOMAIN toServer' : i <= n /\ i \in Nat
    BY <1>4
  <2>2. \A i \in DOMAIN toServer' : LastMove(i)' => i = n
    BY <1>6, <2>1 DEF LastMove
  <2>3. \A i \in DOMAIN toServer' : LastMove(i)' => toServer'[i].pos = c'.sent
    BY <1>1, <1>4, <2>2
  <2> QED
    BY <1>6, <2>1, <2>3 DEF PosFollows, LastSnap
<1>8. crossed' \in BOOLEAN
  BY <1>2 DEF EnterInFlight
<1> QED
  BY <1>3, <1>5, <1>7, <1>8 DEF NetInv

LEMMA NetAtAsk ==
  ASSUME NetInv, c.up, NEW s \in Spaces,
         toServer' = Append(toServer, [t |-> "enter", space |-> s]),
         UNCHANGED <<srv, toClient, crossed>>,
         c'.up = c.up, c'.space = c.space, c'.sent = c.sent
  PROVE  NetInv'
<1> DEFINE m == [t |-> "enter", space |-> s]
<1>1. m \in ToServer /\ m.t # "move" /\ toServer \in Seq(ToServer)
  BY DEF ToServer, NetInv
<1> HIDE DEF m
<1>2. toServer' = Append(toServer, m)
  BY DEF m
<1>3. /\ toServer' \in Seq(ToServer)
      /\ \E n \in Nat \ {0} :
           /\ DOMAIN toServer = 1 .. n - 1 /\ DOMAIN toServer' = 1 .. n
           /\ \A i \in DOMAIN toServer : toServer'[i] = toServer[i]
           /\ toServer'[n] = m
  <2>1. toServer \in Seq(ToServer) /\ m \in ToServer
    BY <1>1
  <2>2. /\ Append(toServer, m) \in Seq(ToServer)
        /\ \E n \in Nat \ {0} :
             /\ DOMAIN toServer = 1 .. n - 1 /\ DOMAIN Append(toServer, m) = 1 .. n
             /\ \A i \in DOMAIN toServer : Append(toServer, m)[i] = toServer[i]
             /\ Append(toServer, m)[n] = m
    BY <2>1, AppendIs
  <2> QED
    BY <1>2, <2>2
<1>4. PICK n \in Nat \ {0} :
        /\ DOMAIN toServer = 1 .. n - 1 /\ DOMAIN toServer' = 1 .. n
        /\ \A i \in DOMAIN toServer : toServer'[i] = toServer[i]
        /\ toServer'[n] = m
  BY <1>3
<1>5. \A i : IsSnap(i)' <=> IsSnap(i)
  BY DEF IsSnap
<1>6. \A i : IsMove(i)' <=> IsMove(i)
  BY <1>1, <1>4 DEF IsMove
<1>7. \A i : IsMove(i) => i \in DOMAIN toServer /\ i \in DOMAIN toServer'
  BY <1>4 DEF IsMove
<1>8. \A i : LastMove(i)' => LastMove(i)
  BY <1>6, <1>7 DEF LastMove
<1>9. \A i : LastSnap(i)' => LastSnap(i)
  BY <1>5 DEF LastSnap
<1>10. SpaceFollows'
  BY <1>5, <1>9 DEF NetInv, SpaceFollows
<1>11. PosFollows'
  <2> SUFFICES ASSUME ~crossed PROVE PosFollows'
    BY DEF PosFollows
  <2>1. /\ \A i, k \in DOMAIN toServer : i < k /\ IsMove(k) => IsMove(i)
        /\ (\E i \in DOMAIN toServer : IsMove(i)) => \A k \in DOMAIN toClient : ~IsSnap(k)
        /\ \A i \in DOMAIN toServer : LastMove(i) => toServer[i].pos = c.sent
        /\ (\A i \in DOMAIN toServer : ~IsMove(i)) /\ (\A k \in DOMAIN toClient : ~IsSnap(k))
             => srv.pos = c.sent
        /\ \A k \in DOMAIN toClient : LastSnap(k) => toClient[k].pos = srv.pos
    BY DEF NetInv, PosFollows
  <2>2. \A i, k \in DOMAIN toServer' : i < k /\ IsMove(k)' => IsMove(i)'
    <3>1. \A i, k \in DOMAIN toServer' : i < k /\ k \in DOMAIN toServer => i \in DOMAIN toServer
      BY <1>4
    <3> QED
      BY <1>6, <1>7, <2>1, <3>1
  <2>3. \A i \in DOMAIN toServer' : LastMove(i)' => toServer'[i].pos = c.sent
    BY <1>4, <1>8, <2>1 DEF LastMove, IsMove
  <2> QED
    BY <1>5, <1>6, <1>7, <1>9, <2>1, <2>2, <2>3 DEF PosFollows
<1> QED
  BY <1>3, <1>10, <1>11 DEF NetInv

(* The server reads: the next message of ours, and what it makes of it.    *)
LEMMA ServerReadsIs ==
  ASSUME NetInv, ServerReads
  PROVE  /\ c.up /\ toServer' \in Seq(ToServer) /\ Head(toServer) = toServer[1]
         /\ Head(toServer) \in ToServer /\ 1 \in DOMAIN toServer
         /\ \A i \in DOMAIN toServer' :
              i \in Nat \ {0} /\ i + 1 \in DOMAIN toServer /\ toServer'[i] = toServer[i + 1]
         /\ \A k \in DOMAIN toServer : k \in Nat \ {0} /\ (k = 1 \/ k - 1 \in DOMAIN toServer')
<1>1. toServer \in Seq(ToServer) /\ toServer # <<>> /\ toServer' = Tail(toServer) /\ c.up
  BY DEF NetInv, ServerReads
<1>2. toServer \in Seq(ToServer) /\ toServer # <<>>
  BY <1>1
<1>3. /\ Tail(toServer) \in Seq(ToServer) /\ Head(toServer) = toServer[1]
      /\ Head(toServer) \in ToServer /\ 1 \in DOMAIN toServer
      /\ \A i \in DOMAIN Tail(toServer) :
           i \in Nat \ {0} /\ i + 1 \in DOMAIN toServer /\ Tail(toServer)[i] = toServer[i + 1]
      /\ \A k \in DOMAIN toServer : k \in Nat \ {0} /\ (k = 1 \/ k - 1 \in DOMAIN Tail(toServer))
  BY <1>2, TailIs
<1> QED
  BY <1>1, <1>3

LEMMA MovesOfTail ==
  ASSUME NetInv, ServerReads
  PROVE  /\ \A i \in DOMAIN toServer' : IsMove(i)' <=> IsMove(i + 1)
         /\ \A i \in DOMAIN toServer' : LastMove(i)' => LastMove(i + 1)
         /\ IsMove(1) /\ (\A i \in DOMAIN toServer' : ~IsMove(i)') => LastMove(1)
<1>1. /\ \A i \in DOMAIN toServer' :
           i \in Nat \ {0} /\ i + 1 \in DOMAIN toServer /\ toServer'[i] = toServer[i + 1]
      /\ \A k \in DOMAIN toServer : k \in Nat \ {0} /\ (k = 1 \/ k - 1 \in DOMAIN toServer')
      /\ 1 \in DOMAIN toServer
  BY ServerReadsIs
<1>2. \A i \in DOMAIN toServer' : IsMove(i)' <=> IsMove(i + 1)
  BY <1>1 DEF IsMove
<1>3. \A k \in DOMAIN toServer : k # 1 => k - 1 \in DOMAIN toServer' /\ (k - 1) + 1 = k
  BY <1>1
<1>4. \A k \in DOMAIN toServer : k # 1 /\ IsMove(k) => IsMove(k - 1)'
  BY <1>2, <1>3
<1>5. ASSUME NEW i \in DOMAIN toServer', LastMove(i)' PROVE LastMove(i + 1)
  <2>1. IsMove(i + 1) /\ i \in Nat \ {0}
    BY <1>1, <1>2, <1>5 DEF LastMove
  <2>2. ASSUME NEW k \in DOMAIN toServer, IsMove(k) PROVE k <= i + 1
    <3>1. CASE k = 1
      BY <2>1, <3>1
    <3>2. CASE k # 1
      <4>1. k - 1 <= i
        BY <1>3, <1>4, <1>5, <2>2, <3>2 DEF LastMove
      <4> QED
        BY <1>1, <2>1, <4>1
    <3> QED
      BY <3>1, <3>2
  <2> QED
    BY <2>1, <2>2 DEF LastMove
<1>6. ASSUME IsMove(1), \A i \in DOMAIN toServer' : ~IsMove(i)' PROVE LastMove(1)
  BY <1>1, <1>3, <1>4, <1>6 DEF LastMove
<1> QED
  BY <1>2, <1>5, <1>6

LEMMA NetAtSetPos ==
  ASSUME NetInv, SetPos PROVE NetInv' /\ c' = c
<1>1. /\ c' = c /\ crossed' = crossed /\ toClient' = toClient /\ ServerReads
      /\ Head(toServer).t = "move" /\ srv' = [srv EXCEPT !.pos = Head(toServer).pos]
  BY DEF SetPos, ServerReads
<1>2. /\ c.up /\ toServer' \in Seq(ToServer) /\ Head(toServer) = toServer[1]
      /\ Head(toServer) \in ToServer /\ 1 \in DOMAIN toServer
      /\ \A i \in DOMAIN toServer' :
           i \in Nat \ {0} /\ i + 1 \in DOMAIN toServer /\ toServer'[i] = toServer[i + 1]
  BY <1>1, ServerReadsIs
<1>3. /\ \A i \in DOMAIN toServer' : IsMove(i)' <=> IsMove(i + 1)
      /\ \A i \in DOMAIN toServer' : LastMove(i)' => LastMove(i + 1)
      /\ IsMove(1) /\ (\A i \in DOMAIN toServer' : ~IsMove(i)') => LastMove(1)
  BY <1>1, MovesOfTail
<1>4. IsMove(1) /\ Head(toServer).pos \in Places
  BY <1>1, <1>2 DEF IsMove, ToServer
<1>5. /\ srv' \in [space : Spaces \union {Nil}, pos : Places]
      /\ srv'.pos = Head(toServer).pos /\ srv'.space = srv.space
  BY <1>1, <1>4 DEF NetInv
<1>6. /\ \A i : IsSnap(i)' <=> IsSnap(i)
      /\ \A i : LastSnap(i)' <=> LastSnap(i)
  BY <1>1 DEF IsSnap, LastSnap
<1>7. SpaceFollows'
  BY <1>1, <1>5, <1>6 DEF NetInv, SpaceFollows
<1>8. PosFollows'
  <2> SUFFICES ASSUME ~crossed PROVE PosFollows'
    BY <1>1 DEF PosFollows
  <2>1. /\ \A i, k \in DOMAIN toServer : i < k /\ IsMove(k) => IsMove(i)
        /\ (\E i \in DOMAIN toServer : IsMove(i)) => \A k \in DOMAIN toClient : ~IsSnap(k)
        /\ \A i \in DOMAIN toServer : LastMove(i) => toServer[i].pos = c.sent
    BY <1>2 DEF NetInv, PosFollows
  <2>2. \A k \in DOMAIN toClient' : ~IsSnap(k)'
    BY <1>1, <1>2, <1>4, <1>6, <2>1
  <2>3. \A i, k \in DOMAIN toServer' : i < k /\ IsMove(k)' => IsMove(i)'
    <3>1. \A i, k \in DOMAIN toServer' : i < k => i + 1 < k + 1
      BY <1>2
    <3> QED
      BY <1>2, <1>3, <2>1, <3>1
  <2>4. \A i \in DOMAIN toServer' : LastMove(i)' => toServer'[i].pos = c'.sent
    BY <1>1, <1>2, <1>3, <2>1
  <2>5. (\A i \in DOMAIN toServer' : ~IsMove(i)') => srv'.pos = c'.sent
    BY <1>1, <1>2, <1>3, <1>4, <1>5, <2>1
  <2> QED
    BY <2>2, <2>3, <2>4, <2>5 DEF PosFollows, LastSnap
<1> QED
  BY <1>1, <1>2, <1>5, <1>7, <1>8 DEF NetInv

LEMMA NetAtEnter ==
  ASSUME NetInv, NEW spawn \in Spawns, NEW full \in BOOLEAN, EnterSpace(spawn, full)
  PROVE  NetInv' /\ c' = c /\ drawn' = drawn
<1> DEFINE to == Head(toServer).space
           snap == [t |-> "snapshot", space |-> to, pos |-> srv'.pos]
           notes == [t |-> "notes", space |-> to]
<1>1. /\ c' = c /\ drawn' = drawn /\ crossed' = crossed /\ ServerReads
      /\ Head(toServer).t = "enter" /\ (full => to # srv.space)
      /\ srv' = IF to = srv.space \/ full THEN srv ELSE [space |-> to, pos |-> spawn]
      /\ toClient' = IF full THEN toClient ELSE toClient \o <<snap, notes>>
  BY DEF EnterSpace, ServerReads
<1>2. /\ c.up /\ toServer' \in Seq(ToServer) /\ Head(toServer) = toServer[1]
      /\ Head(toServer) \in ToServer /\ 1 \in DOMAIN toServer
      /\ \A i \in DOMAIN toServer' :
           i \in Nat \ {0} /\ i + 1 \in DOMAIN toServer /\ toServer'[i] = toServer[i + 1]
  BY <1>1, ServerReadsIs
<1>3. \A i \in DOMAIN toServer' : IsMove(i)' <=> IsMove(i + 1)
  BY <1>1, MovesOfTail
<1>4. to \in Spaces /\ ~IsMove(1) /\ spawn \in Places
  BY <1>1, <1>2, FloorAssumption DEF IsMove, ToServer, Places
<1>5. srv' \in [space : Spaces \union {Nil}, pos : Places]
  BY <1>1, <1>4 DEF NetInv
<1>6. ASSUME ~crossed
      PROVE  /\ \A i \in DOMAIN toServer : ~IsMove(i)
             /\ \A i \in DOMAIN toServer' : ~IsMove(i)' /\ ~LastMove(i)'
  <2>1. \A i, k \in DOMAIN toServer : i < k /\ IsMove(k) => IsMove(i)
    BY <1>2, <1>6 DEF NetInv, PosFollows
  <2>2. \A k \in DOMAIN toServer : k \in Nat \ {0}
    BY <1>1, ServerReadsIs
  <2>3. \A k \in DOMAIN toServer : ~IsMove(k)
    BY <1>2, <1>4, <2>1, <2>2
  <2> QED
    BY <1>2, <1>3, <2>3 DEF LastMove
<1>7. CASE full
  <2>1. srv' = srv /\ toClient' = toClient
    BY <1>1, <1>7
  <2>2. /\ \A i : IsSnap(i)' <=> IsSnap(i)
        /\ \A i : LastSnap(i)' <=> LastSnap(i)
    BY <2>1 DEF IsSnap, LastSnap
  <2>3. SpaceFollows'
    BY <1>1, <2>1, <2>2 DEF NetInv, SpaceFollows
  <2>4. PosFollows'
    <3> SUFFICES ASSUME ~crossed PROVE PosFollows'
      BY <1>1 DEF PosFollows
    <3>1. /\ (\A k \in DOMAIN toClient : ~IsSnap(k)) => srv.pos = c.sent
          /\ \A k \in DOMAIN toClient : LastSnap(k) => toClient[k].pos = srv.pos
      BY <1>2, <1>6 DEF NetInv, PosFollows
    <3> QED
      BY <1>1, <1>6, <2>1, <2>2, <3>1 DEF PosFollows
  <2> QED
    BY <1>1, <1>2, <1>5, <2>1, <2>3, <2>4 DEF NetInv
<1>8. CASE ~full
  <2>1. srv'.space = to /\ srv'.pos \in Places
    BY <1>1, <1>4, <1>5, <1>8
  <2>2. snap \in ToClient /\ notes \in ToClient /\ toClient \in Seq(ToClient)
    BY <1>4, <2>1 DEF ToClient, NetInv
  <2>3. /\ snap.t = "snapshot" /\ snap.space = to /\ snap.pos = srv'.pos
        /\ notes.t = "notes" /\ toClient' = toClient \o <<snap, notes>>
    BY <1>1, <1>8
  <2> HIDE DEF snap, notes, to
  <2>4. /\ toClient \o <<snap, notes>> \in Seq(ToClient)
        /\ \E n \in Nat \ {0} :
             /\ DOMAIN toClient = 1 .. n - 1 /\ DOMAIN (toClient \o <<snap, notes>>) = 1 .. n + 1
             /\ \A i \in DOMAIN toClient : (toClient \o <<snap, notes>>)[i] = toClient[i]
             /\ (toClient \o <<snap, notes>>)[n] = snap
             /\ (toClient \o <<snap, notes>>)[n + 1] = notes
    BY <2>2, TwoMore
  <2>5. PICK n \in Nat \ {0} :
          /\ DOMAIN toClient' = 1 .. n + 1 /\ toClient'[n] = snap /\ toClient'[n + 1] = notes
    BY <2>3, <2>4
  <2>6. n \in DOMAIN toClient' /\ IsSnap(n)'
    BY <2>3, <2>5 DEF IsSnap
  <2>7. \A k \in DOMAIN toClient' : LastSnap(k)' => k = n
    <3> SUFFICES ASSUME NEW k \in DOMAIN toClient', LastSnap(k)' PROVE k = n
      OBVIOUS
    <3>1. k \in 1 .. n + 1 /\ n <= k
      BY <2>5, <2>6 DEF LastSnap
    <3>2. k # n + 1
      BY <2>3, <2>5 DEF LastSnap, IsSnap
    <3> QED
      BY <3>1, <3>2
  <2>8. SpaceFollows'
    BY <2>1, <2>3, <2>5, <2>6, <2>7 DEF SpaceFollows
  <2>9. PosFollows'
    <3> SUFFICES ASSUME ~crossed PROVE PosFollows'
      BY <1>1 DEF PosFollows
    <3>1. \A k \in DOMAIN toClient' : LastSnap(k)' => toClient'[k].pos = srv'.pos
      BY <2>3, <2>5, <2>7
    <3> QED
      BY <1>6, <2>6, <3>1 DEF PosFollows
  <2> QED
    BY <1>1, <1>2, <1>5, <2>3, <2>4, <2>8, <2>9 DEF NetInv
<1> QED
  BY <1>1, <1>7, <1>8

(* The client reads.                                                       *)
LEMMA ClientReadsIs ==
  ASSUME NetInv, NEW t, ClientReads(t)
  PROVE  /\ c.up /\ toClient' \in Seq(ToClient) /\ Head(toClient) = toClient[1]
         /\ Head(toClient) \in ToClient /\ 1 \in DOMAIN toClient /\ Head(toClient).t = t
         /\ \A i \in DOMAIN toClient' : toClient'[i] = toClient[i + 1]
         /\ \A i \in DOMAIN toClient' : i + 1 \in DOMAIN toClient
         /\ \A i \in DOMAIN toClient' : IsSnap(i)' <=> IsSnap(i + 1)
         /\ \A i \in DOMAIN toClient' : LastSnap(i)' => LastSnap(i + 1)
         /\ IsSnap(1) /\ (\A i \in DOMAIN toClient' : ~IsSnap(i)') => LastSnap(1)
         /\ ~IsSnap(1) /\ (\A i \in DOMAIN toClient' : ~IsSnap(i)')
              => \A k \in DOMAIN toClient : ~IsSnap(k)
<1>1. /\ toClient \in Seq(ToClient) /\ toClient # <<>> /\ toClient' = Tail(toClient) /\ c.up
      /\ Head(toClient).t = t
  BY DEF NetInv, ClientReads
<1>2. toClient \in Seq(ToClient) /\ toClient # <<>>
  BY <1>1
<1>3. /\ Tail(toClient) \in Seq(ToClient) /\ Head(toClient) = toClient[1]
      /\ Head(toClient) \in ToClient /\ 1 \in DOMAIN toClient
      /\ \A i \in DOMAIN Tail(toClient) :
           i \in Nat \ {0} /\ i + 1 \in DOMAIN toClient /\ Tail(toClient)[i] = toClient[i + 1]
      /\ \A k \in DOMAIN toClient : k \in Nat \ {0} /\ (k = 1 \/ k - 1 \in DOMAIN Tail(toClient))
  BY <1>2, TailIs
<1>4. /\ \A i \in DOMAIN toClient' :
           i \in Nat \ {0} /\ i + 1 \in DOMAIN toClient /\ toClient'[i] = toClient[i + 1]
      /\ \A k \in DOMAIN toClient : k \in Nat \ {0} /\ (k = 1 \/ k - 1 \in DOMAIN toClient')
      /\ 1 \in DOMAIN toClient
  BY <1>1, <1>3
<1>5. \A i \in DOMAIN toClient' : IsSnap(i)' <=> IsSnap(i + 1)
  BY <1>4 DEF IsSnap
<1>6. \A k \in DOMAIN toClient : k # 1 => k - 1 \in DOMAIN toClient' /\ (k - 1) + 1 = k
  BY <1>4
<1>7. \A k \in DOMAIN toClient : k # 1 /\ IsSnap(k) => IsSnap(k - 1)'
  BY <1>5, <1>6
<1>8. ASSUME NEW i \in DOMAIN toClient', LastSnap(i)' PROVE LastSnap(i + 1)
  <2>1. IsSnap(i + 1) /\ i \in Nat \ {0}
    BY <1>4, <1>5, <1>8 DEF LastSnap
  <2>2. ASSUME NEW k \in DOMAIN toClient, IsSnap(k) PROVE k <= i + 1
    <3>1. CASE k = 1
      BY <2>1, <3>1
    <3>2. CASE k # 1
      <4>1. k - 1 <= i
        BY <1>6, <1>7, <1>8, <2>2, <3>2 DEF LastSnap
      <4> QED
        BY <1>4, <2>1, <4>1
    <3> QED
      BY <3>1, <3>2
  <2> QED
    BY <2>1, <2>2 DEF LastSnap
<1>9. ASSUME IsSnap(1), \A i \in DOMAIN toClient' : ~IsSnap(i)' PROVE LastSnap(1)
  BY <1>4, <1>6, <1>7, <1>9 DEF LastSnap
<1>10. ASSUME ~IsSnap(1), \A i \in DOMAIN toClient' : ~IsSnap(i)'
       PROVE  \A k \in DOMAIN toClient : ~IsSnap(k)
  BY <1>6, <1>7, <1>10
<1> QED
  BY <1>1, <1>3, <1>4, <1>5, <1>8, <1>9, <1>10

LEMMA NetAtSnapshot ==
  ASSUME NetInv, ClientReads("snapshot"),
         c'.up, c'.space = Head(toClient).space, c'.sent = Head(toClient).pos
  PROVE  NetInv'
<1>1. /\ c.up /\ toClient' \in Seq(ToClient) /\ Head(toClient) = toClient[1]
      /\ 1 \in DOMAIN toClient /\ Head(toClient).t = "snapshot"
      /\ \A i \in DOMAIN toClient' : toClient'[i] = toClient[i + 1]
      /\ \A i \in DOMAIN toClient' : i + 1 \in DOMAIN toClient
      /\ \A i \in DOMAIN toClient' : IsSnap(i)' <=> IsSnap(i + 1)
      /\ \A i \in DOMAIN toClient' : LastSnap(i)' => LastSnap(i + 1)
      /\ IsSnap(1) /\ (\A i \in DOMAIN toClient' : ~IsSnap(i)') => LastSnap(1)
  BY ClientReadsIs
<1>2. UNCHANGED <<srv, toServer, crossed>>
  BY DEF ClientReads
<1>3. IsSnap(1) /\ (\A i : IsMove(i)' <=> IsMove(i))
  BY <1>1, <1>2 DEF IsSnap, IsMove
<1>4. SpaceFollows'
  <2>1. \A i \in DOMAIN toClient : LastSnap(i) => toClient[i].space = srv.space
    BY <1>1 DEF NetInv, SpaceFollows
  <2> QED
    BY <1>1, <1>2, <1>3, <2>1 DEF SpaceFollows
<1>5. PosFollows'
  <2> SUFFICES ASSUME ~crossed PROVE PosFollows'
    BY <1>2 DEF PosFollows
  <2>1. /\ (\E i \in DOMAIN toServer : IsMove(i)) => \A k \in DOMAIN toClient : ~IsSnap(k)
        /\ \A k \in DOMAIN toClient : LastSnap(k) => toClient[k].pos = srv.pos
    BY <1>1 DEF NetInv, PosFollows
  <2>2. \A i \in DOMAIN toServer' : ~IsMove(i)' /\ ~LastMove(i)'
    BY <1>1, <1>2, <1>3, <2>1 DEF LastMove
  <2>3. (\A i \in DOMAIN toClient' : ~IsSnap(i)') => srv'.pos = c'.sent
    BY <1>1, <1>2, <1>3, <2>1
  <2>4. \A k \in DOMAIN toClient' : LastSnap(k)' => toClient'[k].pos = srv'.pos
    BY <1>1, <1>2, <2>1
  <2> QED
    BY <2>2, <2>3, <2>4 DEF PosFollows
<1> QED
  BY <1>1, <1>2, <1>4, <1>5 DEF NetInv

LEMMA NetAtNotes ==
  ASSUME NetInv, ClientReads("notes"), c'.up = c.up, c'.space = c.space, c'.sent = c.sent
  PROVE  NetInv'
<1>1. /\ c.up /\ toClient' \in Seq(ToClient) /\ Head(toClient) = toClient[1]
      /\ 1 \in DOMAIN toClient /\ Head(toClient).t = "notes"
      /\ \A i \in DOMAIN toClient' : toClient'[i] = toClient[i + 1]
      /\ \A i \in DOMAIN toClient' : i + 1 \in DOMAIN toClient
      /\ \A i \in DOMAIN toClient' : IsSnap(i)' <=> IsSnap(i + 1)
      /\ \A i \in DOMAIN toClient' : LastSnap(i)' => LastSnap(i + 1)
      /\ ~IsSnap(1) /\ (\A i \in DOMAIN toClient' : ~IsSnap(i)')
           => \A k \in DOMAIN toClient : ~IsSnap(k)
  BY ClientReadsIs
<1>2. UNCHANGED <<srv, toServer, crossed>>
  BY DEF ClientReads
<1>3. /\ ~IsSnap(1) /\ (\A i : IsMove(i)' <=> IsMove(i))
      /\ \A i : LastMove(i)' <=> LastMove(i)
  BY <1>1, <1>2 DEF IsSnap, IsMove, LastMove
<1>4. SpaceFollows'
  <2>1. /\ (\A i \in DOMAIN toClient : ~IsSnap(i)) => srv.space = c.space
        /\ \A i \in DOMAIN toClient : LastSnap(i) => toClient[i].space = srv.space
    BY <1>1 DEF NetInv, SpaceFollows
  <2> QED
    BY <1>1, <1>2, <1>3, <2>1 DEF SpaceFollows
<1>5. PosFollows'
  <2> SUFFICES ASSUME ~crossed PROVE PosFollows'
    BY <1>2 DEF PosFollows
  <2>1. /\ \A i, k \in DOMAIN toServer : i < k /\ IsMove(k) => IsMove(i)
        /\ (\E i \in DOMAIN toServer : IsMove(i)) => \A k \in DOMAIN toClient : ~IsSnap(k)
        /\ \A i \in DOMAIN toServer : LastMove(i) => toServer[i].pos = c.sent
        /\ (\A i \in DOMAIN toServer : ~IsMove(i)) /\ (\A k \in DOMAIN toClient : ~IsSnap(k))
             => srv.pos = c.sent
        /\ \A k \in DOMAIN toClient : LastSnap(k) => toClient[k].pos = srv.pos
    BY <1>1 DEF NetInv, PosFollows
  <2>2. (\E i \in DOMAIN toServer' : IsMove(i)') => \A k \in DOMAIN toClient' : ~IsSnap(k)'
    BY <1>1, <1>2, <1>3, <2>1
  <2>3. (\A i \in DOMAIN toServer' : ~IsMove(i)') /\ (\A k \in DOMAIN toClient' : ~IsSnap(k)')
          => srv'.pos = c'.sent
    BY <1>1, <1>2, <1>3, <2>1
  <2>4. \A k \in DOMAIN toClient' : LastSnap(k)' => toClient'[k].pos = srv'.pos
    BY <1>1, <1>2, <2>1
  <2>5. /\ \A i, k \in DOMAIN toServer' : i < k /\ IsMove(k)' => IsMove(i)'
        /\ \A i \in DOMAIN toServer' : LastMove(i)' => toServer'[i].pos = c'.sent
    BY <1>2, <1>3, <2>1
  <2> QED
    BY <2>2, <2>3, <2>4, <2>5 DEF PosFollows
<1> QED
  BY <1>1, <1>2, <1>4, <1>5 DEF NetInv

(***************************************************************************)
(* Every step, and what follows.                                           *)
(***************************************************************************)
LEMMA FloorAtFirst == FloorInit => FloorInv
<1> SUFFICES ASSUME FloorInit PROVE FloorInv
  OBVIOUS
<1>1. c \in ClientType /\ ~c.up /\ ~c.scheduled /\ drawn \in BOOLEAN
  BY DownTyped DEF FloorInit, Down
<1>2. 0 \in Places
  BY FloorAssumption DEF Places
<1>3. toServer = <<>> /\ toClient = <<>> /\ crossed = FALSE /\ srv = [space |-> Nil, pos |-> 0]
  BY DEF FloorInit
<1>4. toServer \in Seq(ToServer) /\ toClient \in Seq(ToClient)
  BY <1>3
<1>5. SpaceFollows /\ PosFollows
  BY <1>1 DEF SpaceFollows, PosFollows
<1> QED
  BY <1>1, <1>2, <1>3, <1>4, <1>5 DEF FloorInv, ClientInv, NetInv

(* What the user does asks nothing of the server, but to switch.           *)
LEMMA UserKeeps ==
  ASSUME FloorInv, ClientInv' /\ KeepsPlace(c, c'), UNCHANGED network PROVE FloorInv'
BY NetStays DEF FloorInv, KeepsPlace

LEMMA AskKeeps == ASSUME FloorInv, NEW s \in Spaces, HandleEnterSpace(s) PROVE FloorInv'
<1>1. c.up /\ ClientInv /\ NetInv /\ Handled(MarkActive(c))
  BY DEF HandleEnterSpace, FloorInv
<1>2. ClientInv' /\ KeepsPlace(c, c')
  BY <1>1, MarkedKeeps
<1>3. NetInv'
  BY <1>1, <1>2, NetAtAsk DEF HandleEnterSpace, KeepsPlace
<1> QED
  BY <1>2, <1>3 DEF FloorInv

LEMMA ServedKeeps ==
  ASSUME FloorInv, NetInv', UNCHANGED <<c, drawn>> PROVE FloorInv'
BY DEF FloorInv, ClientInv

LEMMA SnapshotReadKeeps ==
  ASSUME FloorInv, NEW peer \in PeerPlaces \union {Nil}, OnSpaceSnapshot(peer) PROVE FloorInv'
<1>1. ClientInv /\ NetInv /\ ClientReads("snapshot")
  BY DEF OnSpaceSnapshot, FloorInv
<1>2. c.up /\ Head(toClient) \in ToClient /\ Head(toClient).t = "snapshot"
  BY <1>1, ClientReadsIs
<1>3. Head(toClient).space \in Spaces /\ Head(toClient).pos \in Places
  BY <1>2 DEF ToClient
<1>4. /\ ClientInv' /\ c'.up
      /\ c'.space = Head(toClient).space /\ c'.sent = Head(toClient).pos
  BY <1>1, <1>2, <1>3, SnapshotKeeps
<1>5. NetInv'
  BY <1>1, <1>4, NetAtSnapshot
<1> QED
  BY <1>4, <1>5 DEF FloorInv

LEMMA NotesReadKeeps == ASSUME FloorInv, OnNotes PROVE FloorInv'
<1>1. ClientInv /\ NetInv /\ ClientReads("notes")
  BY DEF OnNotes, FloorInv
<1>2. c.up
  BY <1>1, ClientReadsIs
<1>3. ClientInv' /\ KeepsPlace(c, c')
  BY <1>1, <1>2, NotesKeep
<1>4. NetInv'
  BY <1>1, <1>3, NetAtNotes DEF KeepsPlace
<1> QED
  BY <1>3, <1>4 DEF FloorInv

LEMMA FrameDoneKeeps ==
  ASSUME FloorInv, NEW heard \in {"nothing", "links", "voices", "us"}, Frame(heard)
  PROVE  FloorInv'
<1>1. ClientInv /\ NetInv /\ UNCHANGED <<srv, toClient>>
  BY DEF Frame, FloorInv
<1>2. /\ ClientInv' /\ c.up /\ c'.up /\ c'.space = c.space
      /\ \/ /\ UNCHANGED <<toServer, crossed>> /\ c'.sent = c.sent
         \/ \E walked \in Client : c'.sent = walked.pos /\ Send(walked)
  BY <1>1, FrameKeeps
<1>3. CASE UNCHANGED <<toServer, crossed>> /\ c'.sent = c.sent
  <2>1. c.up \in BOOLEAN /\ c'.up \in BOOLEAN
    BY <1>1, <1>2 DEF ClientInv, ClientType
  <2>2. NetInv'
    BY <1>1, <1>2, <1>3, <2>1, NetStays DEF network
  <2> QED
    BY <1>2, <2>2 DEF FloorInv
<1>4. ASSUME NEW walked \in Client, c'.sent = walked.pos, Send(walked) PROVE FloorInv'
  <2>1. NetInv'
    BY <1>1, <1>2, <1>4, NetAtSend
  <2> QED
    BY <1>2, <2>1 DEF FloorInv
<1> QED
  BY <1>2, <1>3, <1>4

LEMMA FloorNextKeeps == FloorInv /\ [FloorNext]_floorVars => FloorInv'
<1> SUFFICES ASSUME FloorInv, [FloorNext]_floorVars PROVE FloorInv'
  OBVIOUS
<1>1. ClientInv /\ NetInv
  BY DEF FloorInv
<1>2. ASSUME NEW s \in Spaces, NEW p \in Spawns, NEW peer \in PeerPlaces \union {Nil},
             StartSession(s, p, peer)
      PROVE  FloorInv'
  <2>1. ClientInv' /\ c'.up /\ c'.space = s /\ c'.sent = p
    BY <1>2, SessionStarts
  <2>2. NetInv'
    BY <1>1, <1>2, <2>1, NetStarts
  <2> QED
    BY <2>1, <2>2 DEF FloorInv
<1>3. CASE TeardownSession
  BY <1>1, <1>3, SessionEnds, NetEnds DEF FloorInv
<1>4. ASSUME NEW k \in Directions, KeyDown(k) PROVE FloorInv'
  BY <1>1, <1>4, KeyDownKeeps, UserKeeps DEF KeyDown
<1>5. ASSUME NEW k \in Directions, KeyUp(k) PROVE FloorInv'
  BY <1>1, <1>5, KeyUpKeeps, UserKeeps DEF KeyUp
<1>6. ASSUME NEW p \in Clicks, PointerDown(p) PROVE FloorInv'
  BY <1>1, <1>6, PointerKeeps, UserKeeps DEF PointerDown
<1>7. ASSUME NEW p \in Clicks, Drag(p) PROVE FloorInv'
  BY <1>1, <1>7, DragKeeps, UserKeeps DEF Drag
<1>8. ASSUME NEW open \in BOOLEAN, OnSetChatOpen(open) PROVE FloorInv'
  BY <1>1, <1>8, ChatButtonKeeps, UserKeeps DEF OnSetChatOpen
<1>9. ASSUME NEW granted \in BOOLEAN, MicLands(granted) PROVE FloorInv'
  BY <1>1, <1>9, MicLandsKeeps, UserKeeps DEF MicLands
<1>10. ASSUME NEW away \in BOOLEAN, HandleSetStatus(away) PROVE FloorInv'
  BY <1>1, <1>10, StatusKeeps, UserKeeps DEF HandleSetStatus
<1>11. ASSUME NEW s \in Spaces, HandleEnterSpace(s) PROVE FloorInv'
  BY <1>11, AskKeeps
<1>12. ASSUME NEW mic \in {"muted", "asking", "live"}, HandleMicToggle(mic) PROVE FloorInv'
  BY <1>1, <1>12, MicToggleKeeps, UserKeeps DEF HandleMicToggle
<1>13. CASE GoAway
  BY <1>1, <1>13, AwayKeeps, UserKeeps DEF GoAway
<1>14. CASE Repaint
  BY <1>1, <1>14, RepaintKeeps, UserKeeps DEF Repaint
<1>15. CASE SetPos
  BY <1>1, <1>15, NetAtSetPos, ServedKeeps DEF SetPos, ServerReads
<1>16. CASE OnNotes
  BY <1>16, NotesReadKeeps
<1>17. ASSUME NEW p \in Spawns, NEW full \in BOOLEAN, EnterSpace(p, full) PROVE FloorInv'
  BY <1>1, <1>17, NetAtEnter, ServedKeeps
<1>18. ASSUME NEW peer \in PeerPlaces \union {Nil}, OnSpaceSnapshot(peer) PROVE FloorInv'
  BY <1>18, SnapshotReadKeeps
<1>19. ASSUME NEW place \in PeerPlaces \union {Nil}, OnPeer(place) PROVE FloorInv'
  BY <1>1, <1>19, PeerKeeps, UserKeeps DEF OnPeer
<1>20. ASSUME NEW heard \in {"nothing", "links", "voices", "us"}, Frame(heard) PROVE FloorInv'
  BY <1>20, FrameDoneKeeps
<1>21. CASE UNCHANGED floorVars
  <2>1. NetInv'
    BY <1>1, <1>21, NetStays DEF floorVars, network
  <2> QED
    BY <1>21, <2>1, ServedKeeps DEF floorVars
<1> QED
  BY <1>2, <1>3, <1>4, <1>5, <1>6, <1>7, <1>8, <1>9, <1>10, <1>11, <1>12, <1>13, <1>14, <1>15,
     <1>16, <1>17, <1>18, <1>19, <1>20, <1>21 DEF FloorNext

(* FloorInv is inductive.                                                  *)
LEMMA FloorInvariant == FloorSpec => []FloorInv
BY FloorAtFirst, FloorNextKeeps, PTL DEF FloorSpec

(* Asleep the loop shows what is so (wake and runFrame, main.ts): for any  *)
(* width of the space, seats, clicks, peers and rooms.                     *)
THEOREM AsleepIsCurrentCorrect == FloorSpec => []AsleepIsCurrent
<1>1. FloorInv => AsleepIsCurrent
  <2> SUFFICES ASSUME FloorInv, c.up PROVE AsleepIsCurrent
    BY DEF AsleepIsCurrent
  <2>1. Wakeful(c) /\ (drawn \/ c.dirty)
    BY DEF FloorInv, ClientInv
  <2> QED
    BY <2>1 DEF AsleepIsCurrent, Wakeful, HintsCurrent
<1> QED
  BY <1>1, FloorInvariant, PTL

(* At rest the server has us where we are (input.ts), whatever crossed     *)
(* whatever before, but for the last move.                                 *)
THEOREM PeersSeeUsCorrect == FloorSpec => []PeersSeeUs
<1>1. FloorInv => PeersSeeUs
  <2> SUFFICES ASSUME FloorInv, AtRest, ~crossed
               PROVE  srv.space = c.space /\ Dist(srv.pos, c.pos) <= SendEps
    BY DEF PeersSeeUs
  <2>1. /\ NetInv /\ c.up /\ toServer = <<>> /\ c \in ClientType
        /\ Dist(c.pos, c.sent) <= SendEps
    BY DEF FloorInv, ClientInv, Wakeful, AtRest
  <2>2. /\ \A i \in DOMAIN toClient : ~IsSnap(i)
        /\ \A i \in DOMAIN toServer : ~IsMove(i)
    BY <2>1 DEF AtRest, EnterInFlight, IsSnap, IsMove
  <2>3. srv.space = c.space
    BY <2>1, <2>2 DEF NetInv, SpaceFollows
  <2>4. srv.pos = c.sent
    BY <2>1, <2>2 DEF NetInv, PosFollows
  <2>5. c.pos \in Int /\ c.sent \in Int
    BY <2>1, FloorAssumption DEF ClientType, Places
  <2>6. Dist(c.sent, c.pos) = Dist(c.pos, c.sent)
    BY <2>5 DEF Dist
  <2> QED
    BY <2>1, <2>3, <2>4, <2>6
<1> QED
  BY <1>1, FloorInvariant, PTL

(* The board knows whether we stand at it (updateBoardProximity, main.ts). *)
THEOREM ChatAtBoardCorrect == FloorSpec => []ChatAtBoard
<1>1. FloorInv => ChatAtBoard
  BY DEF FloorInv, ClientInv, AtBoard, ChatAtBoard
<1> QED
  BY <1>1, FloorInvariant, PTL
=============================================================================
