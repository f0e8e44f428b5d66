------------------------------ MODULE OrgDesk -------------------------------
(***************************************************************************)
(* What the join card says of the organisation (client/src/main.ts, and    *)
(* the chip, the lock notice and the trial pill of ui.ts): which one the   *)
(* session is anchored in, the others to switch to, and whether its        *)
(* billing locks it.  All three come from requests that outlive the        *)
(* session they were made for, and the lock also from the signaling        *)
(* server's billing gate (server/src/billing.rs), which refuses entry.     *)
(*                                                                         *)
(* Where sessions come from is module SignIn's.  A session is its          *)
(* organisation here; answers that hold the very session object they were  *)
(* asked for are marked once another takes its place.                      *)
(***************************************************************************)
EXTENDS Naturals, Sequences, SequencesExt

CONSTANTS
  Orgs,
  None,
  MaxAsked     (* bound: billing requests in flight                        *)

ASSUME OrgDeskAssumption ==
  /\ None \notin Orgs \union [to : Orgs, crossed : BOOLEAN] \union [of : Orgs, guess : BOOLEAN]
  /\ MaxAsked \in Nat

VARIABLES
  d,        (* the client's memory and screen                              *)
  bills,    (* billing requests in flight, each with its organisation and  *)
            (* the backend's answer                                        *)
  billing,  (* the backend's: [organisation -> "locked", "trial" or "paid"] *)
  gate      (* organisations the server's gate has cached as locked        *)

deskVars == <<d, bills, billing, gate>>

(***************************************************************************)
(* What handlers call.  Each takes the client's memory and returns it.     *)
(***************************************************************************)
(* setOrgList; fewer than two memberships leave the session's own alone.   *)
SetOrgList(v, current) ==
  [v EXCEPT !.listed = current, !.chip = IF current = None THEN v.session ELSE current]

(* setAuthSession renders the chip with the list it has.                   *)
SetAuthSession(v) ==
  IF v.session = None THEN [v EXCEPT !.listed = None, !.chip = None, !.open = FALSE]
  ELSE SetOrgList(v, v.listed)

(* applyBillingLock, with billingLockOrg: the organisation the notice is   *)
(* tagged with, and the status it tells (billingLockStatus): whose it is,  *)
(* and whether it is the guess a refusal starts with.                      *)
ApplyBillingLock(v, org, status) ==
  [v EXCEPT !.lock = org, !.status = status, !.timer = org # None]

(* Mutant of ScheduleBillingRecheck: an auth hiccup ends the poll.         *)
ScheduleNothing(v) == v

ScheduleBillingRecheck(v) == [v EXCEPT !.timer = @ \/ v.lock # None]

(* syncBillingLock, up to its request.                                     *)
SyncBillingLock(v) ==
  IF v.session = None THEN ApplyBillingLock([v EXCEPT !.trial = None], None, None)
  ELSE IF v.lock \notin {None, v.session} THEN ApplyBillingLock(v, None, None)
  ELSE v

Asks(v) == IF v.session = None THEN <<>> ELSE <<[org |-> v.session, answer |-> None]>>

(* reflectSuspension, up to its request, after org was refused: the notice *)
(* is tagged with the organisation held now.                               *)
ReflectSuspension(v, org) ==
  SyncBillingLock(ApplyBillingLock(v, v.session,
    IF v.lock = None THEN [of |-> org, guess |-> TRUE] ELSE v.status))

(* reflectAuthSession, after another session took the place of the old.    *)
Reflected(v) ==
  [SyncBillingLock(SetAuthSession(v)) EXCEPT
     !.listing = v.session # None,
     !.switch = IF @ = None THEN None ELSE [@ EXCEPT !.crossed = TRUE]]

Becomes(org) == Reflected([d EXCEPT !.session = org])

(***************************************************************************)
(* The client.                                                             *)
(***************************************************************************)
Init ==
  /\ d = [session |-> None,
          listed |-> None, listing |-> FALSE,          (* the memberships  *)
          chip |-> None, open |-> FALSE,               (* the chip's menu  *)
          switch |-> None,                             (* orgSwitchPending *)
          lock |-> None, status |-> None, timer |-> FALSE, trial |-> None]
  /\ bills = <<>> /\ gate = {}
  /\ billing \in [Orgs -> {"locked", "trial", "paid"}]

Room == Len(bills) < MaxAsked

(* A sign-in, a handoff or a renewal.                                      *)
Adopt(org) ==
  /\ Room
  /\ d' = Becomes(org) /\ bills' = bills \o Asks(d')
  /\ UNCHANGED <<billing, gate>>

SignOut ==
  /\ d.session # None
  /\ d' = Becomes(None)
  /\ UNCHANGED <<bills, billing, gate>>

(* The list of memberships, or an error, which leaves no switcher.         *)
ListAnswered(known) ==
  /\ d.listing
  /\ d' = SetOrgList([d EXCEPT !.listing = FALSE], IF known THEN d.session ELSE None)
  /\ UNCHANGED <<bills, billing, gate>>

ShowMenu ==
  /\ d.session # None /\ ~d.open
  /\ d.switch = None                                   (* setDisabled      *)
  /\ d' = [d EXCEPT !.open = TRUE]
  /\ UNCHANGED <<bills, billing, gate>>

(* handleSwitchOrg: one at a time, and the menu is frozen meanwhile.       *)
HandleSwitchOrg(v, org) ==
  IF v.switch # None \/ org = v.session THEN v
  ELSE [v EXCEPT !.switch = [to |-> org, crossed |-> FALSE], !.open = FALSE]

(* A row of the chip's menu: the chip shows the choice at once.            *)
Pick(org) ==
  /\ d.open /\ d.listed # None
  /\ d' = LET v == [d EXCEPT !.open = FALSE, !.chip = org]
          IN  IF org = d.chip THEN v ELSE HandleSwitchOrg(v, org)
  /\ UNCHANGED <<bills, billing, gate>>

(* A button of the lock notice, which a re-render leaves enabled.          *)
PickFromLock(org) ==
  /\ d.lock # None /\ d.listed # None /\ org # d.listed
  /\ d' = HandleSwitchOrg(d, org)
  /\ UNCHANGED <<bills, billing, gate>>

SwitchAnswered ==
  /\ d.switch # None /\ Room
  /\ d' = IF d.switch.crossed THEN [d EXCEPT !.switch = None]
          ELSE [Becomes(d.switch.to) EXCEPT !.switch = None]
  /\ bills' = IF d.switch.crossed THEN bills ELSE bills \o Asks(d')
  /\ UNCHANGED <<billing, gate>>

(* Mutant of SwitchRefused: the chip keeps the choice.                     *)
SwitchForgotten ==
  /\ d.switch # None
  /\ d' = [d EXCEPT !.switch = None]
  /\ UNCHANGED <<bills, billing, gate>>

(* The chip snaps back to the organisation still held.                     *)
SwitchRefused ==
  /\ d.switch # None
  /\ d' = LET v == [d EXCEPT !.switch = None]
          IN  IF d.switch.crossed THEN v
              ELSE SetOrgList(v, IF d.listed = None THEN None ELSE d.session)
  /\ UNCHANGED <<bills, billing, gate>>

Status(i) ==
  IF bills[i].answer = "locked" THEN [of |-> bills[i].org, guess |-> FALSE] ELSE None

(* Mutant of BillAnswered: whatever organisation the answer is for.        *)
BillTaken(i) ==
  /\ i \in DOMAIN bills /\ bills[i].answer # None
  /\ bills' = RemoveAt(bills, i)
  /\ d' = LET is(answer) == IF bills[i].answer = answer THEN bills[i].org ELSE None
          IN  ApplyBillingLock([d EXCEPT !.trial = is("trial")], is("locked"), Status(i))
  /\ UNCHANGED <<billing, gate>>

(* The answer to syncBillingLock, for an organisation perhaps left since.  *)
BillAnswered(i) ==
  /\ i \in DOMAIN bills /\ bills[i].answer # None
  /\ bills' = RemoveAt(bills, i)
  /\ d' = LET is(answer) == IF bills[i].answer = answer THEN bills[i].org ELSE None
          IN  IF bills[i].org # d.session THEN d
              ELSE ApplyBillingLock([d EXCEPT !.trial = is("trial")], is("locked"), Status(i))
  /\ UNCHANGED <<billing, gate>>

BillFailed(i) ==
  /\ i \in DOMAIN bills
  /\ bills' = RemoveAt(bills, i)
  /\ d' = ScheduleBillingRecheck(d)
  /\ UNCHANGED <<billing, gate>>

(* The poll while the notice is up, or the window coming back to focus.    *)
Recheck(v) ==
  /\ Room
  /\ d' = SyncBillingLock(v) /\ bills' = bills \o Asks(v)
  /\ UNCHANGED <<billing, gate>>

TimerFires == d.timer /\ Recheck([d EXCEPT !.timer = FALSE])

Focus == d.session # None /\ Recheck(d)

(* A join or a reconnect is refused with org_suspended.  The token refused *)
(* may be one typed in, or of a session another has replaced meanwhile.    *)
EntryRefused(org) ==
  /\ org \in gate /\ Room
  /\ d' = ReflectSuspension(d, org)
  /\ bills' = bills \o Asks(d')
  /\ UNCHANGED <<billing, gate>>

(***************************************************************************)
(* The backend.                                                            *)
(***************************************************************************)
BillServed(i) ==
  /\ i \in DOMAIN bills /\ bills[i].answer = None
  /\ bills' = [bills EXCEPT ![i].answer = billing[bills[i].org]]
  /\ UNCHANGED <<d, billing, gate>>

(* A card is added on Stripe's page, a trial or a subscription ends.       *)
BillingMoves(org, status) ==
  /\ billing[org] # status
  /\ billing' = [billing EXCEPT ![org] = status]
  /\ UNCHANGED <<d, bills, gate>>

(* Somebody enters: the gate asks, and keeps the answer for CACHE_TTL.     *)
GateLocks(org) ==
  /\ billing[org] = "locked" /\ org \notin gate
  /\ gate' = gate \union {org}
  /\ UNCHANGED <<d, bills, billing>>

(* The answer is too old, and so is any refusal that was sent on it.       *)
GateForgets(org) ==
  /\ org \in gate
  /\ gate' = gate \ {org}
  /\ UNCHANGED <<d, bills, billing>>

Answered == \E i \in DOMAIN bills : BillAnswered(i)
Served == \E i \in DOMAIN bills : BillServed(i)

Next ==
  \/ \E org \in Orgs : Adopt(org) \/ Pick(org) \/ PickFromLock(org) \/ EntryRefused(org)
  \/ \E org \in Orgs : GateLocks(org) \/ GateForgets(org)
  \/ SignOut \/ ShowMenu \/ SwitchAnswered \/ SwitchRefused \/ TimerFires \/ Focus
  \/ \E known \in BOOLEAN : ListAnswered(known)
  \/ Answered \/ Served \/ \E i \in DOMAIN bills : BillFailed(i)
  \/ \E org \in Orgs, status \in {"locked", "trial", "paid"} : BillingMoves(org, status)

(* Timers fire, and of the requests made again and again some are served   *)
(* and answered; what the gate has cached grows old.                       *)
Fairness ==
  /\ SF_deskVars(TimerFires) /\ SF_deskVars(Served) /\ SF_deskVars(Answered)
  /\ \A org \in Orgs : WF_deskVars(GateForgets(org))

Spec == Init /\ [][Next]_deskVars /\ Fairness

(***************************************************************************)
(* Properties.                                                             *)
(***************************************************************************)
(* main.ts: "one auth hiccup must not end" its poll: the notice shown is   *)
(* tagged with the organisation held, and is being asked about again.      *)
(* What it tells is the status of that organisation, unless it is still    *)
(* the guess a refusal starts with.                                        *)
LockSound ==
  d.lock # None =>
    /\ d.lock = d.session
    /\ d.timer \/ \E i \in DOMAIN bills : bills[i].org = d.lock
    /\ d.status.guess \/ d.status.of = d.lock

(* main.ts: billingLockOrg is "Which org `billingLockStatus` was computed  *)
(* for", guesses included.  The code breaks it: reflectSuspension tags its *)
(* guess with the organisation held when the refusal arrives, which need   *)
(* not be the one refused.                                                 *)
LockOfItsOrg == d.lock # None => d.status.of = d.lock

(* Once nothing more is in flight, the chip names the organisation held,   *)
(* whatever was picked, refused, answered late or adopted meanwhile.       *)
ChipTellsOrg == d.listing \/ d.switch # None \/ d.chip = d.session

(* The unlock happens out of band: once no organisation is locked, the     *)
(* notice goes and stays away.                                             *)
LockLifts ==
  <>[](\A org \in Orgs : billing[org] # "locked") => <>[](d.lock = None)
=============================================================================
