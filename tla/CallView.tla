------------------------------ MODULE CallView ------------------------------
(***************************************************************************)
(* What each client believes of its rings and calls (the page_* handlers   *)
(* and the call banner of client/src/main.ts), over the server's paging    *)
(* and the two queues of each connection.  A client writes some of its     *)
(* state before the server has answered: a page rings at once, a hang-up   *)
(* is over at once, and both may cross what the server has just sent.      *)
(***************************************************************************)
EXTENDS Paging, Sequences, SequencesExt

CONSTANTS
  MaxRequests,  (* requests of one client on their way                     *)
  MaxEvents     (* events waiting for a client that may still page         *)

ASSUME CallViewAssumption == MaxRequests \in Nat /\ MaxEvents \in Nat

VARIABLES
  pages,     (* Session.pages:      [member -> peers shown in a call]      *)
  calling,   (* Session.ringingOut: [member -> peers shown as being rung]  *)
  offers,    (* Session.ringingIn:  [member -> peers shown as ringing]     *)
  alert,     (* [member -> the ringtone plays and the window asks]         *)
  banner,    (* [member -> what the call banner was last drawn to say]     *)
  events,    (* [member -> ServerMsg queued for it]                        *)
  requests   (* [member -> ClientMsg on their way]                         *)

clientVars == <<pages, calling, offers, alert, banner>>

callVars == <<pagingVars, clientVars, events, requests>>

Msg(t, p) == [t |-> t, peer |-> p]

(* callFocus: the first incoming offer, else the live calls, else the      *)
(* first outgoing ring.  Which of two is first is the order they came in.  *)
Focus(m) ==
  IF offers[m] # {} THEN [mode |-> "incoming", peers |-> offers[m]]
  ELSE IF pages[m] # {} THEN [mode |-> "in_call", peers |-> pages[m]]
  ELSE [mode |-> "outgoing", peers |-> calling[m]]

NoCall == [mode |-> "outgoing", peers |-> {}]

CallInit ==
  /\ Init
  /\ pages = Nobody /\ calling = Nobody /\ offers = Nobody
  /\ alert = [m \in Members |-> FALSE] /\ banner = [m \in Members |-> NoCall]
  /\ events = [m \in Members |-> <<>>] /\ requests = [m \in Members |-> <<>>]

(* One more message for a member; nobody hears anything once it is gone.   *)
Sent(queues, m, t, p) == IF m \in online THEN [queues EXCEPT ![m] = Append(@, Msg(t, p))] ELSE queues

(***************************************************************************)
(* The server, taking a client's next request.                             *)
(***************************************************************************)
Handled(m, t, p) ==
  /\ requests[m] # <<>> /\ Head(requests[m]) = Msg(t, p)
  /\ requests' = [requests EXCEPT ![m] = Tail(@)]
  /\ UNCHANGED clientVars

(* The handler queues a rejection when the lock is already released; what  *)
(* it may let pass leaves the caller's `calling` alone.                    *)
ServePage(m, p) ==
  /\ Handled(m, "page", p)
  /\ LET outcome == PageOutcome(m, p)
     IN  \/ /\ outcome = "ringing" /\ Page(m, p)
            /\ events' = Sent(Sent(events, m, "ringing", p), p, "offer", m)
         \/ /\ outcome = "again"
            /\ UNCHANGED <<pagingVars, events>>
         \/ /\ outcome \in {"offline", "dnd", "busy"}
            /\ events' = Sent(events, m, "rejected", p)
            /\ UNCHANGED pagingVars

ServeAccept(m, p) ==
  /\ Handled(m, "accept", p)
  /\ \/ /\ PageAccept(m, p)
        /\ events' = Sent(Sent(events, p, "connect", m), m, "connect", p)
     \/ /\ ~Pending(p, m)
        /\ UNCHANGED <<pagingVars, events>>

(* Only the other end is told.                                             *)
ServeEnd(m, p) ==
  /\ Handled(m, "end", p)
  /\ \/ (HangUp(m, p) \/ Cancel(m, p)) /\ events' = Sent(events, p, "end", m)
     \/ Decline(m, p) /\ events' = Sent(events, p, "rejected", m)
     \/ /\ p \notin paging[m] \union ringingOut[m] \union ringingIn[m]
        /\ UNCHANGED <<pagingVars, events>>

Arrive(m) == Join(m) /\ UNCHANGED <<clientVars, events, requests>>

(* The connection ends, and with it its session (teardownSession).         *)
Depart(m) ==
  /\ Leave(m)
  /\ events' =
       [p \in Members |->
          IF p = m THEN <<>>
          ELSE IF p \in paging[m] \union ringingOut[m] THEN Append(events[p], Msg("end", m))
          ELSE IF p \in ringingIn[m] THEN Append(events[p], Msg("rejected", m))
          ELSE events[p]]
  /\ requests' = [requests EXCEPT ![m] = <<>>]
  /\ pages' = [pages EXCEPT ![m] = {}]
  /\ calling' = [calling EXCEPT ![m] = {}]
  /\ offers' = [offers EXCEPT ![m] = {}]
  /\ alert' = [alert EXCEPT ![m] = FALSE] /\ banner' = [banner EXCEPT ![m] = NoCall]

Status(m, on) == SetDnd(m, on) /\ UNCHANGED <<clientVars, events, requests>>

TimerWakes(t) ==
  /\ PageTimeout(t)
  /\ events' = IF Pending(t.from, t.to)
                 THEN Sent(Sent(events, t.from, "rejected", t.to), t.to, "end", t.from)
                 ELSE events
  /\ UNCHANGED <<clientVars, requests>>

(***************************************************************************)
(* A client, hearing the next event.                                       *)
(***************************************************************************)
Hears(m, t, p) ==
  /\ events[m] # <<>> /\ Head(events[m]) = Msg(t, p)
  /\ events' = [events EXCEPT ![m] = Tail(@)]
  /\ UNCHANGED <<pagingVars, requests>>

(* The ringtone: bursts until it is stopped; a second start changes nothing. *)
StartRingtone(m) == alert' = [alert EXCEPT ![m] = TRUE]

StopRingtone(m) == alert' = [alert EXCEPT ![m] = FALSE]

SyncIncomingAlert(m) == IF offers'[m] # {} THEN StartRingtone(m) ELSE StopRingtone(m)

SetCall(m, state) == banner' = [banner EXCEPT ![m] = state]

UpdateCallBanner(m) == SetCall(m, Focus(m)')

Shows(sets, m, p) == [sets EXCEPT ![m] = @ \union {p}]

Drops(sets, m, p) == [sets EXCEPT ![m] = @ \ {p}]

PageRinging(m, p) ==
  /\ Hears(m, "ringing", p)
  /\ calling' = Shows(calling, m, p)
  /\ UNCHANGED <<pages, offers, alert>>
  /\ UpdateCallBanner(m)

PageOffer(m, p) ==
  /\ Hears(m, "offer", p)
  /\ offers' = Shows(offers, m, p)
  /\ UNCHANGED <<pages, calling>>
  /\ UpdateCallBanner(m) /\ SyncIncomingAlert(m)

(* Mutant: a call nobody here is ringing for any more is not shown.        *)
PageConnectIfRinging(m, p) ==
  /\ Hears(m, "connect", p)
  /\ pages' = IF p \in calling[m] \union offers[m] THEN Shows(pages, m, p) ELSE pages
  /\ calling' = Drops(calling, m, p) /\ offers' = Drops(offers, m, p)
  /\ UpdateCallBanner(m) /\ SyncIncomingAlert(m)

PageConnect(m, p) ==
  /\ Hears(m, "connect", p)
  /\ pages' = Shows(pages, m, p)
  /\ calling' = Drops(calling, m, p) /\ offers' = Drops(offers, m, p)
  /\ UpdateCallBanner(m) /\ SyncIncomingAlert(m)

PageRejected(m, p) ==
  /\ Hears(m, "rejected", p)
  /\ calling' = Drops(calling, m, p)
  /\ UNCHANGED <<pages, offers, alert>>
  /\ UpdateCallBanner(m)

PageEnd(m, p) ==
  /\ Hears(m, "end", p)
  /\ pages' = Drops(pages, m, p)
  /\ calling' = Drops(calling, m, p) /\ offers' = Drops(offers, m, p)
  /\ UpdateCallBanner(m) /\ SyncIncomingAlert(m)

(***************************************************************************)
(* A user at the banner and the roster.                                    *)
(***************************************************************************)
Requests(m, sends) ==
  /\ m \in online
  /\ Len(requests[m]) + Len(sends) <= MaxRequests
  /\ requests' = [requests EXCEPT ![m] = @ \o sends]
  /\ UNCHANGED <<pagingVars, events>>

(* The roster offers everyone it has not seen leave and shows no call with.*)
CanPage(m, p) == p \notin pages[m] \union freeIds \union {m}

HandlePage(m, p) ==
  /\ Len(events[m]) < MaxEvents
  /\ CanPage(m, p)
  /\ Requests(m, <<Msg("page", p)>>)
  /\ calling' = Shows(calling, m, p)
  /\ UNCHANGED <<pages, offers, alert>>
  /\ UpdateCallBanner(m)

HandlePageAccept(m, p) ==
  /\ Focus(m).mode = "incoming" /\ p \in Focus(m).peers
  /\ Requests(m, <<Msg("accept", p)>>)
  /\ UNCHANGED clientVars

HandleHangUpAll(m) ==
  /\ Focus(m).mode = "in_call"
  /\ LET peers == SetToSeq(pages[m])
     IN  Requests(m, [i \in 1 .. Len(peers) |-> Msg("end", peers[i])])
  /\ pages' = [pages EXCEPT ![m] = {}]
  /\ UNCHANGED <<calling, offers>>
  /\ UpdateCallBanner(m) /\ SyncIncomingAlert(m)

HandleHangUpRing(m, p) ==
  /\ Focus(m).mode # "in_call" /\ p \in Focus(m).peers
  /\ Requests(m, <<Msg("end", p)>>)
  /\ IF Focus(m).mode = "incoming"
       THEN offers' = Drops(offers, m, p) /\ UNCHANGED calling
       ELSE calling' = Drops(calling, m, p) /\ UNCHANGED offers
  /\ UNCHANGED pages
  /\ UpdateCallBanner(m) /\ SyncIncomingAlert(m)

Serve(m) == \E p \in Members : ServePage(m, p) \/ ServeAccept(m, p) \/ ServeEnd(m, p)

Hear(m) ==
  \E p \in Members :
    \/ PageRinging(m, p) \/ PageOffer(m, p) \/ PageConnect(m, p)
    \/ PageRejected(m, p) \/ PageEnd(m, p)

CallNext ==
  \/ \E m \in Members : Serve(m) \/ Hear(m) \/ Arrive(m) \/ Depart(m) \/ HandleHangUpAll(m)
  \/ \E m \in Members, on \in BOOLEAN : Status(m, on)
  \/ \E t \in timers : TimerWakes(t)
  \/ \E m, p \in Members : HandlePage(m, p) \/ HandlePageAccept(m, p) \/ HandleHangUpRing(m, p)

(* Timers wake, each ring's own one; nothing is asked of the users.        *)
CallFairness ==
  \A m, p \in Members :
    WF_callVars(\E t \in timers : t.from = m /\ t.to = p /\ TimerWakes(t))

CallSpec == CallInit /\ [][CallNext]_callVars /\ CallFairness

(***************************************************************************)
(* Properties.                                                             *)
(***************************************************************************)
Coming(queue, t, p) == \E i \in DOMAIN queue : queue[i] = Msg(t, p)

(* PROTOCOL.md: "clients MUST make a live call unmistakable in the UI":    *)
(* every call and every offer the server holds for a member is on its      *)
(* screen, or about to be, or already being ended by it.  No crossing of   *)
(* accept, cancel, decline, timeout or departure leaves someone in a call, *)
(* or rung, with nothing to see.                                           *)
NothingHidden ==
  \A m, p \in Members :
    /\ p \in paging[m] =>
         p \in pages[m] \/ Coming(events[m], "connect", p) \/ Coming(requests[m], "end", p)
    /\ p \in ringingIn[m] =>
         p \in offers[m] \/ Coming(events[m], "offer", p) \/ Coming(requests[m], "end", p)

(* The ringtone plays exactly while an offer is on the banner.             *)
AlertTells == \A m \in Members : alert[m] <=> offers[m] # {}

(* The banner says what its buttons will act on.                           *)
BannerTells == \A m \in Members : banner[m] = Focus(m)

(* What the banner and the ringtone owe their user.                        *)
ViewSound == NothingHidden /\ AlertTells /\ BannerTells
=============================================================================
