----------------------------- MODULE PeerLinks ------------------------------
(***************************************************************************)
(* One pair of clients and the peer connection between them: the links the *)
(* server opens and closes, the signals it relays over them, and the two   *)
(* audio engines (client/src/audio.ts) negotiating over that relay, both   *)
(* of which may make an offer at any time.                                 *)
(*                                                                         *)
(* The browser's RTCPeerConnection is external.  It runs the operations    *)
(* asked of it one at a time (ops), some time after the handler that asked *)
(* has returned to the event loop: the next message may be handled before. *)
(* A description is told apart by how many tracks its sender sends (none,  *)
(* the microphone, a video as well) and the media sections it has room in. *)
(* ICE candidates and the labels of videos travel beside and are left out. *)
(***************************************************************************)
EXTENDS Naturals, Sequences, FiniteSetsExt

CONSTANTS
  None,
  MaxLinks,    (* bound: links the server opens                            *)
  MaxTracks,   (* bound: tracks a client ever sends                        *)
  MaxTold      (* bound: the server opens and closes links only while      *)
               (* fewer messages than this are on their way to a client    *)

(* By proximity, by a page: the links of the server, or of a PeerConn.     *)
Kinds == {"prox", "page"}

(* A description under way to a client, with the links it was relayed over *)
Signals ==
  [type : {"offer", "answer"}, tracks : Nat, sections : Nat, over : SUBSET (Nat \ {0})]

(* and what a client has of its peer: whatever else None is, it is no such.*)
PeerConns ==
  [prox : Nat, page : Nat, sig : {"stable", "have-local-offer", "have-remote-offer"},
   making : BOOLEAN, ops : Seq(Signals \union [type : {"local"}]),
   sent : Nat, offered : Nat, sections : Nat, heard : Nat]

ASSUME PeerLinksAssumption ==
  /\ MaxLinks \in Nat /\ MaxTracks \in Nat /\ MaxTold \in Nat
  /\ None \notin PeerConns

VARIABLES
  link,    (* the server's: by which link the pair is near, by which it is *)
           (* in a page, 0 for none; opened counts the links opened so far *)
  pc,      (* [side -> its PeerConn for the other, or None]                *)
  want,    (* [side -> the tracks it has to send]                          *)
  up,      (* [side -> messages on their way to the server]                *)
  down,    (* [side -> messages on their way from the server]              *)
  lost,    (* was a signal ever dropped before a full outbox?              *)
  quit     (* [side -> the last page it hung up itself]                    *)

linkVars == <<link, pc, want, up, down, lost, quit>>

(* The smaller id is the initiator, and the impolite one.                  *)
Sides == {1, 2}
Other(c) == 3 - c
Polite(c) == c = 2

LinksOf(l) == {l[kind] : kind \in Kinds} \ {0}
Linked(l) == LinksOf(l) # {}

Up(c, m) == up' = [up EXCEPT ![c] = Append(@, m)]

(***************************************************************************)
(* The engine of one client.  Each operator takes the PeerConn, or None.   *)
(***************************************************************************)
EnsurePeer ==
  [prox |-> 0, page |-> 0, sig |-> "stable", making |-> FALSE, ops |-> <<>>,
   sent |-> 0, offered |-> 0, sections |-> 0, heard |-> 0]

Connect(e, m) == [(IF e = None THEN EnsurePeer ELSE e) EXCEPT ![m.kind] = m.id]

(* disconnectProximity, endPage: the connection goes with its last link.   *)
Disconnect(e, kind) ==
  IF e = None THEN None
  ELSE LET left == [e EXCEPT ![kind] = 0]
       IN  IF Linked(left) THEN left ELSE None

Collides(e) == e.making \/ e.sig # "stable"

(* Mutant of HandleSignal: the polite side does not yield either.          *)
HandleRude(c, e, m) ==
  IF e = None \/ (m.type = "offer" /\ Collides(e)) THEN e
  ELSE [e EXCEPT !.ops = Append(@, m)]

(* handleSignal, up to its first await.                                    *)
HandleSignal(c, e, m) ==
  IF e = None \/ (m.type = "offer" /\ Collides(e) /\ ~Polite(c)) THEN e
  ELSE [e EXCEPT !.ops = Append(@, m)]

Handled(c, e, m) ==
  CASE m.type = "connect"    -> Connect(e, m)
    [] m.type = "disconnect" -> Disconnect(e, m.kind)
    [] OTHER                 -> HandleSignal(c, e, m)

(***************************************************************************)
(* The clients.                                                            *)
(***************************************************************************)
Init ==
  /\ link = [prox |-> 0, page |-> 0, opened |-> 0]
  /\ pc = [c \in Sides |-> None]
  /\ want = [c \in Sides |-> 0]
  /\ up = [c \in Sides |-> <<>>] /\ down = [c \in Sides |-> <<>>]
  /\ lost = FALSE
  /\ quit = [c \in Sides |-> 0]

Receive(c) ==
  /\ down[c] # <<>>
  /\ pc' = [pc EXCEPT ![c] = Handled(c, @, Head(down[c]))]
  /\ down' = [down EXCEPT ![c] = Tail(@)]
  /\ UNCHANGED <<link, want, up, lost, quit>>

(* Unmuting, or a video starting: the track is added to every connection.  *)
AddTrack(c) ==
  /\ want[c] < MaxTracks
  /\ want' = [want EXCEPT ![c] = @ + 1]
  /\ UNCHANGED <<link, pc, up, down, lost, quit>>

HangUp(c) ==
  /\ pc[c] # None /\ pc[c].page # 0
  /\ pc' = [pc EXCEPT ![c] = Disconnect(@, "page")]
  /\ quit' = [quit EXCEPT ![c] = pc[c].page]
  /\ Up(c, [type |-> "page_end"])
  /\ UNCHANGED <<link, want, down, lost>>

(* negotiationneeded fires while nothing is pending and what is sent is    *)
(* not what the current description says.                                  *)
Negotiate(c) ==
  /\ pc[c] # None
  /\ pc[c].sig = "stable" /\ pc[c].ops = <<>> /\ pc[c].sent # want[c]
  /\ pc' = [pc EXCEPT ![c].making = TRUE, ![c].ops = <<[type |-> "local"]>>]
  /\ UNCHANGED <<link, want, up, down, lost, quit>>

(***************************************************************************)
(* The browser finishes the first operation, and what awaited it goes on.  *)
(***************************************************************************)
Pending(c, types) == pc[c] # None /\ pc[c].ops # <<>> /\ Head(pc[c].ops).type \in types

(* setLocalDescription: an answer to the offer applied, else an offer.     *)
SetLocal(c) ==
  /\ Pending(c, {"local"})
  /\ LET e == [pc[c] EXCEPT !.ops = Tail(@), !.making = FALSE]
         answers == e.sig = "have-remote-offer"
         tracks == IF answers THEN Min({want[c], e.sections}) ELSE want[c]
     IN  /\ pc' = [pc EXCEPT ![c] =
                IF answers THEN [e EXCEPT !.sig = "stable", !.sent = tracks]
                ELSE [e EXCEPT !.sig = "have-local-offer", !.offered = tracks]]
         /\ Up(c, [type |-> IF answers THEN "answer" ELSE "offer", tracks |-> tracks,
                   sections |-> Max({tracks, e.sections})])
  /\ UNCHANGED <<link, want, down, lost, quit>>

(* setRemoteDescription of an offer: rolls back ours; the answer is next.  *)
SetRemoteOffer(c) ==
  /\ Pending(c, {"offer"})
  /\ LET d == Head(pc[c].ops)
     IN  pc' = [pc EXCEPT ![c].ops = Append(Tail(@), [type |-> "local"]),
                          ![c].sig = "have-remote-offer", ![c].offered = 0,
                          ![c].sections = Max({@, d.sections}), ![c].heard = d.tracks]
  /\ UNCHANGED <<link, want, up, down, lost, quit>>

(* Of an answer; without an offer of ours, an error that is only logged.   *)
SetRemoteAnswer(c) ==
  /\ Pending(c, {"answer"})
  /\ LET e == [pc[c] EXCEPT !.ops = Tail(@)]
         d == Head(pc[c].ops)
     IN  pc' = [pc EXCEPT ![c] =
           IF e.sig # "have-local-offer" THEN e
           ELSE [e EXCEPT !.sig = "stable", !.sent = e.offered, !.offered = 0,
                          !.sections = d.sections, !.heard = d.tracks]]
  /\ UNCHANGED <<link, want, up, down, lost, quit>>

(***************************************************************************)
(* The server.                                                             *)
(***************************************************************************)
HungUp == \E c \in Sides : \E i \in DOMAIN up[c] : up[c][i].type = "page_end"

Tell(m) ==
  /\ \A c \in Sides : Len(down[c]) < MaxTold
  /\ down' = [c \in Sides |-> Append(down[c], m)]

(* A tick links the pair, or a page goes live: both are told at once.  A   *)
(* page takes both clients, whose hang-ups come before it.                 *)
Open(kind) ==
  /\ link[kind] = 0 /\ (kind = "page" => ~HungUp)
  /\ link.opened < MaxLinks
  /\ link' = [link EXCEPT ![kind] = link.opened + 1, !.opened = @ + 1]
  /\ Tell([type |-> "connect", kind |-> kind, id |-> link.opened + 1])
  /\ UNCHANGED <<pc, want, up, lost, quit>>

Close ==
  /\ link.prox # 0
  /\ link' = [link EXCEPT !.prox = 0]
  /\ Tell([type |-> "disconnect", kind |-> "prox"])
  /\ UNCHANGED <<pc, want, up, lost, quit>>

Asked(c, types) == up[c] # <<>> /\ Head(up[c]).type \in types

Served(c) == up' = [up EXCEPT ![c] = Tail(@)]

(* A signal remembers the links it was relayed over.                       *)
Relayed(m) ==
  [type |-> m.type, tracks |-> m.tracks, sections |-> m.sections, over |-> LinksOf(link)]

(* Mutant of RelayedTo: whoever is connected, linked or not.               *)
RelayedToAnyone(c) == [down EXCEPT ![Other(c)] = Append(@, Relayed(Head(up[c])))]

RelayedTo(c) ==
  IF Linked(link) THEN [down EXCEPT ![Other(c)] = Append(@, Relayed(Head(up[c])))] ELSE down

RouteSignal(c) ==
  /\ Asked(c, {"offer", "answer"})
  /\ Served(c)
  /\ down' = RelayedTo(c)
  /\ UNCHANGED <<link, pc, want, lost, quit>>

(* send_lossy, before an outbox down to its reserve.                       *)
SignalLost(c) ==
  /\ Asked(c, {"offer", "answer"}) /\ Linked(link)
  /\ Served(c)
  /\ lost' = TRUE
  /\ UNCHANGED <<link, pc, want, down, quit>>

PageEnd(c) ==
  /\ Asked(c, {"page_end"})
  /\ Served(c)
  /\ link' = [link EXCEPT !.page = 0]
  /\ down' = IF link.page # 0
             THEN [down EXCEPT ![Other(c)] = Append(@, [type |-> "disconnect", kind |-> "page"])]
             ELSE down
  /\ UNCHANGED <<pc, want, lost, quit>>

Engine(c) == Negotiate(c) \/ SetLocal(c) \/ SetRemoteOffer(c) \/ SetRemoteAnswer(c)

Server(c) == RouteSignal(c) \/ SignalLost(c) \/ PageEnd(c)

Next ==
  \/ \E c \in Sides : AddTrack(c) \/ HangUp(c) \/ Receive(c) \/ Engine(c) \/ Server(c)
  \/ \E kind \in Kinds : Open(kind)
  \/ Close

(* Sockets, the browser and the server go on.                              *)
Fairness ==
  \A c \in Sides : WF_linkVars(Receive(c)) /\ WF_linkVars(Engine(c)) /\ WF_linkVars(Server(c))

Spec == Init /\ [][Next]_linkVars /\ Fairness

(***************************************************************************)
(* Properties.                                                             *)
(***************************************************************************)
(* Will client c hold this link once it has handled n messages more?  The  *)
(* last of them about the link's kind opens it, or none is and c holds it. *)
About(m, kind) == m.type \in {"connect", "disconnect"} /\ m.kind = kind

Opens(m, kind, id) == m.type = "connect" /\ m.kind = kind /\ m.id = id

Untold(queue, kind, from, n) == \A i \in from + 1 .. n : ~About(queue[i], kind)

WillHold(c, kind, id, n) ==
  \/ pc[c] # None /\ pc[c][kind] = id /\ Untold(down[c], kind, 0, n)
  \/ \E i \in 1 .. n : Opens(down[c][i], kind, id) /\ Untold(down[c], kind, i, n)

(* PROTOCOL.md, signal: relayed only over a link the server opened, whose  *)
(* connect is queued first.  A client holds every link a signal came over  *)
(* by the time it handles it, unless it has hung up that page itself.      *)
Explained ==
  \A c \in Sides : \A i \in DOMAIN down[c] :
    down[c][i].type \in {"offer", "answer"} =>
      /\ down[c][i].over # {}
      /\ \A id \in down[c][i].over \ {quit[c]} : \E kind \in Kinds : WillHold(c, kind, id, i - 1)

(* One link that stays, and no signal lost.                                *)
Undisturbed ==
  /\ [](link.opened <= 1 /\ ~lost /\ \A c \in Sides : quit[c] = 0)
  /\ <>[](link.opened = 1 /\ Linked(link))

(* Is every track side c has to send known to the other?                   *)
Heard(c) ==
  /\ pc[c] # None /\ pc[Other(c)] # None
  /\ pc[c].sig = "stable" /\ pc[Other(c)].heard = want[c]

(* Over an undisturbed link two engines never wait for each other: every   *)
(* track of the initiator is heard at last, whatever collides with it.     *)
InitiatorHeard == Undisturbed => <>[]Heard(1)

(* "Perfect-negotiation: whenever (re)negotiation is needed, make an       *)
(* offer" (client/src/audio.ts): and so is every track of the other.       *)
BothHeard == Undisturbed => <>[](Heard(1) /\ Heard(2))
=============================================================================
