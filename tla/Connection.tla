----------------------------- MODULE Connection ----------------------------
(***************************************************************************)
(* One connection of the server: its handler task (handle_ws, ws.rs), its  *)
(* writer task, and the bounded outbox (outbox.rs) every other task uses   *)
(* to message the client.  The rest of the org is the environment: it      *)
(* queues control and lossy messages under the org's lock, and kicks.      *)
(*                                                                         *)
(* The reader's own answers bypass the outbox: they wait for a slot of the *)
(* same channel (tx.send(..).await) without holding the lock.  While it    *)
(* waits it looks at nothing else: not at a kick, not at the expiry.       *)
(***************************************************************************)
EXTENDS Naturals, Sequences, FiniteSets

CONSTANTS
  Cap,         (* CHANNEL_CAP                                              *)
  Reserve,     (* CONTROL_RESERVE                                          *)
  SocketCap    (* frames the socket takes before a send pends              *)

ASSUME ConnectionAssumption ==
  /\ Cap \in Nat \ {0} /\ SocketCap \in Nat \ {0}
  /\ Reserve \in Nat /\ Reserve < Cap

VARIABLES
  phase,     (* of the handler: "hello", "welcome", "serving", "leaving",  *)
             (* "left", "gone"                                             *)
  reader,    (* what its loop awaits: "reading" a frame, kick or expiry;   *)
             (* "sending" an answer; "waiting" for a slot for it;          *)
             (* "granted" one; "noting" the chat; "resolving" a token      *)
  entering,  (* is the answer a space snapshot, to be followed by notes?   *)
  member,    (* is it in the org's member map?                             *)
  queue,     (* the channel: "control" and "lossy" messages                *)
  passing,   (* a lossy sender, holding the lock, saw room for its message *)
  writer,    (* "none", "idle", "sending" a frame, "done"                  *)
  wire,      (* frames the socket holds                                    *)
  client,    (* "open" or "closed": the client's end of the socket         *)
  kicked,    (* the permit of Outbox::kick                                 *)
  expired,   (* the token's deadline has passed                            *)
  lost       (* history: a control message could not be queued             *)

connVars == <<phase, reader, entering, member, queue, passing, writer, wire,
              client, kicked, expired, lost>>

tasks == <<phase, reader, entering, member>>
socket == <<writer, wire, client>>

FreeSlots == Cap - Len(queue)  (* mutant: a granted slot counts as free *)

(* A slot granted to the waiting reader is taken, though not yet filled.   *)
Free == Cap - Len(queue) - (IF reader = "granted" THEN 1 ELSE 0)

(***************************************************************************)
(* The outbox.                                                             *)
(***************************************************************************)
(* Mutant of Kick: only a handler that is awaiting the kick notices it.    *)
KickIfAwaited == kicked' = (kicked \/ reader = "reading")

Kick == kicked' = TRUE

(* Outbox::send.  A channel whose receiver is gone swallows the message.   *)
Send(msg) ==
  \/ writer = "done" /\ UNCHANGED <<queue, kicked, lost>>
  \/ writer # "done" /\ Free > 0
     /\ queue' = Append(queue, msg) /\ UNCHANGED <<kicked, lost>>
  \/ writer # "done" /\ Free = 0
     /\ lost' = TRUE /\ Kick /\ UNCHANGED queue

AtReserve == Free >= Reserve  (* mutant of AboveReserve *)

AboveReserve == Free > Reserve

(* Another task queues a control message for this member.                  *)
Control ==
  /\ member /\ ~passing
  /\ Send("control")
  /\ UNCHANGED <<tasks, socket, passing, expired>>

(* Outbox::send_lossy: looks at the room left, then tries.                 *)
LossyCheck ==
  /\ member /\ ~passing
  /\ AboveReserve
  /\ passing' = TRUE
  /\ UNCHANGED <<tasks, socket, queue, kicked, expired, lost>>

LossyPut ==
  /\ passing
  /\ passing' = FALSE
  /\ queue' = IF writer # "done" /\ Free > 0 THEN Append(queue, "lossy") ELSE queue
  /\ UNCHANGED <<tasks, socket, kicked, expired, lost>>

(* A fourth connection of the same person joined.                          *)
KickOldest ==
  /\ member /\ ~passing
  /\ Kick
  /\ UNCHANGED <<tasks, socket, queue, passing, expired, lost>>

(***************************************************************************)
(* The writer task, and the client's end of the socket.                    *)
(***************************************************************************)
(* A slot given back goes to the waiting reader before anybody else.       *)
WriterTake ==
  /\ writer = "idle" /\ queue # <<>>
  /\ queue' = Tail(queue)
  /\ writer' = "sending"
  /\ reader' = IF reader = "waiting" THEN "granted" ELSE reader
  /\ UNCHANGED <<phase, entering, member, passing, wire, client, kicked, expired, lost>>

WriterSend ==
  /\ writer = "sending"
  /\ client = "open" /\ wire < SocketCap
  /\ wire' = wire + 1
  /\ writer' = "idle"
  /\ UNCHANGED <<tasks, queue, passing, client, kicked, expired, lost>>

(* The send fails: the receiver is dropped, so a waiting send fails too.   *)
WriterFail ==
  /\ writer = "sending" /\ client = "closed"
  /\ writer' = "done"
  /\ queue' = <<>>
  /\ reader' = IF reader = "waiting" THEN "sending" ELSE reader
  /\ UNCHANGED <<phase, entering, member, passing, wire, client, kicked, expired, lost>>

ClientRead ==
  /\ client = "open" /\ wire > 0
  /\ wire' = wire - 1
  /\ UNCHANGED <<tasks, writer, client, queue, passing, kicked, expired, lost>>

ClientClose ==
  /\ client = "open"
  /\ client' = "closed"
  /\ UNCHANGED <<tasks, writer, wire, queue, passing, kicked, expired, lost>>

Expire ==
  /\ member /\ ~expired
  /\ expired' = TRUE
  /\ UNCHANGED <<tasks, socket, queue, passing, kicked, lost>>

(***************************************************************************)
(* The handler task.                                                       *)
(***************************************************************************)
Init ==
  /\ phase = "hello" /\ reader = "reading" /\ entering = FALSE
  /\ member = FALSE
  /\ queue = <<>> /\ passing = FALSE
  /\ writer = "none" /\ wire = 0 /\ client = "open"
  /\ kicked = FALSE /\ expired = FALSE /\ lost = FALSE

(* No hello in time, or a token, billing state or socket that ends it.     *)
Reject ==
  /\ phase = "hello"
  /\ phase' = "gone"
  /\ UNCHANGED <<reader, entering, member, socket, queue, passing, kicked, expired, lost>>

Join ==
  /\ phase = "hello"
  /\ phase' = "welcome"
  /\ member' = TRUE
  /\ UNCHANGED <<reader, entering, socket, queue, passing, kicked, expired, lost>>

(* The welcome goes straight to the socket; then the writer starts.        *)
Welcome ==
  /\ phase = "welcome" /\ client = "open" /\ wire < SocketCap
  /\ wire' = wire + 1
  /\ phase' = "serving" /\ reader' = "noting"
  /\ writer' = "idle"
  /\ UNCHANGED <<entering, member, client, queue, passing, kicked, expired, lost>>

WelcomeFail ==
  /\ phase = "welcome" /\ client = "closed" /\ ~passing
  /\ phase' = "gone"
  /\ member' = FALSE
  /\ UNCHANGED <<reader, entering, socket, queue, passing, kicked, expired, lost>>

SendNotes ==
  /\ reader = "noting" /\ ~passing
  /\ Send("control")
  /\ reader' = "reading"
  /\ UNCHANGED <<phase, entering, member, socket, passing, expired>>

Reading == phase = "serving" /\ reader = "reading"

(* A frame that is answered, if only with an error.                        *)
Answer(enters) ==
  /\ Reading
  /\ reader' = "sending"
  /\ entering' = enters
  /\ UNCHANGED <<phase, member, socket, queue, passing, kicked, expired, lost>>

AfterAnswer ==
  /\ reader' = IF entering THEN "noting" ELSE "reading"
  /\ entering' = FALSE

Queue ==
  /\ \/ reader = "sending" /\ writer # "done" /\ Free > 0
     \/ reader = "granted" /\ writer # "done"
  /\ queue' = Append(queue, "control")
  /\ AfterAnswer
  /\ UNCHANGED <<phase, member, socket, passing, kicked, expired, lost>>

QueueFail ==
  /\ reader \in {"sending", "granted"} /\ writer = "done"
  /\ AfterAnswer
  /\ UNCHANGED <<phase, member, socket, queue, passing, kicked, expired, lost>>

Wait ==
  /\ reader = "sending" /\ writer # "done" /\ Free = 0
  /\ reader' = "waiting"
  /\ UNCHANGED <<phase, entering, member, socket, queue, passing, kicked, expired, lost>>

Reauth ==
  /\ Reading
  /\ reader' = "resolving"
  /\ UNCHANGED <<phase, entering, member, socket, queue, passing, kicked, expired, lost>>

(* Only a token that renews this seat moves the deadline.                  *)
Renew ==
  /\ reader = "resolving"
  /\ reader' = "reading"
  /\ expired' = FALSE
  /\ UNCHANGED <<phase, entering, member, socket, queue, passing, kicked, lost>>

RenewFail ==
  /\ reader = "resolving"
  /\ phase' = "leaving" /\ reader' = "reading"
  /\ UNCHANGED <<entering, member, socket, queue, passing, kicked, expired, lost>>

(* bye, a flood, an error, or the end of the stream.                       *)
Stop ==
  /\ Reading
  /\ phase' = "leaving"
  /\ UNCHANGED <<reader, entering, member, socket, queue, passing, kicked, expired, lost>>

TakeKick ==
  /\ Reading /\ kicked
  /\ kicked' = FALSE
  /\ phase' = "leaving"
  /\ UNCHANGED <<reader, entering, member, socket, queue, passing, expired, lost>>

(* Mutant of TakeExpiry: the client is told instead of disconnected.       *)
ExpiryTold ==
  /\ Reading /\ expired
  /\ reader' = "sending"
  /\ UNCHANGED <<phase, entering, member, socket, queue, passing, kicked, expired, lost>>

TakeExpiry ==
  /\ Reading /\ expired
  /\ phase' = "leaving"
  /\ UNCHANGED <<reader, entering, member, socket, queue, passing, kicked, expired, lost>>

Leave ==
  /\ phase = "leaving" /\ ~passing
  /\ phase' = "left"
  /\ member' = FALSE
  /\ UNCHANGED <<reader, entering, socket, queue, passing, kicked, expired, lost>>

AbortWriter ==
  /\ phase = "left"
  /\ phase' = "gone"
  /\ writer' = "done" /\ queue' = <<>>
  /\ UNCHANGED <<reader, entering, member, wire, client, passing, kicked, expired, lost>>

Handler ==
  \/ Welcome \/ WelcomeFail \/ SendNotes \/ Queue \/ QueueFail \/ Wait
  \/ Renew \/ RenewFail \/ Leave \/ AbortWriter

Next ==
  \/ Handler \/ Reject \/ Join
  \/ Answer(TRUE) \/ Answer(FALSE) \/ Reauth \/ Stop \/ TakeKick \/ TakeExpiry
  \/ WriterTake \/ WriterSend \/ WriterFail
  \/ Control \/ LossyCheck \/ LossyPut \/ KickOldest \/ Expire
  \/ ClientRead \/ ClientClose

SafetySpec == Init /\ [][Next]_connVars

(* The runtime polls every ready task, and the org's lock (tokio's Mutex)  *)
(* is first come, first served, so whoever asks for it gets it.  select!   *)
(* picks among its ready branches at random, so a branch ready again and   *)
(* again is taken; and a closed socket ends the stream the reader reads.   *)
ServerFairness ==
  /\ WF_connVars(Handler)
  /\ SF_connVars(SendNotes) /\ SF_connVars(Leave) /\ SF_connVars(WelcomeFail)
  /\ WF_connVars(WriterTake) /\ WF_connVars(WriterSend) /\ WF_connVars(WriterFail)
  /\ WF_connVars(LossyPut)
  /\ SF_connVars(TakeKick) /\ SF_connVars(TakeExpiry)
  /\ SF_connVars(Stop /\ client = "closed")

(* A client that takes what its socket holds, as every live one does.      *)
LiveClient == WF_connVars(ClientRead)

ServerSpec == SafetySpec /\ ServerFairness

Spec == ServerSpec /\ LiveClient

(***************************************************************************)
(* Properties.                                                             *)
(***************************************************************************)
TasksOK ==
  /\ phase \in {"hello", "welcome", "serving", "leaving", "left", "gone"}
  /\ reader \in {"reading", "sending", "waiting", "granted", "noting", "resolving"}
  /\ writer \in {"none", "idle", "sending", "done"}
  /\ client \in {"open", "closed"}

FlagsOK ==
  /\ entering \in BOOLEAN /\ member \in BOOLEAN /\ passing \in BOOLEAN
  /\ kicked \in BOOLEAN /\ expired \in BOOLEAN /\ lost \in BOOLEAN

ChannelOK ==
  /\ queue \in Seq({"control", "lossy"})
  /\ Free >= 0
  /\ wire \in Nat /\ wire <= SocketCap

(* Every variable has the shape its declaration says; above all, the       *)
(* channel never holds, nor promises, more than its capacity.              *)
TypeOK == TasksOK /\ FlagsOK /\ ChannelOK

LossyQueued == Cardinality({i \in DOMAIN queue : queue[i] = "lossy"})

(* outbox.rs: "no amount of it can crowd one out".  However many positions *)
(* and signals are sent, and although a lossy sender looks at the room     *)
(* before it takes a slot the reader may take meanwhile, lossy messages    *)
(* never occupy the slots kept for control messages.                       *)
ReserveKept == LossyQueued <= Cap - Reserve

(* Why: between its look and its try, a sender's slot is still there.      *)
ReserveInv ==
  /\ ReserveKept
  /\ passing => LossyQueued < Cap - Reserve

(* outbox.rs: a control message is never silently lost.  Whenever one      *)
(* could not be queued, the connection is ending, or the kick is there for *)
(* the reader to find, whatever it was doing when it was kicked.           *)
LostMeansEnding == lost => kicked \/ phase \in {"leaving", "left", "gone"}

(* Whatever ends a connection takes the member out of the org: a full      *)
(* queue or a kick (outbox.rs: "A full queue disconnects the client"), a   *)
(* token not renewed in time, a socket that closed.                        *)
KickEnds == kicked ~> ~member

EndingsEnd ==
  /\ KickEnds
  /\ expired ~> (~expired \/ ~member)
  /\ (client = "closed") ~> ~member
=============================================================================
