-------------------------------- MODULE Chat --------------------------------
(***************************************************************************)
(* The chat of each space: Org::post_note, remove_note, react and          *)
(* send_notes (state.rs), their rows in the store (store.rs), a crash at   *)
(* any point and the restart from the rows, and the client's view of the   *)
(* chat with its unread mark, kept on the device (client/src/main.ts).     *)
(*                                                                         *)
(* Every change goes to the store first and to memory after, under the     *)
(* org's lock.  The boards people get are whole boards, so a lost change   *)
(* is repaired by the next one; what orders them is each client's queue.   *)
(***************************************************************************)
EXTENDS Naturals, Sequences, SequencesExt, FiniteSetsExt

CONSTANTS
  Persons,      (* one device each                                         *)
  Accounts,     (* those whose token names a subject                       *)
  Admins,       (* those whose role is admin                               *)
  Boards,       (* space ids                                               *)
  LobbyBoard,
  Nowhere,      (* the space of a person who is not connected              *)
  Null,         (* session.notes between spaces                            *)
  MaxNotes,     (* MAX_NOTES_PER_BOARD                                     *)
  MaxPosts,     (* bound: posts explored                                   *)
  MaxCrashes,   (* bound: crashes explored                                 *)
  MaxLag        (* bound: messages on their way to one client              *)

Note == [id : Nat \ {0}, by : Persons, serial : Nat \ {0}, liked : SUBSET Persons]

(* A client's view: its space, the notes it shows there, if any yet, is    *)
(* the chat open, and the newest note it counts as seen.                   *)
ChatViews ==
  [space : Boards, notes : Seq(Note) \union {Null}, open : BOOLEAN, seenId : Nat]

ASSUME ChatAssumption ==
  /\ Accounts \subseteq Persons /\ Admins \subseteq Accounts
  /\ LobbyBoard \in Boards /\ Nowhere \notin Boards
  /\ Null \notin ChatViews /\ Null \notin Seq(Note)
  /\ {MaxNotes, MaxPosts, MaxLag} \subseteq Nat \ {0}
  /\ MaxCrashes \in Nat

VARIABLES
  up,        (* does the server run?                                       *)
  crashes,   (* how often it did not                                       *)
  posts,     (* history: posts so far; a note's serial is its number       *)
  boards,    (* SpaceState::notes: [space -> sequence of notes]            *)
  nextNoteId,
  rows,      (* the store: notes and the space each is in                  *)
  at,        (* members' space_id                                          *)
  owed,      (* messages the member's reader has yet to queue              *)
  inbox,     (* what the client has yet to handle                          *)
  session,   (* the client: its space, its notes, chatOpen, chatSeenId     *)
  chatSeen,  (* localStorage: [space -> newest message id seen]            *)
  shown      (* history: serials of the notes this device showed open      *)

serverVars == <<up, crashes, posts, boards, nextNoteId, rows, at>>
clientVars == <<session, chatSeen, shown>>
chatVars == <<up, crashes, posts, boards, nextNoteId, rows, at, owed, inbox,
              session, chatSeen, shown>>

(***************************************************************************)
(* Boards and rows.                                                        *)
(***************************************************************************)
Find(s, id) == {n \in ToSet(boards[s]) : n.id = id}

Row(s, note) == [space |-> s, note |-> note]

NotesIn(table, s) == {r.note : r \in {q \in table : q.space = s}}

(* ORDER BY id: in place i is the note with i - 1 older ones.              *)
ById(notes) ==
  [i \in 1 .. Cardinality(notes) |->
     CHOOSE n \in notes : Cardinality({m \in notes : m.id < n.id}) = i - 1]

(* load_all: a space's notes, in id order.                                 *)
Load(table, s) == ById(NotesIn(table, s))

(* Mutant of NextId: a note for every number.                              *)
CountedId(table) == Cardinality(table) + 1

(* from_catalog: one past the newest note there still is.                  *)
NextId(table) == Max({r.note.id : r \in table} \union {0}) + 1

(* At the cap the oldest comes down.                                       *)
Overflow(s) == IF Len(boards[s]) >= MaxNotes THEN {Head(boards[s])} ELSE {}

Kept(s) == IF Len(boards[s]) >= MaxNotes THEN Tail(boards[s]) ELSE boards[s]

(* A note written without an account has no author to match.               *)
CanRemove(p, note) == p \in Admins \/ (p \in Accounts /\ note.by = p)

(***************************************************************************)
(* Messages.  A member's reader queues what it owes after the org's lock   *)
(* is released; a broadcast is queued under the lock.                      *)
(***************************************************************************)
Notes(s, notes) == [t |-> "notes", space |-> s, notes |-> notes]
Snapshot(s) == [t |-> "snapshot", space |-> s, notes |-> Null]
WelcomeMsg == [t |-> "welcome", space |-> LobbyBoard, notes |-> Null]

Member(p) == up /\ at[p] # Nowhere

(* A member handles nothing else while its reader owes something.          *)
Acts(p) == Member(p) /\ owed[p] = <<>>

Room(people) == \A p \in people : Len(inbox[p]) < MaxLag

(* Mutant of Audience: the poster has shown it already.                    *)
Others(s, poster) == {p \in Persons : at[p] = s} \ {poster}

Audience(s, poster) == {p \in Persons : at[p] = s}

(***************************************************************************)
(* A change: rows first, then memory and the broadcast; or a crash after   *)
(* the rows are written, in which case nobody hears of it.                 *)
(***************************************************************************)
Down ==
  /\ crashes < MaxCrashes
  /\ crashes' = crashes + 1
  /\ up' = FALSE
  /\ boards' = [s \in Boards |-> <<>>]
  /\ nextNoteId' = 0
  /\ at' = [p \in Persons |-> Nowhere]
  /\ owed' = [p \in Persons |-> <<>>]
  /\ inbox' = [p \in Persons |-> <<>>]
  /\ session' = [p \in Persons |-> Null]
  /\ UNCHANGED <<chatSeen, shown>>

Commit(p, s, board, next) ==
  /\ Room(Audience(s, p))
  /\ boards' = [boards EXCEPT ![s] = board]
  /\ nextNoteId' = next
  /\ inbox' = [q \in Persons |->
       IF q \in Audience(s, p) THEN Append(inbox[q], Notes(s, board)) ELSE inbox[q]]
  /\ UNCHANGED <<up, crashes, at, owed, clientVars>>

Change(p, s, table, board, next) ==
  /\ rows' = table
  /\ Commit(p, s, board, next) \/ Down

ChatInit ==
  /\ up = TRUE /\ crashes = 0 /\ posts = 0
  /\ boards = [s \in Boards |-> <<>>] /\ nextNoteId = 1
  /\ rows = {}
  /\ at = [p \in Persons |-> Nowhere]
  /\ owed = [p \in Persons |-> <<>>] /\ inbox = [p \in Persons |-> <<>>]
  /\ session = [p \in Persons |-> Null]
  /\ chatSeen = [p \in Persons |-> [s \in Boards |-> 0]]
  /\ shown = [p \in Persons |-> {}]

(* Org::post_note, past its cooldown and with some text.                   *)
PostNote(p) ==
  /\ Acts(p)
  /\ posts < MaxPosts
  /\ posts' = posts + 1
  /\ LET s == at[p]
         note == [id |-> nextNoteId, by |-> p, serial |-> posts', liked |-> {}]
     IN  Change(p, s,
           (rows \ {Row(s, n) : n \in Overflow(s)}) \union {Row(s, note)},
           Append(Kept(s), note), nextNoteId + 1)

(* Org::remove_note and react, of a note the client shows: it may have     *)
(* gone meanwhile, and then the board is sent again.                       *)
Picks(p, id) ==
  /\ Acts(p)
  /\ session[p] # Null /\ session[p].notes # Null
  /\ \E n \in ToSet(session[p].notes) : n.id = id

Resend(p, id) ==
  /\ Picks(p, id)
  /\ Find(at[p], id) = {}
  /\ Room({p})
  /\ inbox' = [inbox EXCEPT ![p] = Append(@, Notes(at[p], boards[at[p]]))]
  /\ UNCHANGED <<serverVars, owed, clientVars>>

RemoveNote(p, id) ==
  /\ Picks(p, id)
  /\ \E i \in DOMAIN boards[at[p]] :
       LET note == boards[at[p]][i]
       IN  /\ note.id = id
           /\ CanRemove(p, note)
           /\ Change(p, at[p], rows \ {Row(at[p], note)},
                RemoveAt(boards[at[p]], i), nextNoteId)
  /\ UNCHANGED posts

Toggled(note, p) ==
  [note EXCEPT !.liked = IF p \in @ THEN @ \ {p} ELSE @ \union {p}]

(* set_reaction: a row of its own, added or taken away.                    *)
ReactionRows(table, s, note, p) ==
  LET on == p \notin note.liked
  IN  {IF r = Row(s, note)
       THEN [r EXCEPT !.note.liked = IF on THEN @ \union {p} ELSE @ \ {p}]
       ELSE r : r \in table}

React(p, id) ==
  /\ p \in Accounts
  /\ Picks(p, id)
  /\ \E note \in Find(at[p], id) :
       Change(p, at[p], ReactionRows(rows, at[p], note, p),
         [i \in DOMAIN boards[at[p]] |->
            IF boards[at[p]][i] = note THEN Toggled(note, p) ELSE boards[at[p]][i]],
         nextNoteId)
  /\ UNCHANGED posts

(***************************************************************************)
(* Coming and going.                                                       *)
(***************************************************************************)
ChatJoin(p) ==
  /\ up /\ at[p] = Nowhere
  /\ at' = [at EXCEPT ![p] = LobbyBoard]
  /\ inbox' = [inbox EXCEPT ![p] = <<WelcomeMsg>>]
  /\ owed' = [owed EXCEPT ![p] = <<"notes">>]
  /\ UNCHANGED <<up, crashes, posts, boards, nextNoteId, rows, clientVars>>

ChatEnter(p, s) ==
  /\ Acts(p) /\ session[p] # Null
  /\ s # session[p].space
  /\ at' = [at EXCEPT ![p] = s]
  /\ owed' = [owed EXCEPT ![p] = <<"snapshot", "notes">>]
  /\ UNCHANGED <<up, crashes, posts, boards, nextNoteId, rows, inbox, clientVars>>

(* The reader queues the snapshot, then asks for the board of that moment. *)
Owed(p) ==
  /\ Member(p) /\ owed[p] # <<>>
  /\ Room({p})
  /\ inbox' = [inbox EXCEPT ![p] = Append(@,
       IF Head(owed[p]) = "snapshot" THEN Snapshot(at[p])
                                     ELSE Notes(at[p], boards[at[p]]))]
  /\ owed' = [owed EXCEPT ![p] = Tail(@)]
  /\ UNCHANGED <<serverVars, clientVars>>

ChatLeave(p) ==
  /\ Acts(p)
  /\ at' = [at EXCEPT ![p] = Nowhere]
  /\ inbox' = [inbox EXCEPT ![p] = <<>>]
  /\ session' = [session EXCEPT ![p] = Null]
  /\ UNCHANGED <<up, crashes, posts, boards, nextNoteId, rows, owed, chatSeen, shown>>

Crash == up /\ Down /\ UNCHANGED <<posts, rows>>

(* from_catalog.                                                           *)
Restart ==
  /\ ~up
  /\ up' = TRUE
  /\ boards' = [s \in Boards |-> Load(rows, s)]
  /\ nextNoteId' = NextId(rows)
  /\ UNCHANGED <<crashes, posts, rows, at, owed, inbox, clientVars>>

(***************************************************************************)
(* The client.                                                             *)
(***************************************************************************)
Ids(notes) == {n.id : n \in ToSet(notes)}
Serials(notes) == {n.serial : n \in ToSet(notes)}

(* markChatRead: everything in the chat so far has been seen.              *)
Read(p, view) ==
  LET newest == Max(Ids(view.notes) \union {view.seenId})
  IN  /\ session' = [session EXCEPT ![p] = [view EXCEPT !.seenId = newest]]
      /\ chatSeen' = [chatSeen EXCEPT ![p][view.space] = newest]
      /\ shown' = [shown EXCEPT ![p] = @ \union Serials(view.notes)]

Keep(p, view) ==
  /\ session' = [session EXCEPT ![p] = view]
  /\ UNCHANGED <<chatSeen, shown>>

(* Mutant of SeenBefore: a chat one walks in on counts as read.            *)
SeenOnArrival(p, msg) == Max(Ids(msg.notes) \union {0})

SeenBefore(p, msg) == chatSeen[p][msg.space]

HandleSpace(p, msg) ==
  Keep(p, [space |-> msg.space, notes |-> Null,
           open |-> IF msg.t = "welcome" THEN FALSE ELSE session[p].open,
           seenId |-> IF msg.t = "welcome" THEN 0 ELSE session[p].seenId])

(* The notes of a space just left are ignored.                             *)
HandleNotes(p, msg) ==
  LET old == session[p]
      view == [old EXCEPT !.notes = msg.notes,
                 !.seenId = IF old.notes = Null THEN SeenBefore(p, msg) ELSE @]
  IN  IF msg.space # old.space THEN UNCHANGED clientVars
      ELSE IF view.open THEN Read(p, view) ELSE Keep(p, view)

Handle(p) ==
  /\ inbox[p] # <<>>
  /\ inbox' = [inbox EXCEPT ![p] = Tail(@)]
  /\ IF Head(inbox[p]).t = "notes" THEN HandleNotes(p, Head(inbox[p]))
                                   ELSE HandleSpace(p, Head(inbox[p]))
  /\ UNCHANGED <<serverVars, owed>>

(* setChatOpen, by the button or by walking up to the board.               *)
OpenChat(p) ==
  /\ session[p] # Null /\ ~session[p].open
  /\ LET view == [session[p] EXCEPT !.open = TRUE]
     IN  IF view.notes = Null THEN Keep(p, view) ELSE Read(p, view)
  /\ UNCHANGED <<serverVars, owed, inbox>>

CloseChat(p) ==
  /\ session[p] # Null /\ session[p].open
  /\ Keep(p, [session[p] EXCEPT !.open = FALSE])
  /\ UNCHANGED <<serverVars, owed, inbox>>

ChatNext ==
  \/ \E p \in Persons :
       \/ ChatJoin(p) \/ ChatLeave(p) \/ Owed(p) \/ Handle(p)
       \/ PostNote(p) \/ OpenChat(p) \/ CloseChat(p)
  \/ \E p \in Persons, s \in Boards : ChatEnter(p, s)
  \/ \E p \in Persons, id \in 1 .. MaxPosts : RemoveNote(p, id) \/ React(p, id) \/ Resend(p, id)
  \/ Crash \/ Restart

ChatSpec == ChatInit /\ [][ChatNext]_chatVars

(***************************************************************************)
(* Properties.                                                             *)
(***************************************************************************)
(* Write-through: at every moment, what a restart would load is exactly    *)
(* what the server shows, in the order it shows it, whatever was posted,   *)
(* taken down, reacted to or pushed out by the cap, and across crashes.    *)
WriteThrough == up => \A s \in Boards : boards[s] = Load(rows, s)

(* store.rs, Note::id: "Unique within the org, monotonic: id order is      *)
(* posting order", among the notes there are, across restarts too.         *)
PostingOrder ==
  \A r, q \in rows : r.note.id < q.note.id <=> r.note.serial < q.note.serial

(* However a space switch, the reader's late snapshot and the broadcasts   *)
(* of two spaces interleave: a client that has handled everything shows    *)
(* the board of the space it is in.                                        *)
ViewConverges ==
  \A p \in Persons :
    Acts(p) /\ inbox[p] = <<>> =>
      session[p].space = at[p] /\ session[p].notes = boards[at[p]]

(* No chat ever holds more than its cap, in memory or in the store.        *)
CapHeld == \A s \in Boards : Len(boards[s]) <= MaxNotes /\ Len(Load(rows, s)) <= MaxNotes

(* What the store keeps through a crash is all the chats are: the rows     *)
(* load as what is shown, ids keep posting order, and the cap holds.       *)
StoreSound == WriteThrough /\ PostingOrder /\ CapHeld

(* main.ts: "Note ids are org-wide and monotonic on the server, so a       *)
(* stored id stays meaningful across restarts of either side": a note the  *)
(* device never showed counts as unread.                                   *)
SeenMeansShown ==
  \A p \in Persons :
    session[p] # Null /\ session[p].notes # Null =>
      \A n \in ToSet(session[p].notes) : n.id <= session[p].seenId => n.serial \in shown[p]

(* The same while the server stays up: moving between chats, leaving and   *)
(* coming back, no message passes for read before this device showed it.   *)
SeenMeansShownWhileUp == crashes = 0 => SeenMeansShown
=============================================================================
