# Hiroba: a TLA+ verification project

Hiroba is a virtual office. Members of an org walk avatars through spaces, hear
whoever stands near them, chat on a board per space, and page each other across
spaces. A Rust server (`src/server`) keeps who is where and which pairs may
talk; a TypeScript client (`src/client`) signs people in, draws the floor and
carries voice, camera and screen peer to peer.

Paths below are relative to `src/`: `server/` stands for `server/src/`,
`client/` for `client/src/`.

## The system

All state of an org lives in one `OrgInner` behind one `tokio::sync::Mutex`
(`server/state.rs`). Every operation is one critical section of that lock, and
messages to clients are queued, without waiting, while it is held. That makes
the operations the natural actions of the models. What happens *outside* the
lock is where the orders nobody wrote a test for live: the reader's own answers,
the timers, the sockets, the store after a crash, and the client.

The client is one thread: a handler runs to its end or to its next `await`. Its
hazards are what may happen at that `await`: another event, a late answer, a
prompt that stays open, a user who changes their mind.

| part | state | operations | what is hard | correct when |
|---|---|---|---|---|
| proximity engine, `server/proximity.rs` | the sets of linked peers of a space | `update_proximity`, `remove_peer` | four rules (near, far, wall, room) decide one link; the loop updates pairs one by one | links symmetric, no flapping, both told, one offerer |
| spaces, `server/state.rs` | a member's space (kept twice), position, dnd flag, links | join, leave, set_pos, set_status, enter_space, tick | the tick against moves and departures | no link across spaces, capacity, dnd isolates |
| paging, `server/state.rs` | rings and calls, kept at both ends; one sleeping task per ring | page, page_accept, page_end, page_timeout, leave | crossing calls, timers nobody cancels, departures | both ends agree, consent, every ring ends |
| signal relay, `server/state.rs` | none of its own | route_signal | order of signals against links; loss | a signal falls between the connect and the disconnect that explain it |
| connection, `server/ws.rs`, `outbox.rs` | reader, writer, bounded channel, kick permit, token deadline | hello to cleanup, send, send_lossy, kick, reauth | the reader waits where others must not; a kick finds nobody waiting | a lost control message ends the connection; nobody lingers |
| views and roster, `ws.rs`, `client/main.ts` | what each client believes of its space and of everyone online | handlers of welcome, space_snapshot, space_joined, space_left, proximity, presence, presence_left | a snapshot built under the lock and queued after it | no audio link the server does not hold; an exact roster |
| chat, `state.rs`, `store.rs`, `client/main.ts` | a board per space, its rows, the device's read marks | post, remove, react, send_notes, restart | crash between row and memory; boards of two spaces in one queue | the rows are the board; clients converge |
| catalog, `state.rs`, `store.rs`, `registry.rs` | an org's spaces, its counter, their rows | get_or_create, create_space, from_catalog | a crash between any two statements | restart restores what was shown; a lobby always |
| client calls, `client/main.ts`, `ui.ts`, `audio.ts` | ringing, incoming and live pages, banner, ringtone | page, accept, hang up and their messages | optimistic state; cancel crosses accept | nobody is in a call, or rung, with nothing to see |
| client session, `main.ts`, `net.ts` | session, socket, retry and heartbeat timers, credential renewals | join, drop, reconnect, cancel, reauth, leave | stale sockets, racing retries | the screen says what goes on behind it; it settles |
| client links, `client/audio.ts` | a connection per peer, with reasons | negotiation over a lossy relay | glare, rollback, links closed and reopened | what one side sends the other hears |
| client microphone and video, `audio.ts`, `main.ts` | captures, senders, epochs, mute, background effect | toggle, acquire, swap, preview, share, stop | late `getUserMedia` results; swaps in flight | nothing is captured that is not used; muted is silent; a video stays in its scope |
| client sign-in, `client/auth.ts`, `main.ts` | session, keychain copy, queue of writes, load in flight | restore, renew, sign in, switch, sign out | writes and answers overtaken | the keychain holds what the user last asked for |
| card and admin panels, `main.ts`, `ui.ts`, `select.ts`; billing gate, `server/billing.rs` | organisation chip, billing lock, invite and member lists; the gate's cache | switch, poll, refuse, issue, mail, revoke, remove | answers that outlive what they were asked for | what is shown is of the organisation held, and is the backend's |
| floor, `main.ts`, `input.ts`, `loop.ts`, `render.ts`, `board.ts` | keys, walk, positions sent, sleeping frame loop, idle clock, chat by walking | frame, key, click, switch | lost wakes, throttled positions | a canvas that sleeps is current; the others see us where we are |
| video panel, `main.ts`, `ui.ts`, `videolayout.ts` | remote videos, their places, dismissal | track, label, leave, pick, dismiss | one panel redrawn from many handlers | every live video once, no frozen frame |
| authentication, allowances, ICE list, beacon (server) | caches and buckets | resolve, admit, take | refetch races | not modelled |
| drawing, texts, updater, desktop shell | DOM and canvas | – | nothing concurrent but the updater | not modelled |

`PROJECT.json` lists every part under `components`, and the hazards of the code
with the properties that watch them under `hazards`. Those that no property
covers are under "Where the code and its own words disagree" and "What is left
out".

## The modules

| module | stands on | models | checked by | proved in |
|---|---|---|---|---|
| `Proximity` | – | the engine as pure operators, in closed form | `Spaces` | `Views_proofs` |
| `ProximityLoop` | extends `Spaces` | the engine's loop, pair by pair, in any order of the members | `Spaces` | `Views_proofs` |
| `Spaces` | extends `Proximity` | membership, positions, links of one org | `Spaces` | `Views_proofs` |
| `Calls` | – | what paging promises, abstractly | through `Paging` | |
| `Paging` | instantiates `Calls` | rings, calls, timers of one org | `CallView` | `CallView_proofs` |
| `CallView` | extends `Paging` | both queues and each client's banner, rings and calls | `CallView` | `CallView_proofs` |
| `Connection` | – | one connection: tasks, outbox, socket | `Connection` | `Server_proofs` |
| `SpaceViews` | extends `Spaces` | what clients believe, beside `Spaces` | `Views` | `Views_proofs` |
| `Chat` | – | boards, rows, crash and restart, the device's marks | `Views` | `Server_proofs` |
| `Catalog` | – | an org's spaces, statement by statement | `Views` | `Server_proofs` |
| `VideoPanel` | – | one client's remote videos and the panel that shows them | `Views`, `VideoPanel_leave` | `Views_proofs` |
| `ClientSession` | – | one client's attempts, session, sockets and timers | `ClientSession` | `ClientSession_proofs` |
| `PeerLinks` | – | one pair: the server's links and relay, two engines | `PeerLinks`, `PeerLinks_glare` | `PeerLinks_proofs` |
| `Microphone`, `LocalVideo` | one extends the other | handlers of the microphone, and of camera and screen, as functions | `Capture` | `Capture_proofs` |
| `Capture` | extends `LocalVideo` | one client's captures against links, prompts and teardown | `Capture` | `Capture_proofs` |
| `SignIn` | – | sessions in memory, in the keychain and in flight | `SignIn` | `SignIn_proofs` |
| `OrgDesk` | – | chip, lock notice and trial pill of the join card; what the billing gate refuses | `Office`, `OrgDesk_refusal` | `Office_proofs` |
| `AdminPanels` | – | the invite and the member panel, the invite step | `Office` | `Office_proofs` |
| `Floor` | – | one client walking, drawing on demand, chatting at the board | `Office` | `Office_proofs` |

`MCSpaces`, `MCCallView`, `MCViews`, `MCCapture` and `MCOffice` hold the
constants and the bounds of the run they are named after; the other runs check
their component's module as it is.

### How state and actions correspond to the code

**Proximity, ProximityLoop.** `UpdateProximity` gives the links after a tick as a
function of positions, dnd flags and the links before; `LinkAfter` is the
decision for one pair, `Blocked`, `Near`, `Far`, `BothInRoom` its rules.
`update_proximity` really is a double loop over pairs that changes both entries
as it goes and collects what to tell each peer. `ProximityLoop` has that loop, an
inner one in an outer one, over every order of the members (a `HashSet` gives them),
and `LoopTellsTheChange` compares it with the closed form for every state of `Spaces`.
Positions are integers: the engine only compares squared distances and rectangle
bounds.

**Spaces.** `spaceId` is `MemberState::space_id` and `memberIds` is
`SpaceState::member_ids`: the code keeps a member's space twice and the model does
too. `Join`, `Leave`, `SetPos`, `SetDnd`, `EnterSpace` are the `Org` methods,
`Tick` one pass of `spawn_tick_loop`, which runs under the lock (`with_tick`).
Ids come from an atomic counter read *before* the lock is taken, so they join in
any order (`freeIds`). `pick_spawn` may give any point of its spiral.

**Paging.** `paging`, `ringingOut`, `ringingIn` are the sets of a member record.
`PageOutcome` has the checks of `Org::page` in their order. `page_end` is three
actions, `HangUp`, `Cancel`, `Decline`, the first of its cases that applies. Every
ring adds a task to `timers`; nothing removes it but waking. `rings` and `ringNo`
number the rings: history, so that a timer can be told from a later ring's.

**Calls.** The promise: a set of rings and a set of live calls. A call begins only
by answering a ring of that pair; ending one ends no other; a departure takes
only the leaver's. `Paging!Abstract` maps the two-ended sets to it.

**CallView.** `requests` and `events` are a connection's two directions.
`ServePage`, `ServeAccept`, `ServeEnd` are the reader's dispatch around the actions
of `Paging`; `PageRinging` ... `PageEnd` are the `page_*` handlers of `main.ts`,
`HandlePage` ... `HandleHangUpRing` the user's buttons. `pages`, `calling`, `offers`
are the maps of `Session`, `Focus` is `callFocus`, and `banner` is what `setCall`
last drew: the buttons act on `Focus`, the user reads `banner`.

**Connection.** `phase` is how far `handle_ws` has got, `reader` what its `select!`
loop awaits. `Control` is `Outbox::send`, `LossyCheck` then `LossyPut` is
`send_lossy`, which looks at the room left and then tries, with the reader free
to take slots in between. `Queue` and `Wait` are the reader's own
`tx.send(..).await`, which waits in the channel's fair queue: a slot the writer
frees goes to it first (`granted`). `Kick` leaves a `Notify` permit. The rest of
the org is the environment.

**SpaceViews.** A client handles its messages in the order they were queued, so
its queue is folded away: `told[m]` is the client's session once it has handled
everything queued so far, its peers, links, roster and who is listed as offline.
Only what decides its next request (`viewed`) lags. The one message queued outside
the lock is the answer to `enter_space`: the reader holds it (`reply`) between
`Enter` and `Reply`, and anything may overtake it.

**Chat.** Each change writes the store and then memory and the broadcast, under
the lock; each can crash in between (`Change`). The release profile aborts on
panic, and a failing store panics, so a failing store is a crash too. `inbox` is
the client's queue, `owed` what the reader has yet to queue after releasing the
lock, `chatSeen` is `localStorage`. One emoji stands for all. `Load` is `load_all`'s
`ORDER BY id`, as a rank: in place i stands the note with i - 1 older ones.

**Catalog.** Creating an org is five statements and a space two, in no
transaction; a crash may leave the rows as any of them left them (`CrashAfter`).
`Restore` is startup, `RestoreWrites` the lobby `from_catalog` puts back, `LoadSpaces`
the rows in the order of their `ord`.

**VideoPanel.** A peer's video is a track, which the browser brings, and a label,
which the peer signals; either may come first. `conn` is the engine's side,
`remotes` is `Session.remoteVideos`, `panel` and `reopen` what `syncVideoViews` drew
last. `LayoutVideos` is `layoutVideos`. Our own capture starts and ends at any time
here; when it really does is `LocalVideo`'s.

**ClientSession.** `c` is the client's module variables; an id stands for an
attempt with its `AbortController`, its `HirobaNet`, and the session it may become,
and is used again once nothing refers to it. `c.stage` is how far an attempt has
got through `connectSession`, "stale" once it was aborted. Sockets that were let go
("gone") still end, later.

**PeerLinks.** `link` is what the server holds for the pair, `pc[c]` the `PeerConn`
side c has for the other. The browser's `RTCPeerConnection` runs the operations
asked of it one at a time (`pc[c].ops`), after the handler has returned. `HandleSignal`
is `handleSignal` with its collision test, `Negotiate` the `negotiationneeded`
handler, `Server(c)` the relay (`route_signal`), which may drop a signal (`lost`).

**Microphone, LocalVideo, Capture.** Each handler of `audio.ts` and the ones of
`main.ts` around it are a function from the microphone `m` (or the video `v`) to the
one it leaves, up to its next await; `Capture` applies them, and what each await
brings, in any order. The epochs of the code are modelled by what they decide: an
acquisition is "fresh", or "stale" since an epoch moved.

**SignIn.** `a` is the client's memory and screen, `a.asked` the requests in flight,
`a.load` the single-flight load and `a.callers` who awaits it, `queue` the keychain
writes not yet made. An id stands for one session, its JWT and its refresh token.
`word` is what the user last asked for.

**OrgDesk.** `d.listed`, `d.chip`, `d.switch` are the list of memberships, the chip
and `orgSwitchPending`; `d.lock` is the organisation the notice is tagged with
(`billingLockOrg`), `d.status` what it tells (`billingLockStatus`): whose status, and
whether it is still the guess `reflectSuspension` starts with. `bills` are the requests
of `syncBillingLock` in flight, `gate` the organisations the server's `BillingGate` has
cached as locked. `EntryRefused` is a join or a reconnect refused on that answer, for
the organisation of *some* token: one typed in, or of a session that was replaced
while the attempt went on. Where sessions come from is `SignIn`'s business: here
any may be adopted at any time.

**AdminPanels.** A command is two requests, the change and the list fetched again
(`flows`); the backend serves them in any order and a request may fail before or
after it acted (`Serve`, `Fail`).

**Floor.** A space is a line; a frame's time is the distance walked in it. `c` is
the client's memory, `Frame` is `runFrame`, and `Handled` is what any other handler
does, with or without a wake. `drawn` is history: is the canvas still what would be
drawn now?

Some definitions are there to be broken: a comment calls them a mutant of the
definition they follow. Each property is checked against one, a plausible bug of
the code it is about, and TLC finds the property violated there.

## The runs

| run | instance | shows |
|---|---|---|
| `Spaces` | 3 connections, lobby and a team space of capacity 2, a strip with every distance relation; 23,848 states | membership, links and capacity are one story (`SpacesSound`); the loop computes the closed form in every order, tells each peer exactly what changed and names one offerer (`LoopTellsTheChange`); no flapping (`TickSettles`), links not dropped on a whim (`LinksHeld`); dnd isolates and earshot connects, for good (`LinksFollow`) |
| `CallView` | 2 members, 2 rings, one request and one event in flight; 218,997 states | the server's two ends agree, with a timer for every ring (`RingsSound`); `Calls` is implemented (`KeepsThePromise`); every ring ends (`RingsEnd`); every call or offer the server holds is on its member's screen, coming to it, or being ended by it, the ringtone plays for exactly the offers, and the banner says what its buttons act on (`ViewSound`) |
| `Connection` | channel of 4, reserve 2, socket of 1; 13,247 states | the bound, the reserve, that lost means ending, and that kicks, expiries and closed sockets end in a departure (`EndingsEnd`) |
| `Views` | the sum of four instances, below; 661,711 states | the rows are the board at every moment (`StoreSound`), clients converge on it (`ViewConverges`), what counts as read was shown (`SeenMeansShownWhileUp`); a restart restores what was shown, with a lobby and unique names (`Restorable`, `CatalogSound`); no ghost links ever, exact spaces unless a snapshot was overtaken or a space re-entered, exact rosters always (`NoGhostLinks`, `ViewExact`); the video panel shows each live video once and nothing else (`PanelSound`) |
| `ClientSession` | 2 attempts alive at a time, 2 retries, 2 missed pongs; 88,760 states | the screen tells what goes on behind it, no socket is orphaned (`OneStory`); nothing replaced is ever heard (`StaleIsSilent`); reconnecting ends, if the tokens it waits for come, and a dead session is written off (`SettlesInTheEnd`) |
| `PeerLinks` | one pair, 2 links opened one after the other, a track each; 190,600 states | a signal is relayed only over a link whose connect its receiver has been told (`Explained`); over an undisturbed link the initiator is heard (`InitiatorHeard`) |
| `Capture` | 2 peers, 3 microphone tracks, 2 video attempts; 207,007 states | no microphone open without a use, muted is silent, the org is told the truth, senders carry what their peers may hear (`MicSound`); no capture leaks, a video stays in its call or place (`VideoSound`); alone, the microphone is given back (`MicGoesIdle`) |
| `SignIn` | 2 sessions, one request besides a switch, 2 writes; 274,544 states | the keychain holds what the user last asked for (`KeychainFollows`); a stale session is renewed or given up, and a connection never waits for its token for ever (`RenewsOrGivesUp`) |
| `Office` | 2 organisations, 2 requests; panels of one row, 2 commands; a line of three places, a board, a room and a seat, 2 messages each way; 520,096 states | the notice and the chip are of the organisation held, whatever is refused or answered late (`LockSound`, `ChipTellsOrg`); a lifted lock comes off (`LockLifts`); a panel shows the backend's list or an error (`PanelCurrent`); a loop that sleeps shows what is so (`AsleepIsCurrent`); at rest the server has us where we are (`PeersSeeUs`); the board knows whether we stand at it (`ChatAtBoard`) |
| `OrgDesk_refusal` | 2 organisations | a violation, see below |
| `PeerLinks_glare` | one pair, one link, 2 tracks | a violation, see below |
| `VideoPanel_leave` | 2 peers | a violation, see below |

`MCViews` is a sum and not a product: none of its four modules reads another's
variables, so `topic` picks one per behaviour, which moves while the others rest
in their initial states. Each property is thereby checked over exactly the
states of its own module. `MCOffice` does the same with the card, the panels and the
floor, and `MCCapture` with the microphone and the video.

### Bounds, and why they are enough

- `MaxConnections` = 3 in `Spaces`: every rule is about a pair and whoever disturbs
  it. An id is used once, so a member who reconnects is another connection. Two in
  `SpaceViews`, where the disturbance is of one client by the other's join, move or
  departure; its lobby is full with one member, so that coming back can be refused.
- The floor of `MCSpaces` is a strip 13 wide with a room and few requests, chosen
  so that a pair can be near, in the hysteresis band, at and beyond the far edge,
  across the wall, and in the room beyond the far radius. Some requests lie
  outside the floor, to be clamped.
- `MaxRings` = 2: two rings of one pair (a stale timer), or crossing rings. Two
  members in `CallView`, since a call is a pair's; the theorems about `Paging` hold
  for any number, with third parties. `MaxRequests` = 1 and `MaxEvents` = 1 bound what
  a client *starts* with something in flight; what the server sends is not bounded,
  so accept, cancel, timeout and departure still cross. `MCBound`: one of the two
  never turns do-not-disturb on.
- `Cap`, `Reserve`, `SocketCap`: the code's 256 and 192 shrunk to the least that
  has room above, at and below the reserve, and a socket that can pend.
- `MaxNotes`, `MaxPosts`: posts beyond the cap, so that the oldest come down.
  `MaxLag` bounds messages on their way to a client when a change begins; more
  wait as `owed` snapshots and boards. A change waits for room there, a bound of
  the model alone (the real channel disconnects instead, as `Connection` has it).
- `MaxCrashes` is one in `Chat`, since a restart starts from the rows and nothing
  else, and three in `Catalog`, so that a crash can hit the repair of a crash.
  `MCBound` of `MCViews` keeps one of the two people from changing chats and from
  coming back after the crash: the other does both.
- `MaxSpaces` = 4 for the code's 64: the two spaces an org starts with and two more.
- `Ids` of `ClientSession` and `SignIn` are reused once nothing refers to them, so
  two allow any number of attempts or sessions in a behaviour, an old one and a
  new one alive at a time. `MaxReconnect` is the code's 6 shrunk to
  two: a retry, and a last one; `MissedLimit` is the code's own.
- `MaxLinks` = 2 in `PeerLinks`: a link and its reopening, or a proximity link and a
  page at once. `MaxTold` bounds how far the server runs ahead of a client when it
  opens or closes a link.
- `Capture`: two peers, since a call and a bystander are two; one of them is never
  called while the microphone is checked (`MCBound`), and one swap of each sender at
  a time is on its way.
- `CardBound` of `MCOffice`: one organisation at a time is in the gate's cache, and none
  while one is on trial, since a refusal looks at neither; only one is ever on trial.
  It bars steps of the backend and the gate that are not fair.
- `MCBound` of `MCOffice`: one panel is used at a time; on the floor at most two of eight
  circumstances hold at once (away, microphone on, a peer, reading, walking, opposing
  keys, a switch asked, a switch told).
- `MaxAsked`, `MaxQueue`, `MaxFlows`: requests of one kind in flight at once. Two
  commands are what it takes for answers to cross.

`CHECK_DEADLOCK FALSE` where the system may really stop: every connection has come
and gone, the crashes, posts or links explored are used up, or the user is done.

### Fairness

People's actions, the network's failures and everything a user may decline are
never fair. What is:

- `Spaces`: the tick task runs for the server's lifetime and waits for no client,
  so `Tick` is weakly fair.
- `CallView`: a sleeping task wakes, so each ring's `TimerWakes` is weakly fair.
- `Connection`: the runtime polls ready tasks (weak fairness of the handler's and
  the writer's steps). The org's lock is tokio's `Mutex`, first come first served,
  so steps that take it are strongly fair. `select!` polls its branches in random
  order, so a branch ready again and again is taken: the kick, the expiry and the
  end of the stream are strongly fair. That the *client* reads its socket
  (`LiveClient`) is assumed; without it see "a stuck client" below.
- `ClientSession`: timers fire and the offline window passes. Of an attempt, the list
  of ICE servers (`config.ts:100`), the socket and the welcome end, since each carries
  a timeout of 12 s; so does a renewal's list. The token before them carries none in
  the desktop build, so nothing is asked of it: that nobody waits for a token for ever
  is a premise of `SettlesInTheEnd` (`TokensCome`); without it an attempt may wait on. Nor is
  anything asked of the network: that it settles, one way or the other, is the other
  premise (`Calm`).
- `PeerLinks`: sockets, the browser's operations queue and the relay go on.
- `Capture`: the idle timer fires.
- `SignIn`: the keychain and the network are assumed to answer, with success or failure
  (nothing bounds these requests, see "Session and links" below), and a
  renewal asked for again and again is granted once (strong fairness of `Renewed`).
- `OrgDesk`: the poll's timer fires, and of the requests made again and again some
  are served and answered (strong fairness). What the gate has cached grows old
  (`CACHE_TTL`), and a refusal is on its way no longer than an attempt lasts, so
  `GateForgets` is weakly fair.

### Where the code and its own words disagree

Three runs check one property each, which states what a comment of the repository
says, and find it violated:

- `PeerLinks_glare` (`client/audio.ts:555`): "whenever (re)negotiation is needed,
  make an offer" (`client/audio.ts:1331`). `handleSignal` takes every signalling
  state but stable for a collision, also the one in which an answer to its own
  offer is still being applied. An offer that the polite side makes right after
  that answer is dropped by the impolite side although nothing collides, the polite
  side waits for an answer for ever, and the track it added is never heard.
- `VideoPanel_leave` (`client/main.ts:2866`): the panel is "Hidden when no video is
  live" (`client/index.html:616`). `teardownSession` clears `session` before it
  destroys the engine, whose reports that the videos are gone then return early. A
  panel that was up stays up, with nothing live in it, until the next session.
- `OrgDesk_refusal` (`client/main.ts:1458`): `billingLockOrg` is "Which org
  `billingLockStatus` was computed for" (`client/main.ts:1217`), and "A lock belongs to the
  org it was computed for" (`client/main.ts:1235`). `reflectSuspension` tags the notice
  with the organisation held when the refusal arrives. If that is not the one refused
  (a token typed in, a session replaced during the attempt), the notice covers the join
  form of an organisation that is not locked, until a status request of that one
  succeeds. `LockSound` says what holds: what the notice tells is of the organisation
  held, or still that guess, and is being asked about.

More of the kind, seen while modelling and visible in the definitions, several of
them excused by a history variable or a premise of the property named:

*Server.*

- A timer ends whatever ring its pair has when it wakes (`state.rs:1438`). Page,
  cancel and page again: the second ring is declined early, by the first's timer
  (`Paging!PageTimeout`).
- A `space_joined` or `space_left` queued between `enter_space` and the queueing of
  its snapshot is undone by that older snapshot (`ws.rs:267`), whose peers are to be the
  space's "current roster" (`PROTOCOL.md:373`). The peers a client shows stay wrong until that
  peer comes or goes again (`SpaceViews`, `overtaken`).
- A stuck client: "a full queue disconnects the client" (`outbox.rs:44`), unless the
  reader is itself waiting for a slot of that queue (`ws.rs:267`); a client that has
  stopped reading then stays in the roster (`Connection`, without `LiveClient`).
- The note counter restarts from the newest note *left* (`state.rs:635`), so a deleted
  newest note's id is issued again after a restart, and a device that had read the
  deleted note counts the new one as read, though ids are to stay meaningful "across
  restarts of either side" (`main.ts:167`; `SeenMeansShownWhileUp` stops at a restart).
- `Org::join` lands everybody in the lobby without looking at its capacity
  (`CapacityHeld` leaves the lobby out), which `PROTOCOL.md:88` gives as 5.
- A pair is far only *beyond* the far radius (`Proximity!Far`); `PROTOCOL.md:86` says
  "distance ≥ this".
- Re-entering the space one is in sends a snapshot "so the client can resync"
  (`state.rs:948`); its handler drops all proximity audio (`main.ts:2143`) while the
  server keeps the links, so nothing reconnects them (`ViewExact`, `reentered`).
- The "already live" half of "Already live or already ringing this peer → treat as
  success" (`state.rs:1270`) is never reached: a callee in a call is "busy" first.
- Signals are sent lossily (`state.rs:1499`). One that is dropped leaves the two engines
  waiting until the link is closed and opened again (`PeerLinks`, `lost`).
- Kicked connections count towards an account's three until they have left
  (`state.rs:716`), so a burst of joins kicks more than the excess. Not modelled.

*Calls* (`CallView`; all allowed by `ViewSound`, which is about what must show, and
not about what shows a little longer).

- A cancel that crosses the accept ends the call it meant to prevent, and the other
  side sees a call begin and end. A ring of someone who has just left, or whose
  rejection came first, stays on the banner until it is hung up. A decline that is
  late ends a later ring of the same pair. A rejection of a repeated page ("busy")
  takes the pending ring off the banner.
- `canPagePeer` says "same rules as the sidebar button" (`main.ts:483`); the sidebar
  also offers people who are being rung (`main.ts:1875`).
- The end of a mere ring, by cancel, timeout or decline, deletes the video a peer is
  sharing with the room (`main.ts:2279`), which `main.ts:2425` keeps; it is back at the
  peer's next label (`VideoPanel`, `hungUp`). And the button that reopens a dismissed
  panel survives the session (`main.ts:1794` hides the panel, not the button).

*Session and links.*

- `auth.ts:286` says that a token request left hanging "would hold a reconnect in
  "connecting" for good", and bounds that of a guest. The others are not bounded: the
  renewal (`auth.ts:501`), the switch of organisation (`auth.ts:392`) and the keychain
  (`auth.ts:479`), which the desktop's attempts await (`main.ts:1327`, `main.ts:1329`). The
  `online` handler leaves an attempt alone since "every phase of it (ICE, open, welcome)
  carries its own 12s timeout" (`main.ts:1679`), and the load is shared, so that after a
  cancel the next attempt waits for the same answer (`TokensCome`).
- Each `online` event lets a reconnect start over (`main.ts:1686`), though the lines
  above it mean not to let a flapping interface extend the window; a network that flaps
  keeps the client retrying for ever (`Calm`).
- An offer or answer of a link that was closed is relayed over the link that was
  opened since (`audio.ts:543`): `Explained` lets it, as the code does. The engine
  rejects it or takes it for one of the new connection. A hang-up that crosses a new
  proximity link leaves one side with the old connection and one with a new one.
- `PROTOCOL.md` has the initiator rule avoid glare; both sides still offer when each
  adds a track, and negotiation has to settle it.

*Capture.*

- When a call ends while `goLiveForPage` still waits for the prompt (`main.ts:2506`), there
  is no mute to restore yet, and the microphone granted afterwards stays unmuted, shown
  so, though mute is to be restored "when the last page ends" (`main.ts:2514`).
- `_syncMicSenders` compares `sender.track` while an earlier `replaceTrack` is in flight
  (`audio.ts:1386`), so a call that begins or ends meanwhile leaves that sender as the
  earlier swap had it (`SendersFollow`, `missed`).
- The place a share was asked for is checked when the picker opens (`main.ts:2730`); a
  member who walks from one group place into another shares with the second.
- A preview that supersedes an acquisition leaves the user unmuted without a
  microphone until the next one; a device picked is forgotten when the settings close
  before its stream arrives.

*Sign-in, card and panels.*

- A sign-out while a renewal is being saved, or while its request fails, brings the
  session back into memory (`auth.ts:506`, `auth.ts:540`, `main.ts:610`), and a renewal of
  an older session can overwrite a newer entry (`KeychainFollows`: `word` is then
  `Unknown`). `effectiveToken` adopts what it loaded without looking again
  (`main.ts:1329`). A keychain that refuses shows the sign-in card and is not asked
  again (`main.ts:591`). A restore set off by the `online` event does not wait for an
  org switch (`main.ts:772`). The placeholder session of another server is put aside
  for the server typed when it is restored, not when it is used (`main.ts:600`).
- The trial pill of the last organisation stays when the status request of the new one
  fails (`main.ts:1228`). The lock notice's buttons, redrawn during a switch, are enabled
  again. Two lists of a panel answered out of order show the older one (`overtaken`); one
  answered after an org switch shows the former organisation's. Leaving the invite step
  while it mails frees the busy flag it shares with the panel (`ui.ts:1342`), and a panel
  opened meanwhile misses those invites (`overtaken`).

*Floor and updater.*

- A position sent before `enter_space` is answered is handled in the new space
  (`input.ts:111`, `input.ts:197`): the server has us at a spot of the old one until the
  next step (`PeersSeeUs`, `crossed`).
- Two opposing keys held cancel out, so `tick` returns false, though it "returns `true`
  while a movement key is held" (`input.ts:145`): the loop sleeps, and releasing one of
  them wakes nothing while the other is still down. A key released while the window has
  no focus stays down. A chat opened by walking and a space switch can leave the chat
  open or closed until the next frame. Restoring mute after a page redraws only at the
  next wake (`main.ts:2526`).
- A check for updates reads `installing` before it awaits the close of the offer it
  replaces (`updater.ts:76`, `updater.ts:85`), so a new offer can replace one whose
  installation began meanwhile.

## The proofs

Each proof module extends its component, or the components that belong together, and
TLAPS. Assumptions are those on the constants, named in the component's module
(`SpacesAssumption` and so on), which TLC evaluates in every run.

**`Views_proofs`** has four parts. Of `Spaces`, for every number of connections,
catalog, capacities and floor: `TypeOK`, `SpacesSound` (its four parts are lemmas of
their own), `TickSettles`, `LinksHeld`. `TypeOK` is inductive alone; on top of it
`LinkInv` is: membership, symmetry, links within the space, and that an id not yet
handed out is offline.
They need each other: a departure cleans only the entries its own entry names, so
that no link of the leaver is left follows from symmetry, and symmetry is preserved
by a tick since the decision for a pair is symmetric. `TickSettles` follows from
`LinkInv` in one state: the decision is idempotent because near and far cannot both
hold, for which `near <= far` is assumed of every floor, as the code's defaults have
it.

Of `ProximityLoop`: `LoopTellsTheChange`, for any number of members and every order of
them. The two loops are recursive functions, and what their turns make of a state is
followed turn by turn: `Ran` says that the pairs examined so
far (`Seen`) are linked as the closed form has it, the others as before, and that each
peer has been told how its own links changed so far, nothing twice. `ExamineKeeps` is
the step; it needs symmetry, since the link is read from one entry only, and that a
pair not examined yet is not in `Seen`, since an order names nobody twice. At the end
`Seen` is every pair, an order being onto. The induction itself is on the set of turns
after which `Ran` holds (`TurnByTurn`), for want of induction over a formula.

Of `SpaceViews`, for every number of members and requests in flight on top of that:
`NoGhostLinks` and `ViewExact`. `ViewInv` adds what a reader holds (`Holds`): the
snapshot is of the space its member is in by now, and until something overtakes it, it
is what the server holds by now, with not a link yet, since a member just moved has
none. The rest of it is the two properties, member by member. Each handler is one
lemma on all the fields of the view it leaves; `BroadcastDoes` is for every step that
ends in `broadcast_presence`, `Follows` for whoever is told of comings and goings, and
that a leaver's links vanish from the others' entries is symmetry again. A tick tells
each member the very difference of its entry. `ViewServesSpaces` proves that the server
takes the steps of `Spaces` and no other, so that all that is proved of `Spaces` holds
there.

Of `VideoPanel`, for any number of peers: `PanelSound`. `PanelInv` adds that no track is
left on a connection without a link, that nothing of a session is left in the engine
after it, and that the session keeps peers' videos only, none twice. A selection of
videos (`Where`) is a recursive function, followed turn by turn as the loop is
(`WhereDoes`): it has the videos asked for, in their number and order. Hence the layout
is whole (`LayoutWhole`): what is on the stage, in the corner and in the strip are the
videos shown and no other, and since none is shown twice and there are as many places,
each has one. `SyncDoes` is then all a step that draws again needs, and a step that does
not must leave what is shown alone (`StillKeeps`): a link added in earshot changes no
call, one taken closes no connection that has a video.

**`Server_proofs`** is about the parts of the server below the floor. It begins with
what the two stores need: a finite set whose keys differ has one enumeration in the
order of its keys, and ranking by "how many are below" finds it (`RankedBy`).

Of `Chat`, for any number of people, spaces, posts and crashes: `StoreSound`,
`ViewConverges`, `SeenMeansShownWhileUp`. `StoreInv` says of the rows, up or down, that
ids and serials tell them apart and agree on their order, and that each space's rows
load as a list of at most the cap (`Stored`); of a server that is up, that its boards
are those lists and its next id is beyond every row. Every operation is shown to be
`Legal`: it changes one space's rows and board together. That is all the crash in the
middle needs, since it keeps the rows alone. `ViewConverges` is about what a client
*will* show: the last space in its queue is the one it is in unless the snapshot is
still owed, and the last board in its queue, or the one on show, is the current one
unless a board is owed (`ViewInv`). Which queue empties first then does not matter.
`SeenInv` holds as long as there was no crash: ids are then the numbers of the posts,
the notes up to a device's mark were all shown, and of two boards of one space, on
the server, in the queue or on show, the later has no note up to the newest of the
earlier that was not already there (`Follows`). Without that last part a late board could
bring back under the mark what was never shown.

Of `Catalog`, for any names, cap and number of crashes: `Restorable`, `CatalogSound`.
`CatalogInv`: whatever statement the server stopped after, the rows are those of
*some* proper list of spaces, numbered without gaps, with the lobby first and neither
an id nor a name twice. Each statement of `NewOrg`, `Restore` and `CreateSpace` leaves
such rows (`Written`), so a crash after any of them does; a live org shows that list.
The counter may be behind the rows. That `FreshSeq` still finds a free number is a
counting argument: there are more candidates than spaces.

Of `Connection`, for every capacity, reserve and socket: `TypeOK` (the
channel never holds or promises more than its capacity), `LostMeansEnding`, and
`ReserveKept`. The last is not inductive as it stands, since a lossy sender puts
what it looked at earlier. `ReserveInv` adds that while a sender is between its
look and its try, its slot is still there: only one sender is, because the
senders hold the org's lock, and the reader's own messages are control messages.

**`CallView_proofs`**, for every number of members, rings and messages on their way,
has two parts. Of `Paging`: `TypeOK` and `RingsSound`, whose parts (`EndsAgree`,
`OneThingAtATime`, `OnlyWithOnline`, `RingHasTimer`) are together one inductive invariant
(`PageInv`): the operations read one end only and write both, so what they do to the
other end is right only if the ends agreed. On top of it `KeepsThePromise`: every step
of `Paging` is a step of `Calls` or a stutter. Of `CallView`: `ViewSound`, by an
inductive `CallInv`. `NothingHidden` alone is not inductive: a
message on its way that puts a call on the screen helps only if nothing queued after
it takes the call off again. `NothingLost` says that, and for what is on the screen
already: nothing queued takes it off, or the client has asked the server to end it.
A server step is shown by what it sends (`Announces`: who gains a call or an offer is
told, who loses one may be), a client step by what it takes off its own screen
(`ClientKeeps`). `PageInv` comes along as a conjunct, since what the server does to the
other end depends on it, and `CallServesPaging` proves that under its queues the
server takes the steps of `Paging` and no other, so that all that is proved of
`Paging` holds there.

**`ClientSession_proofs`**, for every set of ids and every limit: `OneStory`, and the
action property `StaleIsSilent`. `SessionInv` adds to the screen's story how attempts
and sockets hang together (`Kept`): an attempt goes on under the one controller there
is, and a live socket belongs to the session or to an attempt that is opening it. The
same lemmas give the action property: each step that is not one of the current
attempt, session or timer is shown to leave what the client shows as it was, and
every other step is `Steady`: what was let go before it is let go after it.

**`Capture_proofs`**, for any set of peers, tracks and attempts: `MicSound` and
`VideoSound`. Both are lists of what must not be captured, heard or claimed, and neither
is inductive, since a handler looks at what the one before its await left behind.

`MicInv`: every sender carries what its peer may hear, or the last of its pending swaps
is that (`Follows`), unless `missed`. In a session there is moreover no preview without
its panel, toggles wait only while there is no track and then the org still believes us
muted, and a swap that is wanted replaces a track there is (`Sound`). In a client that
has left nothing under way is still wanted (`MicLeft`): everything in flight is stale, so
what arrives is stopped. Handlers that touch none of this are `Alike` and share one proof.

`VidInv` accounts for every open capture: it is what is shown, its source, or held by an
attempt that is probing it or preparing its background (`Accounted`). An attempt that is
under way is not the video (`Busy`), and one that no longer pends cannot install what it
gets (`Pends`). That an attempt becomes the video is two steps in the code, so the lemmas
leave out a set of attempts (`X`), the one that is just changing. The place or call it
was started for is `InScope`.

**`PeerLinks_proofs`**, for every number of links, tracks and messages: `Explained`.
`LinkInv` needs, beside "each signal on its way will find its link at the client",
that a signal *relayed now* would (`LinksTold`): what the server holds is what the
client will hold once it has handled its queue. A hang-up excuses the signals of one
page, the last one (`quit`), so nothing may be left of the page before that one:
`PagesInOrder` (pages come in the order of their ids) and `OldPagesSilent` (a page that
was over when another was opened carries no signal after that one's connect) say why,
and `KindsApart` that an id names one link. The server's steps are one lemma over what
is queued (`NewsKeeps`), the client's are `ReceiveKeeps` and `HangUpKeeps`.

**`SignIn_proofs`**, for every set of sessions and any number of writes queued:
`KeychainFollows`. Where nothing crossed (`word` is known), the last write queued is
what the user asked for, a load in flight has at most its own write in the queue, and
the session in memory is that one or none (`KeychainInv`). That a new session's id is
new needs a least number, which `LeastNumber` proves from the finiteness of intervals.

**`Office_proofs`** is about the client's own office, in three parts. Of `OrgDesk`, for
every set of organisations: `LockSound` and `ChipTellsOrg`. They are inductive with
`SwitchAlone`: nothing is picked from the menu while a switch is in flight, and a switch
that finds the session changed finds the chip right, or a list coming that will make it
so. `LockSound` speaks of every way to raise the notice: an answer to a status request,
and a refusal, which may bring a guess, or keep the status of a notice that is up, and
then `LockSound` before it says whose that is (`RefusedKeeps`).

Of `AdminPanels`, for any rows and any number of commands at a time: `PanelCurrent`. It
speaks of a moment with nothing in flight, so the invariant (`PanelInv`) speaks of the
others: an open panel shows an error, or a command of it is still due to end in a list
yet to be served or in an error, or every list to come that is not old, and with none to
come the one on show, is what the backend holds (`Told`). A command that acts makes what
was served before it old, and is itself due. The invite step is the exception, since its
mailing ends in no list: it has the screen to itself (`SetupAlone`), and a panel opened
meanwhile is `overtaken`.

Of `Floor`, for any width, seats, rooms, steps and number of messages on their way:
`AsleepIsCurrent`, `PeersSeeUs`, `ChatAtBoard`. `ClientInv` says why a loop may sleep
(`Wakeful`): what is dirty or still moving has a frame coming, a walk under way was
drawn or will be, and when none is coming the hints are those of where we stand and the
position sent is close enough. Every handler either wakes the loop or changes nothing
that is seen (`WokenKeeps`, `SameKeeps`), and `FrameKeeps` follows a frame through
walking, sending, speaking, drawing and going to sleep. `NetInv` follows our space and
position through both channels: the last snapshot on its way, and without one the
client, is in the server's space; while no move crossed a switch, moves go before
switches, none goes while a snapshot comes, and the last of them is the position sent.

The constants' assumptions are that bounds and limits are natural numbers, that
`None`, `Unknown` and the key of our own video are none of the values they stand
beside, and in `Spaces` those on floor and radii. Each inductive invariant was checked by TLC on the component's
instance before it was proved.

### Only model-checked

Liveness (`LinksFollow`, `RingsEnd`, `EndingsEnd`, `SettlesInTheEnd`, `MicGoesIdle`,
`RenewsOrGivesUp`, `LockLifts`, `InitiatorHeard`), which the prover does not reach. Every
safety invariant of the runs is a theorem.

## What is left out

- Names, colours, avatars, the mute, away and in_call flags of the roster, positions
  sent to others: copied, never decided on, by the parts modelled.
- Cooldowns and rate allowances: a refused post is a post not made, and a flood is
  `Connection!Stop`. Time is abstracted to "a timer may fire now".
- Several orgs, which share no state but the process and the store's tables, and
  several connections of one account, with the limit of three.
- The server's authentication, key cache, allowances, ICE list and
  beacon: caches behind one lock each, libraries, or one-shot HTTP. Two hazards live
  there that no property covers: keys past their lifetime stay in use when a refetch
  fails (`auth.rs:346`), and a late billing answer overwrites a newer one
  (`billing.rs:60`; of that cache, `OrgDesk` has only who is locked in it). Schema migrations.
- Of the client: ICE candidates and restarts, gain and playback; which device a
  stream comes from; the browser build's sign-in (no keychain) and the native side
  of the sign-in window; undecodable tokens, the spending of refresh tokens, the
  endpoints a session was made for (`usable` is free); founding an organisation, copying
  an invite link, the billing portal; drawing, texts, the desktop shell, and the
  updater.

## Plan

Done: every part of the table above that is not marked "not modelled"; the proofs of
the engine, spaces and views, paging, the connection, chat and catalog, and of the
client's calls, session, links, captures, sign-in, card, panels and floor. What would
come next:

- A module of one account's connections and their limit; the key cache and the
  billing gate's requests; the updater.
