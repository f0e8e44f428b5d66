---------------------------- MODULE ClientSession ----------------------------
(***************************************************************************)
(* The client's connection to a server (client/src/main.ts and net.ts):    *)
(* joining, the attempts in flight, the session one of them becomes, its   *)
(* heartbeat and credential renewals, the drop, the retries that follow,   *)
(* and the three ways a user calls it off.                                 *)
(*                                                                         *)
(* One thread runs every handler to its end, or to its next await; between *)
(* two of them the network, a timer or the user may do anything.  An id    *)
(* stands for an attempt with its AbortController, its HirobaNet and the   *)
(* session it may become.                                                  *)
(***************************************************************************)
EXTENDS Naturals, FiniteSets, FiniteSetsExt

CONSTANTS
  Ids,           (* used again once nothing refers to them                 *)
  None,
  MaxReconnect,  (* MAX_RECONNECT                                          *)
  MissedLimit    (* HEARTBEAT_MISSED_LIMIT                                 *)

ASSUME ClientSessionAssumption ==
  /\ None \notin Ids
  /\ MaxReconnect \in Nat \ {0} /\ MissedLimit \in Nat

VARIABLES
  c,         (* the client: module variables, screen, attempts and sockets *)
  online,    (* navigator.onLine                                           *)
  suspended  (* the machine slept while a retry timer was running          *)

sessionVars == <<c, online, suspended>>

Kinds == {"ice", "reauth"}

Live == {"opening", "up", "dead"}  (* sockets the client has not let go of *)

(* Nothing refers to these.                                                *)
FreeIds(v) ==
  {i \in Ids : /\ v.stage[i] = "none" /\ v.socket[i] = "none"
               /\ v.session # i /\ \A r \in v.renewing : r.of # i}

FreeId(v) == CHOOSE i \in FreeIds(v) : TRUE

(***************************************************************************)
(* What handlers call.  Each takes the client and returns it changed.      *)
(***************************************************************************)
(* HirobaNet.close: ws is nulled, and the socket's own close comes later.  *)
Close(v, i) ==
  IF v.socket[i] \in Live THEN [v EXCEPT !.socket[i] = "gone"] ELSE v

(* controller.abort(): an attempt at its socket is over at once; one that  *)
(* awaits a token or an ICE list ends when its await does.                 *)
Abort(v) ==
  IF v.abort = None THEN v
  ELSE LET i == v.abort
           gone == [Close(v, i) EXCEPT !.abort = None]
       IN  IF v.stage[i] \in {"token", "ice"}
             THEN [gone EXCEPT !.stage[i] = "stale"]
             ELSE [gone EXCEPT !.stage[i] = "none"]

Begin(v, i, kind) ==
  [v EXCEPT !.stage[i] = "token", !.kind[i] = kind, !.abort = i]

(* teardownSession: the heartbeat and renewal timers go, the net closes.   *)
Teardown(v) ==
  IF v.session = None THEN v
  ELSE [Close(v, v.session) EXCEPT
          !.session = None, !.renewTimer = [k \in Kinds |-> None],
          !.missed = 0, !.capable = FALSE, !.inCall = FALSE]

GiveUpReconnect(v) ==
  [v EXCEPT !.state = "idle", !.dropped = FALSE, !.screen = "join"]

(* setTimeout: the handle of a timer still running is overwritten.         *)
Await(v, attempt) ==
  LET t == Min((0 .. Cardinality(v.armed)) \ v.armed)
  IN  [v EXCEPT !.armed = @ \union {t}, !.timer = t, !.attempts = attempt,
                !.state = "waiting", !.screen = "reconnecting"]

ScheduleReconnect(v) ==
  IF ~v.joined THEN GiveUpReconnect(v)
  ELSE IF ~online
    THEN IF v.windowOver THEN GiveUpReconnect([v EXCEPT !.attempts = 0]) ELSE Await(v, 0)
  ELSE IF v.attempts >= MaxReconnect THEN GiveUpReconnect(v)
  ELSE Await(v, v.attempts + 1)

OnSessionDropped(v) ==
  IF v.leaving \/ v.session = None THEN v
  ELSE ScheduleReconnect(
         [Teardown(v) EXCEPT !.windowOver = FALSE, !.dropped = @ \/ v.inCall])

(* clearTimeout of the handle there is.                                    *)
Disarm(v) == [v EXCEPT !.armed = @ \ {v.timer}]

CallOff(v) ==
  [Abort(Disarm(v)) EXCEPT !.leaving = TRUE, !.attempts = 0, !.state = "idle",
                           !.dropped = FALSE, !.screen = "join"]

LeaveSession(v) == Teardown(CallOff(v))

(* startSession: a session in place is overwritten, as initSession does;   *)
(* a TURN lifetime and an expiring token arm their timers.                 *)
StartSession(v, i, capable, ice, reauth) ==
  [v EXCEPT !.session = i, !.missed = 0, !.capable = capable, !.inCall = FALSE,
            !.renewTimer = [k \in Kinds |-> IF k = "ice" THEN (IF ice THEN i ELSE None)
                                            ELSE (IF reauth THEN i ELSE None)],
            !.attempts = 0, !.state = "idle", !.dropped = FALSE, !.screen = "space"]

(* The finally of both kinds of attempt.                                   *)
End(v, i) ==
  [v EXCEPT !.stage[i] = "none", !.kind[i] = "join", !.abort = IF @ = i THEN None ELSE @]

Init ==
  /\ c = [screen |-> "join", joined |-> FALSE, leaving |-> FALSE, attempts |-> 0,
          state |-> "idle", windowOver |-> FALSE, armed |-> {}, timer |-> 0,
          abort |-> None, stage |-> [i \in Ids |-> "none"], kind |-> [i \in Ids |-> "join"],
          socket |-> [i \in Ids |-> "none"], session |-> None,
          missed |-> 0, capable |-> FALSE, inCall |-> FALSE, dropped |-> FALSE,
          renewTimer |-> [k \in Kinds |-> None], renewing |-> {}]
  /\ online = TRUE /\ suspended = FALSE

Becomes(v) == c' = v /\ UNCHANGED <<online, suspended>>

(***************************************************************************)
(* The user.                                                               *)
(***************************************************************************)
HandleJoin ==
  /\ c.screen = "join"
  /\ FreeIds(c) # {}
  /\ Becomes(Begin([Abort(c) EXCEPT !.joined = TRUE, !.leaving = FALSE, !.attempts = 0,
                      !.state = "idle", !.dropped = FALSE, !.screen = "connecting"],
                   FreeId(c), "join"))

HandleCancelConnect ==
  /\ c.screen = "connecting"
  /\ Becomes([Abort(c) EXCEPT !.screen = "join"])

(* Mutant of HandleCancelReconnect: the timer is left to find out.         *)
CancelAttemptOnly ==
  /\ c.screen = "reconnecting"
  /\ Becomes([Abort(c) EXCEPT !.attempts = 0, !.state = "idle", !.dropped = FALSE,
                              !.screen = "join"])

HandleCancelReconnect ==
  /\ c.screen = "reconnecting"
  /\ Becomes(CallOff(c))

(* The leave button, the window's close button and pagehide.               *)
HandleLeave == Becomes(LeaveSession(c))

(***************************************************************************)
(* An attempt (connectSession, openConnection, HirobaNet.connect).         *)
(***************************************************************************)
Advance(i, from, to) == c.stage[i] = from /\ Becomes([c EXCEPT !.stage[i] = to])

TokenResolved(i) == Advance(i, "token", "ice")

IceResolved(i) ==
  /\ c.stage[i] = "ice"
  /\ Becomes([c EXCEPT !.stage[i] = "opening", !.socket[i] = "opening"])

SocketOpens(i) ==
  /\ c.stage[i] = "opening" /\ c.socket[i] = "opening"
  /\ Becomes([c EXCEPT !.stage[i] = "hello", !.socket[i] = "up"])

(* welcome: the attempt's own controller must still be the one in charge.  *)
Welcomed(i, capable, ice, reauth) ==
  /\ c.stage[i] = "hello" /\ c.socket[i] = "up"
  /\ Becomes(
       IF c.abort # i \/ (c.kind[i] = "retry" /\ c.leaving) THEN End(Close(c, i), i)
       ELSE StartSession(End(c, i), i, capable, ice, reauth))

(* No token, no network, a refusal, a timeout of 12 s, a socket that ends. *)
Fails(i, permanent) ==
  /\ c.stage[i] \in {"token", "ice", "opening", "hello"}
  /\ LET v == End(Close(c, i), i)
     IN  Becomes(
           IF c.kind[i] = "join" THEN [v EXCEPT !.screen = "join"]
           ELSE IF c.leaving THEN v
           ELSE IF permanent THEN GiveUpReconnect(v)
           ELSE ScheduleReconnect(v))

(* A cancelled attempt's last await ends, and so does the attempt.         *)
StaleEnds(i) ==
  /\ c.stage[i] = "stale"
  /\ Becomes(End(c, i))

(***************************************************************************)
(* The network.                                                            *)
(***************************************************************************)
(* Mutant of Silenced: the events of a socket that was let go get through. *)
NeverSilenced(i) == FALSE

(* `if (this.ws !== ws) return`.                                           *)
Silenced(i) == c.socket[i] = "gone"

(* A socket's close, or its error, reaches HirobaNet, perhaps long after   *)
(* the client let go of it.                                                *)
SocketEnds(i, after) ==
  /\ c.socket[i] = "gone" \/ (c.session = i /\ c.socket[i] \in {"up", "dead"})
  /\ LET v == [c EXCEPT !.socket[i] = IF @ = "gone" THEN "none" ELSE after]
     IN  Becomes(IF Silenced(i) THEN v ELSE OnSessionDropped(v))

(* Sleep, a Wi-Fi roam: the socket looks open and nothing comes through.   *)
Blackhole(i) ==
  /\ c.socket[i] = "up"
  /\ Becomes([c EXCEPT !.socket[i] = "dead"])

GoOffline ==
  /\ online
  /\ online' = FALSE
  /\ UNCHANGED <<c, suspended>>

(* The online event cuts a wait short; its budget starts afresh.           *)
GoOnline ==
  /\ ~online
  /\ online' = TRUE
  /\ c' = IF c.state = "waiting" /\ c.session = None /\ ~c.leaving /\ c.joined
            THEN Await(Disarm(c), 1)
            ELSE c
  /\ UNCHANGED suspended

(***************************************************************************)
(* Timers.                                                                 *)
(***************************************************************************)
(* OFFLINE_WINDOW_MS have passed since the drop.                           *)
WindowPasses ==
  /\ c.screen = "reconnecting" /\ ~c.windowOver
  /\ Becomes([c EXCEPT !.windowOver = TRUE])

Suspend ==
  /\ c.armed # {}
  /\ suspended' = TRUE
  /\ UNCHANGED <<c, online>>

RetryTimer(t) ==
  /\ t \in c.armed
  /\ LET v == [c EXCEPT !.armed = @ \ {t}]
     IN  IF c.leaving \/ ~c.joined THEN c' = v
         ELSE /\ FreeIds(c) # {}
              /\ c' = Begin([v EXCEPT !.state = "connecting",
                                      !.windowOver = IF suspended THEN FALSE ELSE @],
                            FreeId(c), "retry")
  /\ suspended' = FALSE
  /\ UNCHANGED online

(* Mutant of Heartbeat: silence is never the end of a session.             *)
PingOnly ==
  /\ c.session # None
  /\ Becomes([c EXCEPT !.missed = IF @ < MissedLimit THEN @ + 1 ELSE @])

Heartbeat ==
  /\ c.session # None
  /\ Becomes(IF c.capable /\ c.missed >= MissedLimit THEN OnSessionDropped(c)
             ELSE [c EXCEPT !.missed = IF @ < MissedLimit THEN @ + 1 ELSE @])

(* A pong also shows that this server has them.                            *)
Pong ==
  /\ c.session # None /\ c.socket[c.session] = "up" /\ c.missed > 0
  /\ Becomes([c EXCEPT !.missed = 0, !.capable = TRUE])

(* A page begins or ends: what droppedInCall is about.                     *)
CallToggles ==
  /\ c.session # None
  /\ Becomes([c EXCEPT !.inCall = ~@])

(* scheduleIceRefresh and scheduleReauth: the timer was set for a session. *)
RenewTimer(k) ==
  /\ c.renewTimer[k] # None
  /\ LET s == c.renewTimer[k]
         v == [c EXCEPT !.renewTimer[k] = None]
     IN  Becomes(IF c.session # s THEN v
                 ELSE [v EXCEPT !.renewing = @ \union {[kind |-> k, of |-> s, step |-> "token"]}])

Owns(r) == c.session = r.of

(* The awaited token, then for `ice` the awaited list: fresh, none to be   *)
(* had now, or refused for good, which closes the floor.                   *)
Renewed(r, got) ==
  /\ r \in c.renewing
  /\ got = "refused" => r.step = "token"
  /\ LET v == [c EXCEPT !.renewing = @ \ {r}]
     IN  Becomes(
           IF ~Owns(r) THEN v
           ELSE IF got = "refused" THEN LeaveSession(v)
           ELSE IF got = "fresh" /\ r.kind = "ice" /\ r.step = "token"
             THEN [v EXCEPT !.renewing = @ \union {[r EXCEPT !.step = "list"]}]
           ELSE [v EXCEPT !.renewTimer[r.kind] = r.of])

(* Past the deadline of its token, a session stops asking for another.     *)
ReauthStops(r) ==
  /\ r \in c.renewing /\ r.kind = "reauth"
  /\ Becomes([c EXCEPT !.renewing = @ \ {r}])

Attempt(i) ==
  \/ TokenResolved(i) \/ IceResolved(i) \/ SocketOpens(i)
  \/ \E capable, ice, reauth \in BOOLEAN : Welcomed(i, capable, ice, reauth)
  \/ \E permanent \in BOOLEAN : Fails(i, permanent)

Next ==
  \/ HandleJoin \/ HandleCancelConnect \/ HandleCancelReconnect \/ HandleLeave
  \/ \E i \in Ids : Attempt(i) \/ StaleEnds(i) \/ Blackhole(i)
  \/ \E i \in Ids, after \in {"none", "gone"} : SocketEnds(i, after)
  \/ GoOffline \/ GoOnline \/ WindowPasses \/ Suspend
  \/ \E t \in c.armed : RetryTimer(t)
  \/ Heartbeat \/ Pong \/ CallToggles
  \/ \E k \in Kinds : RenewTimer(k)
  \/ \E r \in c.renewing, got \in {"fresh", "none", "refused"} : Renewed(r, got)
  \/ \E r \in c.renewing : ReauthStops(r)

SafetySpec == Init /\ [][Next]_sessionVars

(* Past the token, whose requests carry no timeout: the list of ICE        *)
(* servers, the socket and the welcome have 12 s each.                     *)
PastToken(i) == c.stage[i] # "token" /\ Attempt(i)

(* Timers fire, what carries a timeout ends, the offline window passes.    *)
(* Nothing is asked of the network, the user, or of who waits for a token: *)
(* see TokensCome.                                                         *)
Fairness ==
  /\ \A i \in Ids : WF_sessionVars(PastToken(i))
  /\ WF_sessionVars(\E t \in c.armed : RetryTimer(t))
  /\ WF_sessionVars(Heartbeat)
  /\ WF_sessionVars(WindowPasses)
  /\ \A i \in Ids :
       WF_sessionVars(\E got \in {"fresh", "none"} :
                        Renewed([kind |-> "ice", of |-> i, step |-> "list"], got))
  /\ \A i \in Ids : WF_sessionVars(c.socket[i] = "gone" /\ SocketEnds(i, "none"))

Spec == SafetySpec /\ Fairness

(***************************************************************************)
(* Properties.                                                             *)
(***************************************************************************)
(* What goes on behind each screen is what the screen says: nothing behind *)
(* the join card (the user who called it off has the last word), one       *)
(* attempt behind "connecting", a retry timer or one attempt behind        *)
(* "reconnecting" (or it would stay there), one session behind the floor.  *)
Attempts == {i \in Ids : c.stage[i] \notin {"none", "stale"}}

ScreenTells ==
  CASE c.screen = "join" -> c.session = None /\ Attempts = {} /\ c.armed = {}
    [] c.screen = "connecting" ->
         c.session = None /\ Attempts = {c.abort} /\ c.armed = {}
    [] c.screen = "reconnecting" ->
         /\ c.session = None
         /\ \/ c.state = "waiting" /\ c.armed = {c.timer} /\ Attempts = {}
            \/ c.state = "connecting" /\ c.armed = {} /\ Attempts = {c.abort}
    [] c.screen = "space" -> c.session # None /\ Attempts = {} /\ c.armed = {}

(* No socket is kept that nothing will close: the server would go on       *)
(* showing, and counting, a member whose client has moved on.              *)
NoOrphanSocket ==
  \A i \in Ids :
    c.socket[i] \in Live => c.session = i \/ (i \in Attempts /\ c.abort = i)

(* A dropped call is remembered exactly while its session is being         *)
(* recovered: the toast never greets a session joined afresh.              *)
DropRemembered == c.dropped => c.screen = "reconnecting"

OneStory == ScreenTells /\ NoOrphanSocket /\ DropRemembered

(* What belongs to something replaced stays silent, however late: a        *)
(* socket that was let go, an attempt that was cancelled, the renewal of   *)
(* an earlier session.                                                     *)
Visible == <<c.screen, c.session, c.state, c.armed, c.abort, c.attempts>>

StaleIsSilent ==
  [][(\/ \E i \in Ids : c.socket[i] = "gone" /\ c'.socket[i] = "none"
      \/ \E i \in Ids : c.stage[i] = "stale" /\ c'.stage[i] = "none"
      \/ \E r \in c.renewing \ c'.renewing : r.of # c.session)
     => UNCHANGED Visible]_sessionVars

(* Reconnecting ends, on the floor or on the join card, unless the network *)
(* flaps, the machine sleeps for ever, or a token never comes; and a       *)
(* session whose server can no longer be heard is written off, where the   *)
(* server has pongs.                                                       *)
Settled == c.screen \in {"join", "space"}

Calm == (<>[]online \/ <>[]~online) /\ <>[]~suspended

(* auth.ts says of one token request that, hanging, it "would hold a       *)
(* reconnect in "connecting" for good", and bounds that one.  The renewal, *)
(* the switch of organisation and the keychain, which the desktop's        *)
(* attempts await, are not bounded, and later attempts share the same      *)
(* load.  So that they end is a premise here, not fairness.                *)
TokenAwaited(i) ==
  \/ c.stage[i] \in {"token", "stale"}
  \/ \E r \in c.renewing : r.of = i /\ r.step = "token"

TokensCome == \A i \in Ids : []<>~TokenAwaited(i)

SettlesInTheEnd ==
  /\ Calm /\ TokensCome => [](~Settled => <>Settled)
  /\ \A i \in Ids :
       (c.session = i /\ c.capable /\ c.socket[i] = "dead") ~> c.session # i
=============================================================================
