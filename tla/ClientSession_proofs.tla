------------------------ MODULE ClientSession_proofs ------------------------
(***************************************************************************)
(* Proofs about module ClientSession, for any number of attempts and any   *)
(* limits: what goes on behind each screen, and that what was replaced     *)
(* stays silent.                                                           *)
(***************************************************************************)
EXTENDS ClientSession, FiniteSetTheorems, TLAPS

Clients ==
  [screen : {"join", "connecting", "reconnecting", "space"},
   joined : BOOLEAN, leaving : BOOLEAN, attempts : Nat,
   state : {"idle", "waiting", "connecting"}, windowOver : BOOLEAN,
   armed : SUBSET Nat, timer : Nat, abort : Ids \union {None},
   stage : [Ids -> {"none", "token", "ice", "opening", "hello", "stale"}],
   kind : [Ids -> {"join", "retry"}],
   socket : [Ids -> {"none", "opening", "up", "dead", "gone"}],
   session : Ids \union {None}, missed : Nat, capable : BOOLEAN, inCall : BOOLEAN,
   dropped : BOOLEAN, renewTimer : [Kinds -> Ids \union {None}],
   renewing : SUBSET [kind : Kinds, of : Ids, step : {"token", "list"}]]

Going == {"token", "ice", "opening", "hello"}

(* An attempt goes on under the one controller there is, and a socket has  *)
(* an attempt or the session behind it.                                    *)
Kept(v, i) ==
  /\ v.stage[i] \in Going <=> v.abort = i
  /\ v.stage[i] \in {"token", "ice", "stale"} => v.socket[i] = "none"
  /\ v.socket[i] \in Live => v.session = i \/ v.stage[i] \in {"opening", "hello"}
  /\ v.session = i => v.stage[i] = "none"

Base(v) == v \in Clients /\ \A i \in Ids : Kept(v, i)

(* What each screen stands for.                                            *)
Behind(v) ==
  /\ v.screen = "space" <=> v.session # None
  /\ v.session # None => v.abort = None
  /\ v.screen = "join" => v.abort = None
  /\ v.screen = "connecting" => v.abort # None /\ v.kind[v.abort] = "join"
  /\ v.screen = "reconnecting" =>
       /\ v.joined
       /\ \/ v.state = "waiting" /\ v.armed = {v.timer} /\ v.abort = None
          \/ /\ v.state = "connecting" /\ v.armed = {}
             /\ v.abort # None /\ v.kind[v.abort] = "retry"
  /\ v.screen # "reconnecting" => v.state = "idle" /\ v.armed = {} /\ ~v.dropped
  /\ v.screen # "join" => ~v.leaving

Sound(v) == Base(v) /\ Behind(v)

SessionInv == Sound(c)

(* What outlives its session or its attempt is left alone.                 *)
Steady(v, w) ==
  /\ \A i \in Ids : /\ v.socket[i] = "gone" => w.socket[i] = "gone"
                    /\ v.stage[i] = "stale" => w.stage[i] = "stale"
  /\ v.renewing \subseteq w.renewing

(* The fields Behind tells apart, but for the attempt and the session.     *)
Alike(v, w) ==
  /\ w.screen = v.screen /\ w.joined = v.joined /\ w.leaving = v.leaving
  /\ w.state = v.state /\ w.armed = v.armed /\ w.timer = v.timer /\ w.dropped = v.dropped

LEMMA SteadyChain ==
  ASSUME NEW v, NEW w, NEW x, Steady(v, w), Steady(w, x)
  PROVE  Steady(v, x)
BY DEF Steady

(***************************************************************************)
(* What handlers do.                                                       *)
(***************************************************************************)
LEMMA CloseDoes ==
  ASSUME NEW v \in Clients, NEW i \in Ids
  PROVE  LET w == Close(v, i)
         IN  /\ w \in Clients /\ Steady(v, w)
             /\ Alike(v, w) /\ w.abort = v.abort /\ w.session = v.session
             /\ w.stage = v.stage /\ w.kind = v.kind
             /\ w.socket[i] \notin Live
             /\ \A j \in Ids \ {i} : w.socket[j] = v.socket[j]
             /\ v.socket[i] \notin Live => w.socket[i] = v.socket[i]
BY DEF Close, Clients, Steady, Alike, Live

(* An attempt ends, and its socket with it.                                *)
LEMMA EndDoes ==
  ASSUME NEW v, Base(v), NEW i \in Ids, v.stage[i] \in Going
  PROVE  LET w == End(Close(v, i), i)
         IN  /\ Base(w) /\ Steady(v, w) /\ Alike(v, w)
             /\ w.abort = None /\ w.session = v.session
<1>. DEFINE x == Close(v, i)
            w == End(x, i)
<1>1. /\ v \in Clients /\ v.abort = i /\ v.session # i
  BY DEF Base, Kept, Going
<1>2. /\ x \in Clients /\ Steady(v, x)
      /\ Alike(v, x) /\ x.abort = v.abort /\ x.session = v.session
      /\ x.stage = v.stage /\ x.kind = v.kind
      /\ x.socket[i] \notin Live
      /\ \A j \in Ids \ {i} : x.socket[j] = v.socket[j]
  BY <1>1, CloseDoes
<1>. HIDE DEF x
<1>3. /\ w \in Clients /\ Alike(x, w) /\ w.abort = None /\ w.session = x.session
      /\ w.stage = [x.stage EXCEPT ![i] = "none"] /\ w.socket = x.socket
      /\ w.renewing = x.renewing
  BY <1>1, <1>2, ZenonT(60) DEF End, Clients, Alike
<1>. HIDE DEF w
<1>4. Steady(x, w)
  BY <1>1, <1>2, <1>3 DEF Steady, Going, Clients
<1>5. ASSUME NEW j \in Ids PROVE Kept(w, j)
  <2>1. CASE j = i
    BY <1>1, <1>2, <1>3, <2>1, ClientSessionAssumption
    DEF Kept, Going, Clients, ClientSessionAssumption
  <2>2. CASE j # i
    BY <1>1, <1>2, <1>3, <2>2, ClientSessionAssumption
    DEF Base, Kept, Clients, ClientSessionAssumption
  <2>. QED
    BY <2>1, <2>2
<1>6. Steady(v, w)
  BY <1>2, <1>4, SteadyChain
<1>7. Alike(v, w)
  BY <1>2, <1>3 DEF Alike
<1>. QED
  BY <1>2, <1>3, <1>5, <1>6, <1>7 DEF Base, x, w

(* The user calls an attempt off: it ends at once or has an await to go.   *)
LEMMA AbortDoes ==
  ASSUME NEW v, Base(v)
  PROVE  LET w == Abort(v)
         IN  /\ Base(w) /\ Steady(v, w) /\ Alike(v, w)
             /\ w.abort = None /\ w.session = v.session
<1>1. CASE v.abort = None
  BY <1>1 DEF Abort, Steady, Alike
<1>2. CASE v.abort # None
  <2>. DEFINE i == v.abort
              x == Close(v, i)
              w == Abort(v)
              stage == IF v.stage[i] \in {"token", "ice"} THEN "stale" ELSE "none"
  <2>1. /\ v \in Clients /\ i \in Ids /\ v.stage[i] \in Going /\ v.session # i
    BY <1>2 DEF Base, Kept, Going, Clients
  <2>. HIDE DEF i
  <2>2. /\ x \in Clients /\ Steady(v, x)
        /\ Alike(v, x) /\ x.abort = v.abort /\ x.session = v.session
        /\ x.stage = v.stage /\ x.kind = v.kind
        /\ x.socket[i] \notin Live
        /\ \A j \in Ids \ {i} : x.socket[j] = v.socket[j]
        /\ v.socket[i] \notin Live => x.socket[i] = v.socket[i]
    BY <2>1, CloseDoes
  <2>3. w = [[x EXCEPT !.abort = None] EXCEPT !.stage[i] = stage]
    BY <1>2 DEF Abort, i
  <2>. HIDE DEF x, w
  <2>4. /\ w \in Clients /\ Alike(x, w) /\ w.abort = None /\ w.session = x.session
        /\ w.stage = [x.stage EXCEPT ![i] = stage] /\ w.socket = x.socket
        /\ w.renewing = x.renewing
    BY <2>1, <2>2, <2>3, ZenonT(60) DEF Clients, Alike
  <2>5. Steady(x, w)
    BY <2>1, <2>2, <2>4 DEF Steady, Going, Clients
  <2>6. ASSUME NEW j \in Ids PROVE Kept(w, j)
    <3>1. CASE j = i
      BY <2>1, <2>2, <2>4, <3>1, ClientSessionAssumption
      DEF Base, Kept, Going, Live, Clients, ClientSessionAssumption
    <3>2. CASE j # i
      BY <2>1, <2>2, <2>4, <3>2, ClientSessionAssumption
      DEF Base, Kept, Clients, ClientSessionAssumption, i
    <3>. QED
      BY <3>1, <3>2
  <2>7. Steady(v, w) /\ Alike(v, w)
    BY <2>2, <2>4, <2>5, SteadyChain DEF Alike
  <2>. QED
    BY <2>2, <2>4, <2>6, <2>7 DEF Base, w
<1>. QED
  BY <1>1, <1>2

LEMMA TeardownDoes ==
  ASSUME NEW v, Base(v)
  PROVE  LET w == Teardown(v)
         IN  /\ Base(w) /\ Steady(v, w) /\ Alike(v, w)
             /\ w.abort = v.abort /\ w.session = None /\ w.kind = v.kind
<1>1. CASE v.session = None
  BY <1>1 DEF Teardown, Steady, Alike
<1>2. CASE v.session # None
  <2>. DEFINE i == v.session
              x == Close(v, i)
              w == Teardown(v)
  <2>1. v \in Clients /\ i \in Ids /\ v.stage[i] = "none"
    BY <1>2 DEF Base, Kept, Clients
  <2>. HIDE DEF i
  <2>2. /\ x \in Clients /\ Steady(v, x)
        /\ Alike(v, x) /\ x.abort = v.abort /\ x.session = v.session
        /\ x.stage = v.stage /\ x.kind = v.kind
        /\ x.socket[i] \notin Live
        /\ \A j \in Ids \ {i} : x.socket[j] = v.socket[j]
    BY <2>1, CloseDoes
  <2>3. w = [x EXCEPT !.session = None, !.renewTimer = [k \in Kinds |-> None],
                      !.missed = 0, !.capable = FALSE, !.inCall = FALSE]
    BY <1>2 DEF Teardown, i
  <2>. HIDE DEF x, w
  <2>4. /\ w \in Clients /\ Alike(x, w) /\ w.abort = x.abort /\ w.session = None
        /\ w.stage = x.stage /\ w.kind = x.kind /\ w.socket = x.socket
        /\ w.renewing = x.renewing
    BY <2>2, <2>3, ZenonT(60) DEF Clients, Alike
  <2>5. ASSUME NEW j \in Ids PROVE Kept(w, j)
    <3>1. CASE j = i
      BY <2>1, <2>2, <2>4, <3>1, ClientSessionAssumption
      DEF Base, Kept, Going, ClientSessionAssumption
    <3>2. CASE j # i
      BY <2>1, <2>2, <2>4, <3>2, ClientSessionAssumption
      DEF Base, Kept, ClientSessionAssumption, i
    <3>. QED
      BY <3>1, <3>2
  <2>6. Steady(v, w) /\ Alike(v, w)
    BY <2>2, <2>4 DEF Steady, Alike
  <2>. QED
    BY <2>2, <2>4, <2>5, <2>6 DEF Base, w
<1>. QED
  BY <1>1, <1>2

LEMMA BeginDoes ==
  ASSUME NEW v, Base(v), v.abort = None, FreeIds(v) # {}, NEW kind \in {"join", "retry"}
  PROVE  LET w == Begin(v, FreeId(v), kind)
         IN  /\ Base(w) /\ Steady(v, w) /\ Alike(v, w)
             /\ w.abort \in Ids /\ w.kind[w.abort] = kind /\ w.session = v.session
<1>. DEFINE i == FreeId(v)
            w == Begin(v, i, kind)
<1>1. i \in FreeIds(v)
  BY DEF FreeId
<1>. HIDE DEF i
<1>2. v \in Clients /\ i \in Ids /\ v.stage[i] = "none" /\ v.socket[i] = "none" /\ v.session # i
  BY <1>1 DEF FreeIds, Base
<1>3. /\ w \in Clients /\ Alike(v, w) /\ w.abort = i /\ w.session = v.session
      /\ w.stage = [v.stage EXCEPT ![i] = "token"] /\ w.kind = [v.kind EXCEPT ![i] = kind]
      /\ w.socket = v.socket /\ w.renewing = v.renewing
  BY <1>2, ZenonT(60) DEF Begin, Clients, Alike
<1>. HIDE DEF w
<1>4. ASSUME NEW j \in Ids PROVE Kept(w, j)
  <2>1. CASE j = i
    BY <1>2, <1>3, <2>1 DEF Kept, Going, Live, Clients
  <2>2. CASE j # i
    BY <1>2, <1>3, <2>2, ClientSessionAssumption
    DEF Base, Kept, Clients, ClientSessionAssumption
  <2>. QED
    BY <2>1, <2>2
<1>5. Steady(v, w) /\ w.kind[w.abort] = kind
  BY <1>2, <1>3 DEF Steady, Clients
<1>. QED
  BY <1>2, <1>3, <1>4, <1>5 DEF Base, w, i

(* A retry or the end of retrying, once nothing goes on.                   *)
LEMMA ScheduleDoes ==
  ASSUME NEW v, Base(v), v.abort = None, v.session = None, v.armed = {}, ~v.leaving
  PROVE  LET w == ScheduleReconnect(v) IN Sound(w) /\ Steady(v, w)
<1>. DEFINE w == ScheduleReconnect(v)
<1>1. v \in Clients
  BY DEF Base
<1>2. ASSUME NEW u \in {v, [v EXCEPT !.attempts = 0]}
      PROVE  Sound(GiveUpReconnect(u)) /\ Steady(v, GiveUpReconnect(u))
  <2>. DEFINE x == GiveUpReconnect(u)
  <2>0. /\ u \in Clients /\ u.abort = None /\ u.session = None /\ u.armed = {}
        /\ u.stage = v.stage /\ u.socket = v.socket /\ u.renewing = v.renewing
    <3>1. CASE u = v
      BY <1>1, <3>1
    <3>2. CASE u = [v EXCEPT !.attempts = 0]
      BY <1>1, <3>2 DEF Clients
    <3>. QED
      BY <3>1, <3>2
  <2>1. /\ x \in Clients /\ x.screen = "join" /\ x.abort = None /\ x.session = None
        /\ x.state = "idle" /\ x.armed = {} /\ ~x.dropped
        /\ x.stage = v.stage /\ x.socket = v.socket /\ x.renewing = v.renewing
    BY <2>0 DEF GiveUpReconnect, Clients
  <2>. HIDE DEF x
  <2>2. Base(x)
    BY <2>1 DEF Base, Kept
  <2>. QED
    BY <2>1, <2>2 DEF Sound, Behind, Steady, x
<1>3. ASSUME v.joined, NEW attempt \in Nat
      PROVE  Sound(Await(v, attempt)) /\ Steady(v, Await(v, attempt))
  <2>. DEFINE x == Await(v, attempt)
              t == Min((0 .. Cardinality(v.armed)) \ v.armed)
              armed == {0}
  <2>1. t = 0
    <3>1. (0 .. Cardinality(v.armed)) \ v.armed = {0}
      BY FS_EmptySet
    <3>. QED
      BY <3>1 DEF Min
  <2>2. x = [v EXCEPT !.armed = armed, !.timer = 0, !.attempts = attempt,
                      !.state = "waiting", !.screen = "reconnecting"]
    BY <1>1, <2>1 DEF Await, Clients
  <2>. HIDE DEF x, t
  <2>. armed \in SUBSET Nat
    OBVIOUS
  <2>. HIDE DEF armed
  <2>3. /\ x \in Clients /\ x.screen = "reconnecting" /\ x.abort = None /\ x.session = None
        /\ x.state = "waiting" /\ x.armed = armed /\ x.timer = 0 /\ x.joined /\ ~x.leaving
        /\ x.stage = v.stage /\ x.socket = v.socket /\ x.renewing = v.renewing
    BY <1>1, <1>3, <2>2 DEF Clients
  <2>4. Base(x)
    BY <2>3 DEF Base, Kept
  <2>. QED
    BY <2>3, <2>4 DEF Sound, Behind, Steady, x, armed
<1>4. v.attempts + 1 \in Nat
  BY <1>1 DEF Clients
<1>. QED
  BY <1>2, <1>3, <1>4 DEF ScheduleReconnect

LEMMA MarkDoes ==
  ASSUME NEW x \in Clients, NEW dropped \in BOOLEAN
  PROVE  LET y == [x EXCEPT !.windowOver = FALSE, !.dropped = dropped]
         IN  /\ y \in Clients /\ y.leaving = x.leaving /\ y.armed = x.armed
             /\ y.abort = x.abort /\ y.session = x.session
             /\ y.stage = x.stage /\ y.socket = x.socket /\ y.renewing = x.renewing
BY ZenonT(60) DEF Clients

LEMMA DroppedDoes ==
  ASSUME NEW v, Base(v), v.screen = "space", Behind(v)
  PROVE  LET w == OnSessionDropped(v) IN Sound(w) /\ Steady(v, w)
<1>. DEFINE x == Teardown(v)
            dropped == x.dropped \/ v.inCall
            y == [x EXCEPT !.windowOver = FALSE, !.dropped = dropped]
<1>1. ~v.leaving /\ v.session # None /\ v.abort = None /\ v.armed = {}
  BY DEF Behind
<1>2. /\ Base(x) /\ Steady(v, x) /\ x.leaving = v.leaving /\ x.armed = v.armed
      /\ x.abort = v.abort /\ x.session = None
  BY TeardownDoes DEF Alike
<1>. HIDE DEF x
<1>. x \in Clients
  BY <1>2 DEF Base
<1>3. /\ y \in Clients /\ y.leaving = x.leaving /\ y.armed = x.armed
      /\ y.abort = x.abort /\ y.session = None
      /\ y.stage = x.stage /\ y.socket = x.socket /\ y.renewing = x.renewing
  <2>1. dropped \in BOOLEAN
    BY DEF Base, Clients
  <2>. HIDE DEF dropped
  <2>. QED
    BY <1>2, <2>1, MarkDoes
<1>. HIDE DEF y
<1>4. Base(y) /\ Steady(x, y)
  BY <1>2, <1>3 DEF Base, Kept, Steady
<1>5. LET w == ScheduleReconnect(y) IN Sound(w) /\ Steady(y, w)
  BY <1>1, <1>2, <1>3, <1>4, ScheduleDoes
<1>6. OnSessionDropped(v) = ScheduleReconnect(y)
  BY <1>1 DEF OnSessionDropped, x, y, dropped
<1>. QED
  BY <1>2, <1>4, <1>5, <1>6, SteadyChain

LEMMA CallOffDoes ==
  ASSUME NEW v, Sound(v)
  PROVE  LET w == CallOff(v)
         IN  /\ Base(w) /\ Steady(v, w)
             /\ w.abort = None /\ w.session = v.session
             /\ w.screen = "join" /\ w.state = "idle" /\ w.armed = {} /\ ~w.dropped
<1>. DEFINE x == Disarm(v)
            y == Abort(x)
            w == CallOff(v)
<1>1. /\ x \in Clients /\ x.armed = v.armed \ {v.timer} /\ x.abort = v.abort
      /\ x.session = v.session /\ x.stage = v.stage /\ x.socket = v.socket
      /\ x.renewing = v.renewing
  BY DEF Disarm, Sound, Base, Clients
<1>. HIDE DEF x
<1>2. Base(x) /\ Steady(v, x)
  BY <1>1 DEF Base, Kept, Steady, Sound
<1>3. x.armed = {}
  BY <1>1 DEF Sound, Base, Clients, Behind
<1>4. /\ Base(y) /\ Steady(x, y) /\ y.armed = x.armed
      /\ y.abort = None /\ y.session = x.session
  BY <1>2, AbortDoes DEF Alike
<1>. HIDE DEF y
<1>5. w = [y EXCEPT !.leaving = TRUE, !.attempts = 0, !.state = "idle",
                    !.dropped = FALSE, !.screen = "join"]
  BY DEF CallOff, y, x
<1>. HIDE DEF w
<1>6. /\ w \in Clients /\ w.abort = y.abort /\ w.session = y.session /\ w.armed = y.armed
      /\ w.screen = "join" /\ w.state = "idle" /\ ~w.dropped
      /\ w.stage = y.stage /\ w.socket = y.socket /\ w.renewing = y.renewing
  BY <1>4, <1>5, ZenonT(60) DEF Base, Clients
<1>7. Base(w) /\ Steady(y, w)
  BY <1>4, <1>6 DEF Base, Kept, Steady
<1>8. Steady(v, w)
  BY <1>2, <1>4, <1>7, SteadyChain
<1>. QED
  BY <1>1, <1>3, <1>4, <1>6, <1>7, <1>8 DEF w

LEMMA LeaveDoes ==
  ASSUME NEW v, Sound(v)
  PROVE  LET w == LeaveSession(v) IN Sound(w) /\ Steady(v, w)
<1>. DEFINE x == CallOff(v)
            w == LeaveSession(v)
<1>1. /\ Base(x) /\ Steady(v, x) /\ x.abort = None
      /\ x.screen = "join" /\ x.state = "idle" /\ x.armed = {} /\ ~x.dropped
  BY CallOffDoes
<1>. HIDE DEF x
<1>2. /\ Base(w) /\ Steady(x, w) /\ Alike(x, w) /\ w.abort = x.abort /\ w.session = None
  BY <1>1, TeardownDoes DEF LeaveSession, x
<1>. HIDE DEF w
<1>3. Steady(v, w)
  BY <1>1, <1>2, SteadyChain
<1>. QED
  BY <1>1, <1>2, <1>3 DEF Sound, Behind, Alike, w

LEMMA FreshStarts ==
  ASSUME NEW x \in Clients, NEW i \in Ids, NEW capable \in BOOLEAN,
         NEW timers \in [Kinds -> Ids \union {None}]
  PROVE  [x EXCEPT !.session = i, !.missed = 0, !.capable = capable, !.inCall = FALSE,
                   !.renewTimer = timers, !.attempts = 0, !.state = "idle",
                   !.dropped = FALSE, !.screen = "space"] \in Clients
BY ZenonT(60) DEF Clients

(* An attempt becomes the session.                                         *)
LEMMA StartDoes ==
  ASSUME NEW v \in Clients, NEW i \in Ids, v.abort = i,
         NEW capable \in BOOLEAN, NEW ice \in BOOLEAN, NEW reauth \in BOOLEAN
  PROVE  LET w == StartSession(End(v, i), i, capable, ice, reauth)
         IN  /\ w \in Clients /\ w.abort = None /\ w.leaving = v.leaving /\ w.armed = v.armed
             /\ w.session = i /\ w.state = "idle" /\ ~w.dropped /\ w.screen = "space"
             /\ w.stage = [v.stage EXCEPT ![i] = "none"] /\ w.socket = v.socket
             /\ w.renewing = v.renewing
<1>. DEFINE x == End(v, i)
            timers == [k \in Kinds |-> IF k = "ice" THEN (IF ice THEN i ELSE None)
                                       ELSE (IF reauth THEN i ELSE None)]
            w == StartSession(x, i, capable, ice, reauth)
<1>1. /\ x \in Clients /\ x.abort = None /\ x.leaving = v.leaving /\ x.armed = v.armed
      /\ x.stage = [v.stage EXCEPT ![i] = "none"] /\ x.socket = v.socket
      /\ x.renewing = v.renewing
  BY DEF End, Clients
<1>. HIDE DEF x
<1>2. timers \in [Kinds -> Ids \union {None}]
  OBVIOUS
<1>3. w = [x EXCEPT !.session = i, !.missed = 0, !.capable = capable, !.inCall = FALSE,
                    !.renewTimer = timers, !.attempts = 0, !.state = "idle",
                    !.dropped = FALSE, !.screen = "space"]
  BY DEF StartSession
<1>. HIDE DEF timers, w
<1>4. w \in Clients
  BY <1>1, <1>2, <1>3, FreshStarts
<1>5. /\ w.abort = x.abort /\ w.leaving = x.leaving /\ w.armed = x.armed
      /\ w.session = i /\ w.state = "idle" /\ ~w.dropped /\ w.screen = "space"
      /\ w.stage = x.stage /\ w.socket = x.socket /\ w.renewing = x.renewing
  BY <1>1, <1>3 DEF Clients
<1>. QED
  BY <1>1, <1>4, <1>5 DEF w, x

(* Whatever is behind the screen stays there.                              *)
LEMMA BehindStays ==
  ASSUME NEW v, Sound(v), NEW w \in Clients, Alike(v, w),
         w.abort = v.abort, w.session = v.session, w.kind = v.kind,
         \A i \in Ids : \/ w.stage[i] = v.stage[i] /\ w.socket[i] = v.socket[i]
                        \/ Kept(w, i)
  PROVE  Sound(w)
<1>1. ASSUME NEW i \in Ids PROVE Kept(w, i)
  BY DEF Sound, Base, Kept
<1>. QED
  BY <1>1 DEF Sound, Base, Behind, Alike

LEMMA RetryBegins ==
  ASSUME NEW v \in Clients, NEW over \in BOOLEAN
  PROVE  LET y == [v EXCEPT !.state = "connecting", !.windowOver = over]
         IN  /\ y \in Clients /\ y.screen = v.screen /\ y.state = "connecting"
             /\ y.armed = v.armed /\ y.joined = v.joined /\ y.leaving = v.leaving
             /\ y.dropped = v.dropped /\ y.abort = v.abort /\ y.session = v.session
             /\ y.stage = v.stage /\ y.socket = v.socket /\ y.renewing = v.renewing
BY ZenonT(60) DEF Clients

Renewals == [kind : Kinds, of : Ids, step : {"token", "list"}]

(***************************************************************************)
(* The invariant, action by action.                                        *)
(***************************************************************************)
Silent ==
  \/ UNCHANGED Visible
  \/ /\ \A i \in Ids : /\ c.socket[i] = "gone" => c'.socket[i] = "gone"
                       /\ c.stage[i] = "stale" => c'.stage[i] = "stale"
     /\ \A r \in c.renewing \ c'.renewing : r.of = c.session

Keeps == Sound(c') /\ Silent

LEMMA SteadyKeeps == ASSUME Sound(c'), Steady(c, c') PROVE Keeps
BY DEF Keeps, Silent, Steady

(* Steps that show nothing of themselves.                                  *)
LEMMA RenewalKeeps ==
  ASSUME Sound(c), NEW timers \in [Kinds -> Ids \union {None}], NEW renewing \in SUBSET Renewals,
         c' = [c EXCEPT !.renewTimer = timers, !.renewing = renewing]
  PROVE  Keeps
<1>1. c \in Clients
  BY DEF Sound, Base
<1>2. /\ c' \in Clients /\ Alike(c, c') /\ c'.abort = c.abort /\ c'.session = c.session
      /\ c'.kind = c.kind /\ c'.stage = c.stage /\ c'.socket = c.socket
      /\ c'.attempts = c.attempts
  BY <1>1 DEF Clients, Alike, Renewals
<1>3. Sound(c')
  BY <1>2, BehindStays
<1>4. UNCHANGED Visible
  BY <1>2 DEF Visible, Alike
<1>. QED
  BY <1>3, <1>4 DEF Keeps, Silent

LEMMA InertKeeps ==
  ASSUME Sound(c), NEW missed \in Nat, NEW capable \in BOOLEAN, NEW inCall \in BOOLEAN,
         NEW over \in BOOLEAN,
         \/ c' = [c EXCEPT !.missed = missed]
         \/ c' = [c EXCEPT !.missed = missed, !.capable = capable]
         \/ c' = [c EXCEPT !.inCall = inCall]
         \/ c' = [c EXCEPT !.windowOver = over]
  PROVE  Keeps
<1>1. c \in Clients
  BY DEF Sound, Base
<1>2. /\ c' \in Clients /\ Alike(c, c') /\ c'.abort = c.abort /\ c'.session = c.session
      /\ c'.kind = c.kind /\ c'.stage = c.stage /\ c'.socket = c.socket
      /\ c'.renewing = c.renewing
  <2>1. CASE c' = [c EXCEPT !.missed = missed]
    BY <1>1, <2>1 DEF Clients, Alike
  <2>2. CASE c' = [c EXCEPT !.missed = missed, !.capable = capable]
    BY <1>1, <2>2 DEF Clients, Alike
  <2>3. CASE c' = [c EXCEPT !.inCall = inCall]
    BY <1>1, <2>3 DEF Clients, Alike
  <2>4. CASE c' = [c EXCEPT !.windowOver = over]
    BY <1>1, <2>4 DEF Clients, Alike
  <2>. QED
    BY <2>1, <2>2, <2>3, <2>4
<1>3. Sound(c') /\ Steady(c, c')
  BY <1>2, BehindStays DEF Steady
<1>. QED
  BY <1>3, SteadyKeeps

LEMMA SessionInit == Init => SessionInv
<1>. SUFFICES ASSUME Init PROVE Sound(c)
  BY DEF SessionInv
<1>1. /\ c \in Clients /\ c.screen = "join" /\ c.state = "idle" /\ c.armed = {} /\ ~c.dropped
      /\ c.abort = None /\ c.session = None
      /\ \A i \in Ids : c.stage[i] = "none" /\ c.socket[i] = "none"
  BY DEF Init, Clients
<1>2. \A i \in Ids : Kept(c, i)
  BY <1>1, ClientSessionAssumption DEF Kept, Going, Live, ClientSessionAssumption
<1>. QED
  BY <1>1, <1>2 DEF Sound, Base, Behind

LEMMA JoinKeeps == ASSUME SessionInv, HandleJoin PROVE Keeps
<1>. DEFINE x == Abort(c)
            y == [x EXCEPT !.joined = TRUE, !.leaving = FALSE, !.attempts = 0, !.state = "idle",
                           !.dropped = FALSE, !.screen = "connecting"]
<1>1. /\ Sound(c) /\ c.screen = "join" /\ FreeIds(c) # {}
      /\ c.abort = None /\ c.session = None /\ c.armed = {}
  BY DEF SessionInv, HandleJoin, Sound, Behind
<1>2. x = c
  BY <1>1 DEF Abort
<1>. HIDE DEF x
<1>3. /\ y \in Clients /\ y.screen = "connecting" /\ ~y.leaving /\ y.state = "idle"
      /\ y.armed = {} /\ ~y.dropped /\ y.abort = None /\ y.session = None
      /\ y.stage = c.stage /\ y.socket = c.socket /\ y.renewing = c.renewing
  BY <1>1, <1>2, ZenonT(60) DEF Sound, Base, Clients
<1>4. c' = Begin(y, FreeId(c), "join")
  BY DEF HandleJoin, Becomes, x
<1>. HIDE DEF y
<1>5. Base(y) /\ Steady(c, y) /\ FreeIds(y) = FreeIds(c) /\ FreeId(y) = FreeId(c)
  <2>1. FreeIds(y) = FreeIds(c)
    BY <1>1, <1>3 DEF FreeIds
  <2>. QED
    BY <1>1, <1>3, <2>1 DEF Sound, Base, Kept, Steady, FreeId
<1>6. /\ Base(c') /\ Steady(y, c') /\ Alike(y, c')
      /\ c'.abort \in Ids /\ c'.kind[c'.abort] = "join" /\ c'.session = y.session
  BY <1>1, <1>3, <1>4, <1>5, BeginDoes
<1>7. Sound(c')
  BY <1>3, <1>6, ClientSessionAssumption
  DEF Sound, Behind, Alike, ClientSessionAssumption
<1>. QED
  BY <1>5, <1>6, <1>7, SteadyChain, SteadyKeeps

LEMMA CancelConnectKeeps == ASSUME SessionInv, HandleCancelConnect PROVE Keeps
<1>. DEFINE x == Abort(c)
<1>1. /\ Base(c) /\ c.session = None /\ c.state = "idle" /\ c.armed = {} /\ ~c.dropped
  BY DEF SessionInv, HandleCancelConnect, Sound, Behind
<1>2. Base(x) /\ Steady(c, x) /\ Alike(c, x) /\ x.abort = None /\ x.session = None
  BY <1>1, AbortDoes
<1>3. c' = [x EXCEPT !.screen = "join"]
  BY DEF HandleCancelConnect, Becomes
<1>. HIDE DEF x
<1>4. /\ c' \in Clients /\ c'.screen = "join" /\ c'.abort = None /\ c'.session = None
      /\ c'.state = x.state /\ c'.armed = x.armed /\ c'.dropped = x.dropped
      /\ c'.stage = x.stage /\ c'.socket = x.socket /\ c'.renewing = x.renewing
  BY <1>2, <1>3 DEF Base, Clients
<1>5. Base(c') /\ Steady(x, c')
  BY <1>2, <1>4 DEF Base, Kept, Steady
<1>6. Sound(c')
  BY <1>1, <1>2, <1>4, <1>5 DEF Sound, Behind, Alike
<1>. QED
  BY <1>2, <1>5, <1>6, SteadyChain, SteadyKeeps

LEMMA CancelReconnectKeeps == ASSUME SessionInv, HandleCancelReconnect PROVE Keeps
<1>1. Sound(c) /\ c.session = None /\ c' = CallOff(c)
  BY DEF SessionInv, HandleCancelReconnect, Becomes, Sound, Behind
<1>2. /\ Base(c') /\ Steady(c, c') /\ c'.abort = None /\ c'.session = None
      /\ c'.screen = "join" /\ c'.state = "idle" /\ c'.armed = {} /\ ~c'.dropped
  BY <1>1, CallOffDoes
<1>3. Sound(c')
  BY <1>2 DEF Sound, Behind
<1>. QED
  BY <1>2, <1>3, SteadyKeeps

LEMMA LeaveKeeps == ASSUME SessionInv, HandleLeave PROVE Keeps
BY LeaveDoes, SteadyKeeps DEF HandleLeave, Becomes, SessionInv

(* An attempt that goes on from one await to the next.                     *)
LEMMA AdvanceKeeps ==
  ASSUME SessionInv, NEW i \in Ids, TokenResolved(i) \/ IceResolved(i) \/ SocketOpens(i)
  PROVE  Keeps
<1>. DEFINE stage == c'.stage[i]
            socket == c'.socket[i]
<1>2. Sound(c) /\ c \in Clients /\ Kept(c, i)
  BY DEF SessionInv, Sound, Base
<1>3. /\ c' \in Clients /\ Alike(c, c') /\ c'.abort = c.abort /\ c'.session = c.session
      /\ c'.kind = c.kind /\ c'.renewing = c.renewing
      /\ \A j \in Ids \ {i} : c'.stage[j] = c.stage[j] /\ c'.socket[j] = c.socket[j]
      /\ stage \in Going /\ c.stage[i] \in Going /\ c.socket[i] # "gone"
      /\ socket \in Live => stage \in {"opening", "hello"}
      /\ stage = "ice" => socket = "none"
      /\ stage # "token"
  <2>1. CASE TokenResolved(i)
    <3>1. /\ c.stage[i] = "token" /\ c' = [c EXCEPT !.stage[i] = "ice"] /\ c.socket[i] = "none"
      BY <1>2, <2>1 DEF TokenResolved, Advance, Becomes, Kept
    <3>. QED
      BY <1>2, <3>1 DEF Clients, Alike, Going, Live
  <2>2. CASE IceResolved(i)
    <3>1. /\ c.stage[i] = "ice" /\ c.socket[i] = "none"
          /\ c' = [c EXCEPT !.stage[i] = "opening", !.socket[i] = "opening"]
      BY <1>2, <2>2 DEF IceResolved, Becomes, Kept
    <3>. QED
      BY <1>2, <3>1, ZenonT(60) DEF Clients, Alike, Going
  <2>3. CASE SocketOpens(i)
    <3>1. /\ c.stage[i] = "opening" /\ c.socket[i] = "opening"
          /\ c' = [c EXCEPT !.stage[i] = "hello", !.socket[i] = "up"]
      BY <2>3 DEF SocketOpens, Becomes
    <3>. QED
      BY <1>2, <3>1, ZenonT(60) DEF Clients, Alike, Going
  <2>. QED
    BY <2>1, <2>2, <2>3
<1>5. Kept(c', i)
  BY <1>2, <1>3 DEF Kept, Going
<1>6. Sound(c')
  BY <1>2, <1>3, <1>5, BehindStays DEF Clients
<1>7. Steady(c, c')
  BY <1>3 DEF Steady, Going
<1>. QED
  BY <1>6, <1>7, SteadyKeeps

LEMMA WelcomedKeeps ==
  ASSUME SessionInv, NEW i \in Ids, NEW capable \in BOOLEAN, NEW ice \in BOOLEAN,
         NEW reauth \in BOOLEAN, Welcomed(i, capable, ice, reauth)
  PROVE  Keeps
<1>1. /\ Sound(c) /\ Base(c) /\ c \in Clients /\ c.stage[i] = "hello" /\ c.socket[i] = "up"
  BY DEF SessionInv, Sound, Base, Welcomed
<1>2. c.abort = i /\ c.session = None /\ ~c.leaving /\ c.armed = {}
  <2>1. c.abort = i
    BY <1>1 DEF Base, Kept, Going
  <2>. QED
    BY <1>1, <2>1, ClientSessionAssumption
    DEF Sound, Behind, Clients, ClientSessionAssumption
<1>3. c' = StartSession(End(c, i), i, capable, ice, reauth)
  BY <1>2 DEF Welcomed, Becomes
<1>7. /\ c' \in Clients /\ c'.abort = None /\ c'.leaving = c.leaving /\ c'.armed = c.armed
      /\ c'.session = i /\ c'.state = "idle" /\ ~c'.dropped /\ c'.screen = "space"
      /\ c'.stage = [c.stage EXCEPT ![i] = "none"] /\ c'.socket = c.socket
      /\ c'.renewing = c.renewing
  BY <1>1, <1>2, <1>3, StartDoes
<1>8. ASSUME NEW j \in Ids PROVE Kept(c', j)
  <2>1. CASE j = i
    BY <1>1, <1>7, <2>1, ClientSessionAssumption
    DEF Kept, Going, Live, Clients, ClientSessionAssumption
  <2>2. CASE j # i
    BY <1>1, <1>2, <1>7, <2>2, ClientSessionAssumption
    DEF Base, Kept, Clients, ClientSessionAssumption
  <2>. QED
    BY <2>1, <2>2
<1>9. Sound(c')
  BY <1>2, <1>7, <1>8, ClientSessionAssumption
  DEF Sound, Base, Behind, ClientSessionAssumption
<1>10. Steady(c, c')
  BY <1>1, <1>7 DEF Steady, Clients
<1>. QED
  BY <1>9, <1>10, SteadyKeeps

LEMMA FailsKeeps ==
  ASSUME SessionInv, NEW i \in Ids, NEW permanent \in BOOLEAN, Fails(i, permanent)
  PROVE  Keeps
<1>. DEFINE v == End(Close(c, i), i)
<1>1. Sound(c) /\ Base(c) /\ c \in Clients /\ c.stage[i] \in Going
  BY DEF SessionInv, Sound, Base, Fails, Going
<1>2. c.abort = i /\ c.session = None /\ ~c.leaving /\ c.armed = {}
  <2>1. c.abort = i
    BY <1>1 DEF Base, Kept
  <2>. QED
    BY <1>1, <2>1, ClientSessionAssumption
    DEF Sound, Behind, Clients, ClientSessionAssumption
<1>3. /\ Base(v) /\ Steady(c, v) /\ Alike(c, v)
      /\ v.abort = None /\ v.session = None
  BY <1>1, <1>2, EndDoes
<1>4. /\ c.kind[i] = "join" => c' = [v EXCEPT !.screen = "join"]
      /\ c.kind[i] # "join" => c' \in {GiveUpReconnect(v), ScheduleReconnect(v)}
  BY <1>2 DEF Fails, Becomes
<1>. HIDE DEF v
<1>5. CASE c.kind[i] = "join"
  <2>1. c.state = "idle" /\ ~c.dropped
    BY <1>1, <1>2, <1>5, ClientSessionAssumption DEF Sound, Behind, ClientSessionAssumption
  <2>2. /\ c' \in Clients /\ c'.screen = "join" /\ c'.abort = None /\ c'.session = None
        /\ c'.state = v.state /\ c'.armed = v.armed /\ c'.dropped = v.dropped
        /\ c'.stage = v.stage /\ c'.socket = v.socket /\ c'.renewing = v.renewing
    BY <1>3, <1>4, <1>5 DEF Base, Clients
  <2>3. Base(c') /\ Steady(v, c')
    BY <1>3, <2>2 DEF Base, Kept, Steady
  <2>4. Sound(c')
    BY <1>2, <1>3, <2>1, <2>2, <2>3 DEF Sound, Behind, Alike
  <2>. QED
    BY <1>3, <2>3, <2>4, SteadyChain, SteadyKeeps
<1>6. CASE c' = GiveUpReconnect(v)
  <2>1. /\ c' \in Clients /\ c'.screen = "join" /\ c'.abort = None /\ c'.session = None
        /\ c'.state = "idle" /\ c'.armed = v.armed /\ ~c'.dropped
        /\ c'.stage = v.stage /\ c'.socket = v.socket /\ c'.renewing = v.renewing
    BY <1>3, <1>6 DEF Base, Clients, GiveUpReconnect
  <2>2. Base(c') /\ Steady(v, c')
    BY <1>3, <2>1 DEF Base, Kept, Steady
  <2>3. Sound(c')
    BY <1>2, <1>3, <2>1, <2>2 DEF Sound, Behind, Alike
  <2>. QED
    BY <1>3, <2>2, <2>3, SteadyChain, SteadyKeeps
<1>7. CASE c' = ScheduleReconnect(v)
  <2>1. Sound(c') /\ Steady(v, c')
    BY <1>2, <1>3, <1>7, ScheduleDoes DEF Alike
  <2>. QED
    BY <1>3, <2>1, SteadyChain, SteadyKeeps
<1>. QED
  BY <1>4, <1>5, <1>6, <1>7

(* An attempt called off has nothing left to end but itself.               *)
LEMMA StaleKeeps == ASSUME SessionInv, NEW i \in Ids, StaleEnds(i) PROVE Keeps
<1>1. /\ Sound(c) /\ c \in Clients /\ c.stage[i] = "stale" /\ c.abort # i
      /\ c.session # i /\ c.socket[i] = "none"
  BY DEF SessionInv, Sound, Base, StaleEnds, Kept, Going
<1>2. c' = End(c, i)
  BY DEF StaleEnds, Becomes
<1>3. /\ c' \in Clients /\ Alike(c, c') /\ c'.abort = c.abort /\ c'.session = c.session
      /\ c'.kind = [c.kind EXCEPT ![i] = "join"] /\ c'.renewing = c.renewing
      /\ c'.stage = [c.stage EXCEPT ![i] = "none"] /\ c'.socket = c.socket
      /\ c'.attempts = c.attempts
  BY <1>1, <1>2, ZenonT(60) DEF End, Clients, Alike
<1>4. ASSUME NEW j \in Ids PROVE Kept(c', j)
  BY <1>1, <1>3 DEF Sound, Base, Kept, Going, Live, Clients
<1>5. Behind(c')
  BY <1>1, <1>3, ClientSessionAssumption
  DEF Sound, Behind, Alike, Clients, ClientSessionAssumption
<1>6. UNCHANGED Visible
  BY <1>3 DEF Visible, Alike
<1>. QED
  BY <1>3, <1>4, <1>5, <1>6 DEF Keeps, Sound, Base, Silent

LEMMA BlackholeKeeps == ASSUME SessionInv, NEW i \in Ids, Blackhole(i) PROVE Keeps
<1>1. /\ Sound(c) /\ c \in Clients /\ Kept(c, i) /\ c.socket[i] = "up"
      /\ c' = [c EXCEPT !.socket[i] = "dead"]
  BY DEF SessionInv, Sound, Base, Blackhole, Becomes
<1>2. /\ c' \in Clients /\ Alike(c, c') /\ c'.abort = c.abort /\ c'.session = c.session
      /\ c'.kind = c.kind /\ c'.renewing = c.renewing
      /\ c'.stage = c.stage /\ c'.socket = [c.socket EXCEPT ![i] = "dead"]
  BY <1>1 DEF Clients, Alike
<1>3. Kept(c', i)
  BY <1>1, <1>2 DEF Kept, Live, Clients
<1>4. Sound(c')
  BY <1>1, <1>2, <1>3, BehindStays, SMTT(30) DEF Clients
<1>5. Steady(c, c')
  BY <1>1, <1>2 DEF Steady, Clients
<1>. QED
  BY <1>4, <1>5, SteadyKeeps

(* The events of a socket let go of are heard by nobody, those of the      *)
(* session's own end it.                                                   *)
LEMMA SocketEndsKeeps ==
  ASSUME SessionInv, NEW i \in Ids, NEW after \in {"none", "gone"}, SocketEnds(i, after)
  PROVE  Keeps
<1>. DEFINE to == IF c.socket[i] = "gone" THEN "none" ELSE after
            v == [c EXCEPT !.socket[i] = to]
<1>1. Sound(c) /\ c \in Clients /\ to \in {"none", "gone"}
  BY DEF SessionInv, Sound, Base
<1>2. c' = IF c.socket[i] = "gone" THEN v ELSE OnSessionDropped(v)
  BY DEF SocketEnds, Becomes, Silenced
<1>3. c.socket[i] = "gone" \/ c.session = i
  BY DEF SocketEnds
<1>. HIDE DEF to
<1>4. /\ v \in Clients /\ Alike(c, v) /\ v.abort = c.abort /\ v.session = c.session
      /\ v.kind = c.kind /\ v.renewing = c.renewing /\ v.attempts = c.attempts
      /\ v.stage = c.stage /\ v.socket = [c.socket EXCEPT ![i] = to]
  BY <1>1 DEF Clients, Alike
<1>. HIDE DEF v
<1>5. Kept(v, i)
  BY <1>1, <1>3, <1>4 DEF Sound, Base, Kept, Live, Clients
<1>6. Sound(v)
  BY <1>1, <1>4, <1>5, BehindStays DEF Clients
<1>7. CASE c.socket[i] = "gone"
  <2>1. c' = v
    BY <1>2, <1>7
  <2>2. UNCHANGED Visible
    BY <1>4, <2>1 DEF Visible, Alike
  <2>. QED
    BY <1>6, <2>1, <2>2 DEF Keeps, Silent
<1>8. CASE c.socket[i] # "gone"
  <2>1. v.screen = "space"
    BY <1>3, <1>4, <1>6, <1>8, ClientSessionAssumption
    DEF Sound, Behind, ClientSessionAssumption
  <2>2. Sound(c') /\ Steady(v, c')
    BY <1>2, <1>6, <1>8, <2>1, DroppedDoes DEF Sound
  <2>3. Steady(c, v)
    BY <1>1, <1>4, <1>8 DEF Steady, Clients
  <2>. QED
    BY <2>2, <2>3, SteadyChain, SteadyKeeps
<1>. QED
  BY <1>7, <1>8

LEMMA OnlineKeeps == ASSUME SessionInv, GoOnline PROVE Keeps
<1>1. Sound(c) /\ c \in Clients
  BY DEF SessionInv, Sound, Base
<1>2. CASE c' = c
  BY <1>1, <1>2, SteadyKeeps DEF Steady
<1>3. CASE c' # c
  <2>. DEFINE x == Disarm(c)
              t == Min((0 .. Cardinality(x.armed)) \ x.armed)
              armed == {0}
  <2>1. /\ c' = Await(x, 1) /\ c.state = "waiting" /\ c.session = None
        /\ ~c.leaving /\ c.joined
    BY <1>3 DEF GoOnline
  <2>2. /\ x \in Clients /\ x.screen = c.screen /\ x.joined = c.joined /\ x.leaving = c.leaving
        /\ x.armed = c.armed \ {c.timer}
        /\ x.abort = c.abort /\ x.session = c.session /\ x.kind = c.kind
        /\ x.stage = c.stage /\ x.socket = c.socket /\ x.renewing = c.renewing
    BY <1>1 DEF Disarm, Clients, Alike
  <2>. HIDE DEF x
  <2>3. c.screen = "reconnecting" /\ c.abort = None /\ x.armed = {}
    BY <1>1, <2>1, <2>2 DEF Sound, Behind
  <2>4. t = 0
    <3>1. (0 .. Cardinality(x.armed)) \ x.armed = {0}
      BY <2>3, FS_EmptySet
    <3>. QED
      BY <3>1 DEF Min
  <2>5. c' = [x EXCEPT !.armed = armed, !.timer = 0, !.attempts = 1,
                       !.state = "waiting", !.screen = "reconnecting"]
    BY <2>1, <2>3, <2>4 DEF Await
  <2>6. armed \in SUBSET Nat
    OBVIOUS
  <2>. HIDE DEF armed
  <2>7. /\ c' \in Clients /\ c'.screen = "reconnecting" /\ c'.abort = x.abort
        /\ c'.session = x.session /\ c'.state = "waiting" /\ c'.armed = armed /\ c'.timer = 0
        /\ c'.joined = x.joined /\ c'.leaving = x.leaving
        /\ c'.stage = x.stage /\ c'.socket = x.socket /\ c'.renewing = x.renewing
    BY <2>2, <2>5, <2>6 DEF Clients
  <2>8. Base(c') /\ Steady(c, c')
    BY <1>1, <2>2, <2>7 DEF Sound, Base, Kept, Steady
  <2>9. Sound(c')
    BY <2>1, <2>2, <2>3, <2>7, <2>8 DEF Sound, Behind, armed
  <2>. QED
    BY <2>8, <2>9, SteadyKeeps
<1>. QED
  BY <1>2, <1>3

LEMMA RetryKeeps == ASSUME SessionInv, NEW t \in c.armed, RetryTimer(t) PROVE Keeps
<1>1. /\ Sound(c) /\ c \in Clients
      /\ c.screen = "reconnecting" /\ c.armed = {t} /\ c.abort = None /\ c.session = None
      /\ c.joined /\ ~c.leaving
  BY DEF SessionInv, Sound, Base, Behind
<1>. DEFINE over == IF suspended THEN FALSE ELSE c.windowOver
            v == [c EXCEPT !.armed = @ \ {t}]
            y == [v EXCEPT !.state = "connecting", !.windowOver = over]
<1>2. FreeIds(c) # {} /\ c' = Begin(y, FreeId(c), "retry")
  <2>1. v.windowOver = c.windowOver
    BY <1>1 DEF Clients
  <2>. QED
    BY <1>1, <2>1 DEF RetryTimer
<1>3. over \in BOOLEAN
  BY <1>1 DEF Clients
<1>. HIDE DEF over
<1>4. /\ y \in Clients /\ y.screen = c.screen /\ y.state = "connecting" /\ y.armed = {}
      /\ y.joined = c.joined /\ y.leaving = c.leaving /\ y.dropped = c.dropped
      /\ y.abort = c.abort /\ y.session = c.session
      /\ y.stage = c.stage /\ y.socket = c.socket /\ y.renewing = c.renewing
  <2>1. /\ v \in Clients /\ v.screen = c.screen /\ v.armed = {}
        /\ v.joined = c.joined /\ v.leaving = c.leaving /\ v.dropped = c.dropped
        /\ v.abort = c.abort /\ v.session = c.session
        /\ v.stage = c.stage /\ v.socket = c.socket /\ v.renewing = c.renewing
    BY <1>1 DEF Clients
  <2>. HIDE DEF v
  <2>. QED
    BY <1>3, <2>1, RetryBegins, ZenonT(60)
<1>. HIDE DEF y
<1>5. Base(y) /\ Steady(c, y)
  BY <1>1, <1>4 DEF Sound, Base, Kept, Steady
<1>6. FreeIds(y) = FreeIds(c) /\ FreeId(y) = FreeId(c)
  <2>1. FreeIds(y) = FreeIds(c)
    BY <1>4 DEF FreeIds
  <2>. QED
    BY <2>1 DEF FreeId
<1>7. /\ Base(c') /\ Steady(y, c') /\ Alike(y, c')
      /\ c'.abort \in Ids /\ c'.kind[c'.abort] = "retry" /\ c'.session = y.session
  BY <1>1, <1>2, <1>4, <1>5, <1>6, BeginDoes
<1>8. Sound(c')
  BY <1>1, <1>4, <1>7, ClientSessionAssumption
  DEF Sound, Behind, Alike, ClientSessionAssumption
<1>. QED
  BY <1>5, <1>7, <1>8, SteadyChain, SteadyKeeps

LEMMA HeartbeatKeeps == ASSUME SessionInv, Heartbeat PROVE Keeps
<1>1. Sound(c) /\ c \in Clients /\ c.screen = "space"
  BY DEF SessionInv, Sound, Base, Behind, Heartbeat
<1>2. CASE c' = OnSessionDropped(c)
  BY <1>1, <1>2, DroppedDoes, SteadyKeeps DEF Sound
<1>3. CASE c' # OnSessionDropped(c)
  <2>1. PICK missed \in Nat : c' = [c EXCEPT !.missed = missed]
    BY <1>1, <1>3, SMTT(30) DEF Heartbeat, Becomes, Clients
  <2>. QED
    BY <1>1, <2>1, InertKeeps
<1>. QED
  BY <1>2, <1>3

LEMMA RenewTimerKeeps == ASSUME SessionInv, NEW k \in Kinds, RenewTimer(k) PROVE Keeps
<1>. DEFINE s == c.renewTimer[k]
            r == [kind |-> k, of |-> s, step |-> "token"]
            timers == [c.renewTimer EXCEPT ![k] = None]
            renewing == IF c.session # s THEN c.renewing ELSE c.renewing \union {r}
<1>1. Sound(c) /\ c \in Clients /\ s \in Ids /\ r \in Renewals
  BY DEF SessionInv, Sound, Base, RenewTimer, Clients, Renewals
<1>2. timers \in [Kinds -> Ids \union {None}] /\ renewing \in SUBSET Renewals
  BY <1>1 DEF Clients, Renewals
<1>3. c' = [c EXCEPT !.renewTimer = timers, !.renewing = renewing]
  <2>1. [c EXCEPT !.renewTimer[k] = None].renewing = c.renewing
    BY <1>1 DEF Clients
  <2>2. [c EXCEPT !.renewTimer = timers].renewing = c.renewing
    BY <1>1 DEF Clients
  <2>3. CASE c.session # s
    BY <1>1, <2>3 DEF RenewTimer, Becomes, Clients
  <2>4. CASE c.session = s
    BY <1>1, <2>1, <2>2, <2>4 DEF RenewTimer, Becomes, Clients
  <2>. QED
    BY <2>3, <2>4
<1>4. c.renewing \subseteq renewing
  OBVIOUS
<1>. HIDE DEF timers, renewing
<1>. QED
  BY <1>1, <1>2, <1>3, <1>4, RenewalKeeps

LEMMA RenewedKeeps ==
  ASSUME SessionInv, NEW r \in c.renewing, NEW got \in {"fresh", "none", "refused"},
         Renewed(r, got)
  PROVE  Keeps
<1>. DEFINE v == [c EXCEPT !.renewing = @ \ {r}]
            next == [r EXCEPT !.step = "list"]
<1>1. Sound(c) /\ c \in Clients /\ r \in Renewals
  BY DEF SessionInv, Sound, Base, Clients, Renewals
<1>2. /\ v \in Clients /\ Alike(c, v) /\ v.abort = c.abort /\ v.session = c.session
      /\ v.kind = c.kind /\ v.stage = c.stage /\ v.socket = c.socket
      /\ v.renewing = c.renewing \ {r} /\ v.renewTimer = c.renewTimer
      /\ v = [c EXCEPT !.renewTimer = c.renewTimer, !.renewing = c.renewing \ {r}]
  BY <1>1 DEF Clients, Alike
<1>3. /\ r.of # c.session => c' = v
      /\ \/ c' = v
         \/ c' = LeaveSession(v) /\ r.of = c.session
         \/ c' = [v EXCEPT !.renewing = @ \union {next}]
         \/ c' = [v EXCEPT !.renewTimer[r.kind] = r.of]
  BY DEF Renewed, Becomes, Owns
<1>4. c.renewTimer \in [Kinds -> Ids \union {None}] /\ c.renewing \in SUBSET Renewals
  BY <1>1 DEF Clients, Renewals
<1>. HIDE DEF v
<1>5. CASE c' = v
  <2>1. c.renewing \ {r} \in SUBSET Renewals
    BY <1>4
  <2>. QED
    BY <1>1, <1>2, <1>4, <1>5, <2>1, RenewalKeeps
<1>6. CASE c' = LeaveSession(v) /\ r.of = c.session
  <2>1. Sound(v)
    BY <1>1, <1>2, BehindStays
  <2>2. Sound(c') /\ Steady(v, c')
    BY <1>6, <2>1, LeaveDoes
  <2>. QED
    BY <1>2, <1>6, <2>2 DEF Keeps, Silent, Steady
<1>7. CASE c' = [v EXCEPT !.renewing = @ \union {next}]
  <2>1. next \in Renewals
    BY <1>1 DEF Renewals
  <2>. DEFINE renewing == (c.renewing \ {r}) \union {next}
  <2>. HIDE DEF next
  <2>2. renewing \in SUBSET Renewals
    BY <1>4, <2>1
  <2>3. c' = [v EXCEPT !.renewing = renewing]
    BY <1>2, <1>7
  <2>. HIDE DEF renewing
  <2>4. c' = [c EXCEPT !.renewTimer = c.renewTimer, !.renewing = renewing]
    BY <1>1, <1>2, <2>3 DEF Clients
  <2>. QED
    BY <1>1, <1>4, <2>2, <2>4, RenewalKeeps
<1>8. CASE c' = [v EXCEPT !.renewTimer[r.kind] = r.of]
  <2>. DEFINE timers == [c.renewTimer EXCEPT ![r.kind] = r.of]
  <2>1. r.kind \in Kinds /\ r.of \in Ids
    BY <1>1 DEF Renewals
  <2>2. timers \in [Kinds -> Ids \union {None}] /\ c.renewing \ {r} \in SUBSET Renewals
    BY <1>4, <2>1
  <2>3. c' = [v EXCEPT !.renewTimer = timers]
    BY <1>2, <1>8
  <2>. HIDE DEF timers
  <2>4. c' = [c EXCEPT !.renewTimer = timers, !.renewing = c.renewing \ {r}]
    BY <1>1, <1>2, <2>3 DEF Clients
  <2>. QED
    BY <1>1, <2>2, <2>4, RenewalKeeps
<1>. QED
  BY <1>3, <1>5, <1>6, <1>7, <1>8

LEMMA ReauthStopsKeeps == ASSUME SessionInv, NEW r \in c.renewing, ReauthStops(r) PROVE Keeps
<1>1. Sound(c) /\ c \in Clients
  BY DEF SessionInv, Sound, Base
<1>2. c.renewTimer \in [Kinds -> Ids \union {None}] /\ c.renewing \ {r} \in SUBSET Renewals
  BY <1>1 DEF Clients, Renewals
<1>3. c' = [c EXCEPT !.renewTimer = c.renewTimer, !.renewing = c.renewing \ {r}]
  BY <1>1 DEF ReauthStops, Becomes, Clients
<1>. QED
  BY <1>1, <1>2, <1>3, RenewalKeeps

LEMMA InertStepsKeep ==
  ASSUME SessionInv, WindowPasses \/ Pong \/ CallToggles
  PROVE  Keeps
<1>1. Sound(c) /\ c \in Clients /\ c.inCall \in BOOLEAN
  BY DEF SessionInv, Sound, Base, Clients
<1>2. CASE WindowPasses
  BY <1>1, <1>2, InertKeeps DEF WindowPasses, Becomes
<1>3. CASE Pong
  BY <1>1, <1>3, InertKeeps DEF Pong, Becomes
<1>4. CASE CallToggles
  <2>1. (~c.inCall) \in BOOLEAN
    BY <1>1
  <2>. QED
    BY <1>1, <1>4, <2>1, InertKeeps DEF CallToggles, Becomes
<1>. QED
  BY <1>2, <1>3, <1>4

LEMMA SessionStep == ASSUME SessionInv, [Next]_sessionVars PROVE Keeps
<1>1. CASE UNCHANGED c
  BY <1>1, SteadyKeeps DEF SessionInv, Steady
<1>2. ASSUME NEW i \in Ids, Attempt(i) PROVE Keeps
  BY <1>2, AdvanceKeeps, WelcomedKeeps, FailsKeeps DEF Attempt
<1>3. CASE GoOffline \/ Suspend \/ UNCHANGED sessionVars
  BY <1>1, <1>3 DEF GoOffline, Suspend, sessionVars
<1>. QED
  BY <1>2, <1>3, JoinKeeps, CancelConnectKeeps, CancelReconnectKeeps, LeaveKeeps, StaleKeeps,
     BlackholeKeeps, SocketEndsKeeps, OnlineKeeps, RetryKeeps, HeartbeatKeeps, RenewTimerKeeps,
     RenewedKeeps, ReauthStopsKeeps, InertStepsKeep
  DEF Next

LEMMA SessionInvariant == Spec => []SessionInv
<1>1. SessionInv /\ [Next]_sessionVars => SessionInv'
  BY SessionStep DEF Keeps, SessionInv
<1>. QED
  BY <1>1, SessionInit, PTL DEF Spec, SafetySpec

(* What goes on behind each screen is what the screen says, no socket is   *)
(* left open behind it, and a dropped call is remembered only meanwhile:   *)
(* main.ts, from handleJoin to teardownSession.                            *)
THEOREM OneStoryCorrect == Spec => []OneStory
<1>1. SessionInv => OneStory
  <2>. SUFFICES ASSUME SessionInv PROVE OneStory
    OBVIOUS
  <2>. Base(c) /\ Behind(c) /\ c \in Clients
    BY DEF SessionInv, Sound, Base
  <2>1. Attempts = {i \in Ids : c.abort = i}
    BY DEF Attempts, Base, Kept, Going, Clients
  <2>2. c.abort = None => Attempts = {}
    BY <2>1, ClientSessionAssumption DEF ClientSessionAssumption
  <2>3. c.abort # None => Attempts = {c.abort}
    BY <2>1 DEF Clients
  <2>4. ScreenTells
    BY <2>2, <2>3 DEF ScreenTells, Behind, Clients
  <2>5. NoOrphanSocket
    BY <2>1 DEF NoOrphanSocket, Base, Kept, Going
  <2>6. DropRemembered
    BY DEF DropRemembered, Behind
  <2>. QED
    BY <2>4, <2>5, <2>6 DEF OneStory
<1>. QED
  BY <1>1, SessionInvariant, PTL

(* A socket let go of, an attempt called off and a renewal of an earlier   *)
(* session change nothing the user sees: net.ts, `if (this.ws !== ws)`,    *)
(* and main.ts, the checks after each await.                               *)
THEOREM StaleIsSilentCorrect == Spec => StaleIsSilent
<1>1. SessionInv /\ [Next]_sessionVars =>
        [(\/ \E i \in Ids : c.socket[i] = "gone" /\ c'.socket[i] = "none"
          \/ \E i \in Ids : c.stage[i] = "stale" /\ c'.stage[i] = "none"
          \/ \E r \in c.renewing \ c'.renewing : r.of # c.session)
         => UNCHANGED Visible]_sessionVars
  <2>. SUFFICES ASSUME SessionInv, [Next]_sessionVars
       PROVE  (\/ \E i \in Ids : c.socket[i] = "gone" /\ c'.socket[i] = "none"
               \/ \E i \in Ids : c.stage[i] = "stale" /\ c'.stage[i] = "none"
               \/ \E r \in c.renewing \ c'.renewing : r.of # c.session)
              => UNCHANGED Visible
    OBVIOUS
  <2>1. Silent
    BY SessionStep DEF Keeps
  <2>. QED
    BY <2>1 DEF Silent
<1>. QED
  BY <1>1, SessionInvariant, PTL DEF Spec, SafetySpec, StaleIsSilent
=============================================================================
