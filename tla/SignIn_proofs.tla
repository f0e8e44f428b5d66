---------------------------- MODULE SignIn_proofs ----------------------------
(***************************************************************************)
(* Proofs about module SignIn, for any set of sessions and any number of   *)
(* requests and writes in flight: what the keychain ends up with.          *)
(***************************************************************************)
EXTENDS SignIn, SequenceTheorems, FiniteSetTheorems, TLAPS

Sessions == Ids \union {None}

Loads == [at : {"no", "reading", "asking", "saving", "clearing"}, id : Sessions, over : BOOLEAN]

Clients ==
  [session : Sessions, timer : BOOLEAN, restoring : BOOLEAN, setup : {"no", "first", "another"},
   asked : SUBSET Asks, waits : SUBSET Waiting, switching : Sessions,
   callers : SUBSET {"restore", "join"}, load : Loads]

Writes == [id : Sessions, by : {"user", "load", "switch"}]

Typed ==
  /\ a \in Clients
  /\ queue \in Seq(Writes)
  /\ keychain \in Sessions
  /\ stale \subseteq Ids
  /\ word \in Sessions \union {Unknown}

(* What the keychain holds once every write asked for is made.             *)
Last == IF queue = <<>> THEN keychain ELSE queue[Len(queue)].id

(* Someone waits for a load exactly while there is one.                    *)
Awaited(v) ==
  /\ v.load.at = "no" <=> v.callers = {}
  /\ v.load.at = "no" => ~v.load.over

(* Nothing crossed a load under which the word is known: no write is asked *)
(* for but the load's own, and what it holds is what the user asked for.   *)
LoadUncrossed ==
  a.load.at # "no" =>
    /\ ~IsLive(a.session)
    /\ a.load.at = "reading" => queue = <<>> /\ ~a.load.over
    /\ a.load.at = "asking" => queue = <<>> /\ ~a.load.over /\ word = a.load.id
    /\ a.load.at \in {"saving", "clearing"} =>
         Len(queue) = 1 /\ queue[1].by = "load" /\ word = a.load.id

(* The client uses that session, or none; one being replaced by its        *)
(* renewal, or disowned, goes when the write is made.                      *)
SessionTold == a.load.at \in {"saving", "clearing"} \/ a.session \in {None, word}

KeychainInv ==
  /\ Typed
  /\ Awaited(a)
  /\ word # Unknown => Last = word /\ LoadUncrossed /\ SessionTold

(***************************************************************************)
(* Sessions.                                                               *)
(***************************************************************************)
(* The least-number principle: of the intervals that end in a number of S, *)
(* one includes no other.                                                  *)
LEMMA LeastNumber ==
  ASSUME NEW S \in SUBSET Nat, S # {}
  PROVE  \E m \in S : \A n \in S : m <= n
<1>. DEFINE T == {0 .. k : k \in S}
<1>1. T \subseteq FiniteSubsetsOf(Nat) /\ T # {}
  <2>1. ASSUME NEW k \in S PROVE 0 .. k \in FiniteSubsetsOf(Nat)
    <3>1. k \in Int /\ 0 .. k \subseteq Nat
      OBVIOUS
    <3>2. IsFiniteSet(0 .. k)
      BY <3>1, FS_Interval
    <3>. QED
      BY <3>1, <3>2 DEF FiniteSubsetsOf
  <2>. QED
    BY <2>1
<1>2. PICK x \in T : \A y \in T : <<y, x>> \notin StrictSubsetOrdering(Nat)
  BY <1>1, FS_StrictSubsetOrderingWellFounded, WFMin
<1>3. PICK m \in S : x = 0 .. m
  OBVIOUS
<1>4. ASSUME NEW n \in S, n < m PROVE FALSE
  <2>1. 0 .. n \subseteq 0 .. m /\ m \notin 0 .. n /\ m \in 0 .. m
    BY <1>4
  <2>2. 0 .. n \in SUBSET Nat /\ x \in SUBSET Nat /\ 0 .. n # x
    BY <1>3, <2>1
  <2>3. <<0 .. n, x>> \in StrictSubsetOrdering(Nat)
    BY <1>3, <2>1, <2>2 DEF StrictSubsetOrdering
  <2>. QED
    BY <1>2, <2>3
<1>. QED
  BY <1>4

LEMMA MintedIsFree == ASSUME Free # {} PROVE Minted \in Free
<1>1. Free \in SUBSET Nat
  BY SignInAssumption DEF SignInAssumption, Free
<1>. QED
  BY <1>1, LeastNumber DEF Minted, Min

(* A session the server mints is none that the client or the keychain has. *)
LEMMA MintedIsNew ==
  ASSUME Typed, Mints
  PROVE  /\ Minted \in Ids /\ Minted \notin {a.session, keychain, a.load.id, None, Unknown}
         /\ stale' = stale \ {Minted} /\ keychain' = keychain
BY MintedIsFree, SignInAssumption DEF Typed, Mints, Free, InUse, SignInAssumption

LEMMA LastAfterWrite ==
  ASSUME NEW q \in Seq(Writes), NEW op \in Writes
  PROVE  /\ Append(q, op) \in Seq(Writes)
         /\ Append(q, op) # <<>>
         /\ Append(q, op)[Len(Append(q, op))] = op
         /\ Len(Append(q, op)) = Len(q) + 1
BY AppendProperties

LEMMA RestAfterWrite ==
  ASSUME NEW q \in Seq(Writes), q # <<>>
  PROVE  /\ Head(q) \in Writes /\ Head(q) = q[1]
         /\ Tail(q) \in Seq(Writes)
         /\ Tail(q) # <<>> => Tail(q)[Len(Tail(q))] = q[Len(q)]
         /\ Tail(q) = <<>> => Len(q) = 1
<1>1. Len(q) \in Nat \ {0} /\ Head(q) \in Writes /\ Tail(q) \in Seq(Writes) /\ Head(q) = q[1]
  BY HeadTailProperties, EmptySeq, ElementOfSeq
<1>2. Len(Tail(q)) = Len(q) - 1 /\ \A i \in 1 .. Len(q) - 1 : Tail(q)[i] = q[i + 1]
  BY <1>1, HeadTailProperties
<1>3. Tail(q) = <<>> <=> Len(q) = 1
  BY <1>1, <1>2, EmptySeq
<1>. QED
  BY <1>1, <1>2, <1>3

(***************************************************************************)
(* What a handler that neither adopts a session nor settles a load does:   *)
(* it drops the session or leaves it, and it begins a load or leaves it.   *)
(***************************************************************************)
Rests(v, w) ==
  /\ w \in Clients
  /\ Awaited(v) => Awaited(w)
  /\ w.session \in {v.session, None}
  /\ \/ w.load = v.load
     \/ /\ v.load.at = "no" /\ w.load = [v.load EXCEPT !.at = "reading"]
        /\ ~IsLive(w.session)

LEMMA RestsThenRests ==
  ASSUME NEW u, NEW v, NEW w, Rests(u, v), Rests(v, w)
  PROVE  Rests(u, w)
BY DEF Rests, IsLive, Clients, Loads

LEMMA LoadRests ==
  ASSUME NEW v \in Clients, NEW caller \in {"restore", "join"}, ~IsLive(v.session)
  PROVE  Rests(v, LoadSession(v, caller))
<1>1. LoadSession(v, caller) \in Clients
  BY DEF LoadSession, Clients, Loads
<1>. QED
  BY <1>1 DEF LoadSession, Rests, Awaited, Clients, Loads

LEMMA CancelRests ==
  ASSUME NEW v \in Clients
  PROVE  Rests(v, CancelRestoreRetry(v))
BY DEF CancelRestoreRetry, Rests, Awaited, Clients

LEMMA AsideRests ==
  ASSUME NEW v \in Clients
  PROVE  Rests(v, StepSessionAside(v))
<1>1. StepSessionAside(v) \in Clients
  BY DEF StepSessionAside, Reflect, CancelRestoreRetry, Clients, Sessions
<1>. QED
  BY <1>1 DEF StepSessionAside, Reflect, CancelRestoreRetry, Rests, Awaited, Clients

LEMMA RestoreRests ==
  ASSUME NEW v \in Clients
  PROVE  Rests(v, RestoreAuthSession(v))
BY LoadRests, CancelRests, AsideRests DEF RestoreAuthSession

LEMMA TokenRests ==
  ASSUME NEW v \in Clients
  PROVE  Rests(v, EffectiveToken(v))
<1>1. CASE IsLive(v.session)
  BY <1>1 DEF EffectiveToken, Rests, Awaited, Clients
<1>2. CASE ~IsLive(v.session)
  BY <1>2, LoadRests DEF EffectiveToken
<1>. QED
  BY <1>1, <1>2

LEMMA SwitchRests ==
  ASSUME NEW v \in Clients
  PROVE  Rests(v, SwitchSettles(v))
<1>. DEFINE over == [v EXCEPT !.switching = None, !.asked = @ \ {"switch"}, !.waits = {}]
<1>1. over \in Clients /\ Rests(v, over)
  BY DEF Rests, Awaited, Clients, Sessions
<1>2. Rests(v, EffectiveToken(over))
  BY <1>1, TokenRests, RestsThenRests
<1>. QED
  BY <1>1, <1>2 DEF SwitchSettles

(* The invariant survives every such handler that writes nothing.          *)
LEMMA RestsKeeps ==
  ASSUME KeychainInv, Rests(a, a'), Becomes(a'),
         UNCHANGED <<queue, keychain>>, stale' \subseteq Ids,
         a.session \in stale => a.session \in stale'
  PROVE  KeychainInv'
<1>1. Typed' /\ Awaited(a)'
  BY SignInAssumption DEF KeychainInv, Typed, Rests, Becomes, Awaited
<1>2. ASSUME word' # Unknown PROVE (Last = word)' /\ word = word'
  BY <1>2 DEF KeychainInv, Becomes, Last
<1>3. ASSUME word' # Unknown PROVE LoadUncrossed' /\ SessionTold'
  <2>1. word = word' /\ LoadUncrossed /\ SessionTold /\ Last = word
    BY <1>2, <1>3 DEF KeychainInv
  <2>2. CASE a'.load = a.load
    BY <2>1, <2>2 DEF LoadUncrossed, SessionTold, Rests, IsLive
  <2>3. CASE /\ a.load.at = "no" /\ a'.load = [a.load EXCEPT !.at = "reading"]
             /\ ~IsLive(a'.session)
    <3>1. a'.load.at = "reading" /\ ~a'.load.over
      BY <2>3 DEF KeychainInv, Typed, Clients, Loads, Awaited
    <3>2. queue = <<>>
      BY <1>3, <2>3, <3>1 DEF Becomes, Crossed
    <3>3. ~IsLive(a.session)'
      BY <2>3 DEF IsLive, Rests
    <3>4. a'.session \in {None, word}
      BY <2>1, <2>3 DEF SessionTold, Rests
    <3>. QED
      BY <2>1, <3>1, <3>2, <3>3, <3>4 DEF LoadUncrossed, SessionTold
  <2>. QED
    BY <2>2, <2>3 DEF Rests
<1>. QED
  BY <1>1, <1>2, <1>3 DEF KeychainInv

(* A session adopted, or dropped by the user: the last word and the last   *)
(* write are the same.                                                     *)
LEMMA AdoptKeeps ==
  ASSUME KeychainInv, NEW s \in Sessions, NEW by \in {"user", "switch"},
         a' \in Clients, a'.session = s, a'.callers = a.callers,
         a'.load.at = a.load.at, a.load.at = "no" => a'.load = a.load,
         Enqueue(s, by), Says(s), keychain' = keychain, stale' \subseteq Ids
  PROVE  KeychainInv'
<1>1. queue' = Append(queue, [id |-> s, by |-> by]) /\ [id |-> s, by |-> by] \in Writes
  BY DEF Enqueue, Writes
<1>2. queue' \in Seq(Writes) /\ queue' # <<>> /\ queue'[Len(queue')].id = s
  BY <1>1, LastAfterWrite DEF KeychainInv, Typed
<1>3. Typed' /\ Awaited(a)'
  BY <1>2 DEF KeychainInv, Typed, Awaited, Says
<1>4. ASSUME word' # Unknown PROVE Last' = word' /\ LoadUncrossed' /\ SessionTold'
  BY <1>2, <1>4 DEF Says, Last, LoadUncrossed, SessionTold
<1>. QED
  BY <1>3, <1>4 DEF KeychainInv

(* A load settles, and hands its session to whoever awaited it.            *)
LEMMA SettleDoes ==
  ASSUME NEW v \in Clients, NEW s \in Sessions
  PROVE  /\ Settle(v, s) \in Clients
         /\ Awaited(Settle(v, s)) /\ Settle(v, s).load.at = "no"
         /\ v.callers = {} => Settle(v, s).session = v.session
         /\ v.callers # {} /\ ~IsLive(v.session) => Settle(v, s).session = s
<1>. DEFINE u == EffectiveTokenResumes(v, s)
            w == RestoreResumes(u, s)
<1>1. /\ u \in Clients /\ u.callers = v.callers /\ u.load = v.load
      /\ "join" \in v.callers => u.session = s
      /\ "join" \notin v.callers => u = v
  BY DEF EffectiveTokenResumes, Loaded, Reflect, Clients, Sessions
<1>2. /\ w \in Clients /\ w.callers = v.callers /\ w.load = v.load
      /\ "restore" \notin v.callers => w = u
      /\ "restore" \in v.callers => w.session = IF IsLive(u.session) THEN u.session ELSE s
  BY <1>1, ZenonT(60) DEF RestoreResumes, CancelRestoreRetry, Loaded, Reflect, Clients, Sessions
<1>3. Settle(v, s) = [w EXCEPT !.callers = {}, !.load = [at |-> "no", id |-> None, over |-> FALSE]]
  BY DEF Settle
<1>4. [at |-> "no", id |-> None, over |-> FALSE] \in Loads
  BY DEF Loads, Sessions
<1>5. /\ Settle(v, s) \in Clients /\ Settle(v, s).session = w.session
      /\ Settle(v, s).callers = {}
      /\ Settle(v, s).load = [at |-> "no", id |-> None, over |-> FALSE]
  BY <1>2, <1>3, <1>4, ZenonT(60) DEF Clients
<1>6. v.callers \subseteq {"restore", "join"}
  BY DEF Clients
<1>. QED
  BY <1>1, <1>2, <1>5, <1>6 DEF Awaited

LEMMA SettleKeeps ==
  ASSUME KeychainInv, NEW s \in Sessions, a' = Settle(a, s), a.load.at # "no",
         queue' \in Seq(Writes), keychain' \in Sessions, stale' \subseteq Ids,
         word' \in {word, Unknown},
         word' # Unknown => Last' = word /\ s \in {None, word}
  PROVE  KeychainInv'
<1>1. /\ a' \in Clients /\ Awaited(a') /\ a'.load.at = "no"
      /\ ~IsLive(a.session) => a'.session = s
  BY SettleDoes DEF KeychainInv, Typed, Awaited
<1>2. Typed' /\ Awaited(a)'
  BY <1>1 DEF KeychainInv, Typed, Awaited
<1>3. ASSUME word' # Unknown PROVE Last' = word' /\ LoadUncrossed' /\ SessionTold'
  BY <1>1, <1>3 DEF KeychainInv, LoadUncrossed, SessionTold
<1>. QED
  BY <1>2, <1>3 DEF KeychainInv

(***************************************************************************)
(* The actions.                                                            *)
(***************************************************************************)
LEMMA MemoryKeeps ==
  ASSUME KeychainInv, NEW v, Rests(a, v), Memory(v)
  PROVE  KeychainInv'
BY RestsKeeps DEF Memory, Becomes, KeychainInv, Typed

LEMMA BootedRests ==
  /\ Booted \in Clients /\ Awaited(Booted) /\ Booted.session = None
  /\ Booted.load.at \in {"no", "reading"} /\ ~Booted.load.over
<1>. DEFINE v == [session |-> None, timer |-> FALSE, restoring |-> TRUE, setup |-> "no",
                  asked |-> {}, waits |-> {}, switching |-> None, callers |-> {},
                  load |-> [at |-> "no", id |-> None, over |-> FALSE]]
<1>1. v \in Clients /\ Awaited(v)
  BY DEF Clients, Loads, Sessions, Awaited
<1>2. Rests(v, Booted)
  BY <1>1, RestoreRests DEF Booted
<1>. QED
  BY <1>1, <1>2 DEF Rests, Clients, Loads

LEMMA KeychainInit == Init => KeychainInv
<1>. SUFFICES ASSUME Init PROVE KeychainInv
  OBVIOUS
<1>. USE DEF Init
<1>1. Typed
  BY BootedRests DEF Typed, Sessions
<1>2. Last = word /\ LoadUncrossed /\ SessionTold
  BY BootedRests DEF Last, LoadUncrossed, SessionTold, IsLive
<1>. QED
  BY <1>1, <1>2, BootedRests DEF KeychainInv

(* What the user asks for, and what is answered without a session.         *)
LEMMA AsksKeep ==
  ASSUME KeychainInv,
         \/ HandleLogin \/ HandleEmailStart \/ HandleEmailVerify \/ CodeMailed
         \/ LoginPendingOrg \/ RequestFails \/ HandleHandoff
         \/ ShowOrgSetup \/ HandleCancelOrgSetup \/ HandleCreateOrg \/ HandleSwitchOrg
  PROVE  KeychainInv'
<1>. a \in Clients
  BY DEF KeychainInv, Typed
<1>1. CASE HandleLogin \/ HandleEmailStart \/ HandleEmailVerify
  <2>1. PICK what \in {"browser", "mail", "code"} : Memory([a EXCEPT !.asked = @ \union {what}])
    BY <1>1 DEF HandleLogin, HandleEmailStart, HandleEmailVerify
  <2>2. Rests(a, [a EXCEPT !.asked = @ \union {what}])
    BY DEF Rests, Awaited, Clients, Asks, Logins
  <2>. QED
    BY <2>1, <2>2, MemoryKeeps
<1>2. CASE CodeMailed
  <2>1. PICK step \in SUBSET {"codeStep"} :
          Memory([a EXCEPT !.asked = (@ \ {"mail"}) \union IF a.session = None THEN step ELSE {}])
    BY <1>2 DEF CodeMailed
  <2>2. Rests(a, [a EXCEPT !.asked = (@ \ {"mail"}) \union IF a.session = None THEN step ELSE {}])
    BY DEF Rests, Awaited, Clients, Asks, Waiting
  <2>. QED
    BY <2>1, <2>2, MemoryKeeps
<1>3. CASE LoginPendingOrg
  <2>1. PICK what \in Logins : Memory([Answered(a, what) EXCEPT !.setup = "first"])
    BY <1>3 DEF LoginPendingOrg
  <2>2. Rests(a, [Answered(a, what) EXCEPT !.setup = "first"])
    BY DEF Answered, Rests, Awaited, Clients, Asks, Waiting
  <2>. QED
    BY <2>1, <2>2, MemoryKeeps
<1>4. CASE RequestFails
  <2>1. PICK what : Memory([a EXCEPT !.asked = @ \ {what}])
    BY <1>4 DEF RequestFails
  <2>2. Rests(a, [a EXCEPT !.asked = @ \ {what}])
    BY DEF Rests, Awaited, Clients, Asks, Waiting
  <2>. QED
    BY <2>1, <2>2, MemoryKeeps
<1>5. CASE HandleHandoff
  <2>. DEFINE w == [a EXCEPT !.asked = @ \union {"handoff"},
                     !.waits = IF "switch" \in a.asked THEN @ \union {"handoff"} ELSE @]
  <2>1. Memory(w)
    BY <1>5 DEF HandleHandoff
  <2>2. Rests(a, w)
    BY DEF Rests, Awaited, Clients, Asks, Waiting
  <2>. QED
    BY <2>1, <2>2, MemoryKeeps
<1>6. CASE ShowOrgSetup \/ HandleCancelOrgSetup \/ HandleCreateOrg
  <2>1. PICK v \in {[a EXCEPT !.setup = "another"], [a EXCEPT !.setup = "no"],
                    [a EXCEPT !.asked = @ \union {"found"}]} : Memory(v)
    BY <1>6 DEF ShowOrgSetup, HandleCancelOrgSetup, HandleCreateOrg
  <2>2. Rests(a, v)
    BY DEF Rests, Awaited, Clients, Asks, Waiting
  <2>. QED
    BY <2>1, <2>2, MemoryKeeps
<1>7. CASE HandleSwitchOrg
  <2>1. Rests(a, [a EXCEPT !.asked = @ \union {"switch"}, !.switching = a.session])
    BY DEF Rests, Awaited, Clients, Asks, Waiting
  <2>. QED
    BY <1>7, <2>1, MemoryKeeps DEF HandleSwitchOrg
<1>. QED
  BY <1>1, <1>2, <1>3, <1>4, <1>5, <1>6, <1>7

(* What may begin a load.                                                  *)
LEMMA RestoresKeep ==
  ASSUME KeychainInv, HandleEndpointsChange \/ HandleJoin \/ RestoreTimer \/ Online \/ SwitchRefused
  PROVE  KeychainInv'
<1>1. a \in Clients
  BY DEF KeychainInv, Typed
<1>2. CASE HandleEndpointsChange
  BY <1>1, <1>2, AsideRests, RestoreRests, MemoryKeeps DEF HandleEndpointsChange
<1>3. CASE HandleJoin
  <2>. DEFINE asks == [a EXCEPT !.asked = @ \union {"join"}]
              waits == [asks EXCEPT !.waits = @ \union {"join"}]
  <2>1. Rests(a, asks) /\ asks \in Clients /\ Rests(a, waits)
    BY <1>1 DEF Rests, Awaited, Clients, Asks, Waiting
  <2>2. Rests(a, EffectiveToken(asks))
    BY <2>1, TokenRests, RestsThenRests
  <2>3. Memory(IF "switch" \in a.asked THEN waits ELSE EffectiveToken(asks))
    BY <1>3 DEF HandleJoin
  <2>. QED
    BY <2>1, <2>2, <2>3, MemoryKeeps
<1>4. CASE RestoreTimer \/ Online
  <2>1. Rests(a, CancelRestoreRetry(a)) /\ CancelRestoreRetry(a) \in Clients
    BY <1>1, CancelRests DEF Rests
  <2>2. Rests(a, RestoreAuthSession(CancelRestoreRetry(a)))
    BY <2>1, RestoreRests, RestsThenRests
  <2>. QED
    BY <1>4, <2>2, MemoryKeeps DEF RestoreTimer, Online
<1>5. CASE SwitchRefused
  BY <1>1, <1>5, SwitchRests, MemoryKeeps DEF SwitchRefused
<1>. QED
  BY <1>2, <1>3, <1>4, <1>5

(* A session in hand, from a sign-in, a handoff, a founding or a switch.   *)
LEMMA AdoptsKeep ==
  ASSUME KeychainInv, LoginSession \/ HandoffRedeemed \/ OrgFounded
  PROVE  KeychainInv'
<1>1. PICK what : Mints /\ AdoptSession(Answered(a, what), Minted)
  BY DEF LoginSession, HandoffRedeemed, OrgFounded
<1>2. /\ a' = [Reflect(CancelRestoreRetry(Answered(a, what)), Minted) EXCEPT !.setup = "no"]
      /\ Enqueue(Minted, "user") /\ Says(Minted)
  BY <1>1 DEF AdoptSession
<1>3. a \in Clients /\ Minted \in Sessions /\ keychain' = keychain /\ stale' \subseteq Ids
  BY <1>1, MintedIsNew DEF KeychainInv, Typed, Sessions
<1>4. a' \in Clients /\ a'.session = Minted /\ a'.callers = a.callers /\ a'.load = a.load
  BY <1>2, <1>3 DEF Reflect, CancelRestoreRetry, Answered, Clients
<1>. QED
  BY <1>2, <1>3, <1>4, AdoptKeeps

LEMMA LogoutKeeps == ASSUME KeychainInv, HandleLogout PROVE KeychainInv'
<1>1. /\ a' = Reflect(Abandon(CancelRestoreRetry(a)), None)
      /\ Enqueue(None, "user") /\ Says(None) /\ UNCHANGED <<keychain, stale>>
  BY DEF HandleLogout
<1>2. a \in Clients /\ stale \subseteq Ids /\ Awaited(a)
  BY DEF KeychainInv, Typed
<1>3. a' \in Clients /\ a'.session = None /\ a'.callers = a.callers
      /\ a'.load = [a.load EXCEPT !.over = a.load.at # "no"]
  BY <1>1, <1>2 DEF Reflect, CancelRestoreRetry, Abandon, Clients, Loads, Sessions
<1>4. a'.load.at = a.load.at /\ (a.load.at = "no" => a'.load = a.load)
  BY <1>2, <1>3 DEF Awaited, Clients, Loads
<1>5. None \in Sessions
  BY DEF Sessions
<1>. QED
  BY <1>1, <1>2, <1>3, <1>4, <1>5, AdoptKeeps

LEMMA SwitchKeeps == ASSUME KeychainInv, SwitchAnswered PROVE KeychainInv'
<1>1. Mints /\ a \in Clients /\ stale \subseteq Ids
  BY DEF SwitchAnswered, KeychainInv, Typed
<1>2. Minted \in Sessions /\ Minted # a.session /\ keychain' = keychain /\ stale' = stale \ {Minted}
  BY <1>1, MintedIsNew DEF KeychainInv, Sessions
<1>3. CASE Becomes(SwitchSettles(a)) /\ queue' = queue
  <2>1. a' = SwitchSettles(a) /\ Rests(a, a')
    BY <1>1, <1>3, SwitchRests DEF Becomes
  <2>. QED
    BY <1>1, <1>2, <1>3, <2>1, RestsKeeps
<1>4. CASE a' = Reflect(CancelRestoreRetry(a), Minted) /\ Enqueue(Minted, "switch") /\ Says(Minted)
  <2>1. a' \in Clients /\ a'.session = Minted /\ a'.callers = a.callers /\ a'.load = a.load
    BY <1>1, <1>2, <1>4 DEF Reflect, CancelRestoreRetry, Clients
  <2>. QED
    BY <1>1, <1>2, <1>4, <2>1, AdoptKeeps
<1>. QED
  BY <1>3, <1>4 DEF SwitchAnswered

(***************************************************************************)
(* A load, step by step.                                                   *)
(***************************************************************************)
LEMMA LoadSettles ==
  ASSUME KeychainInv, NEW s \in Sessions, Memory(Settle(a, s)), a.load.at # "no",
         word # Unknown => s \in {None, word}
  PROVE  KeychainInv'
<1>1. a' = Settle(a, s) /\ UNCHANGED <<queue, keychain, stale>> /\ word' \in {word, Unknown}
  BY DEF Memory, Becomes
<1>. QED
  BY <1>1, SettleKeeps DEF KeychainInv, Typed, Last

LEMMA ReadKeeps == ASSUME KeychainInv, KeychainRead \/ KeychainRefuses PROVE KeychainInv'
<1>1. /\ a.load.at = "reading" /\ a \in Clients /\ keychain \in Sessions /\ None \in Sessions
      /\ word # Unknown => word = keychain /\ queue = <<>> /\ ~a.load.over
  BY DEF KeychainRead, KeychainRefuses, KeychainInv, Typed, LoadUncrossed, Last, Sessions
<1>2. CASE Memory(Settle(a, None)) \/ Memory(Settle(a, keychain))
  BY <1>1, <1>2, LoadSettles
<1>3. CASE Memory([a EXCEPT !.load.at = "asking", !.load.id = keychain])
  <2>1. /\ a' = [a EXCEPT !.load.at = "asking", !.load.id = keychain]
        /\ UNCHANGED <<queue, keychain, stale, word>>
    BY <1>1, <1>3 DEF Memory, Becomes, Crossed
  <2>2. /\ a' \in Clients /\ a'.session = a.session /\ a'.callers = a.callers
        /\ a'.load.at = "asking" /\ a'.load.id = keychain /\ a'.load.over = a.load.over
    BY <1>1, <2>1 DEF Clients, Loads
  <2>3. Typed' /\ Awaited(a)'
    BY <1>1, <2>1, <2>2 DEF KeychainInv, Typed, Awaited
  <2>4. ASSUME word' # Unknown PROVE Last' = word' /\ LoadUncrossed' /\ SessionTold'
    BY <1>1, <2>1, <2>2, <2>4 DEF KeychainInv, Last, LoadUncrossed, SessionTold, IsLive
  <2>. QED
    BY <2>3, <2>4 DEF KeychainInv
<1>. QED
  BY <1>2, <1>3 DEF KeychainRead, KeychainRefuses

LEMMA UnreachableKeeps == ASSUME KeychainInv, Unreachable PROVE KeychainInv'
BY LoadSettles DEF Unreachable, KeychainInv, Typed, Clients, Loads, LoadUncrossed

(* The load asks for its own write, while nothing else is asked for.       *)
LEMMA LoadWrites ==
  ASSUME KeychainInv, a.load.at = "asking", NEW s \in Sessions,
         NEW at \in {"saving", "clearing"},
         a' \in Clients, a'.session = a.session, a'.callers = a.callers,
         a'.load.at = at, a'.load.id = s,
         Enqueue(s, "load"), keychain' = keychain, stale' \subseteq Ids,
         a.session \in stale => a.session \in stale',
         word' = IF word = a.load.id THEN s ELSE word
  PROVE  KeychainInv'
<1>1. queue' = Append(queue, [id |-> s, by |-> "load"]) /\ [id |-> s, by |-> "load"] \in Writes
  BY DEF Enqueue, Writes
<1>2. /\ queue' \in Seq(Writes) /\ queue' # <<>> /\ queue'[Len(queue')] = [id |-> s, by |-> "load"]
      /\ Len(queue') = Len(queue) + 1
  BY <1>1, LastAfterWrite DEF KeychainInv, Typed
<1>3. Typed' /\ Awaited(a)'
  BY <1>2 DEF KeychainInv, Typed, Awaited
<1>4. ASSUME word' # Unknown PROVE Last' = word' /\ LoadUncrossed' /\ SessionTold'
  <2>1. a.load.id # Unknown
    BY SignInAssumption DEF KeychainInv, Typed, Clients, Loads, Sessions, SignInAssumption
  <2>2. word # Unknown
    BY <1>4, <2>1
  <2>3. queue = <<>> /\ word = a.load.id /\ ~IsLive(a.session)
    BY <2>2 DEF KeychainInv, LoadUncrossed
  <2>4. Len(queue') = 1 /\ word' = s /\ ~IsLive(a.session)'
    BY <1>2, <2>3 DEF IsLive
  <2>5. queue'[1].by = "load"
    BY <1>2, <2>4
  <2>6. Last' = s
    <3>1. queue'[Len(queue')].id = s
      BY <1>2
    <3>. QED
      BY <1>2, <3>1 DEF Last
  <2>7. LoadUncrossed' /\ SessionTold'
    BY <2>4, <2>5 DEF LoadUncrossed, SessionTold
  <2>. QED
    BY <2>4, <2>6, <2>7
<1>. QED
  BY <1>3, <1>4 DEF KeychainInv

LEMMA AnsweredKeeps == ASSUME KeychainInv, Disowned \/ Renewed PROVE KeychainInv'
<1>. a \in Clients /\ a.load \in Loads /\ None \in Sessions /\ stale \subseteq Ids /\ a.load.at = "asking"
  BY DEF KeychainInv, Typed, Clients, Sessions, Disowned, Renewed
<1>1. CASE Disowned
  <2>1. a' = [Abandon(a) EXCEPT !.load.at = "clearing", !.load.id = None]
    BY <1>1 DEF Disowned
  <2>2. /\ a' \in Clients /\ a'.session = a.session /\ a'.callers = a.callers
        /\ a'.load.at = "clearing" /\ a'.load.id = None
    BY <2>1 DEF Abandon, Clients, Loads
  <2>. QED
    BY <1>1, <2>2, LoadWrites DEF Disowned
<1>2. CASE Renewed
  <2>1. /\ Mints /\ Minted \in Sessions /\ Minted # a.session /\ keychain' = keychain
        /\ stale' = stale \ {Minted}
    BY <1>2, MintedIsNew DEF Renewed, KeychainInv, Sessions
  <2>2. CASE a.load.over
    <3>1. a' = Settle(a, None) /\ UNCHANGED <<queue, word>>
      BY <1>2, <2>2 DEF Renewed
    <3>. QED
      BY <2>1, <2>2, <3>1, SettleKeeps DEF KeychainInv, Typed, LoadUncrossed
  <2>3. CASE ~a.load.over
    <3>1. a' = [a EXCEPT !.load.at = "saving", !.load.id = Minted]
      BY <1>2, <2>3 DEF Renewed
    <3>2. /\ a' \in Clients /\ a'.session = a.session /\ a'.callers = a.callers
          /\ a'.load.at = "saving" /\ a'.load.id = Minted
      BY <2>1, <3>1 DEF Clients, Loads
    <3>. QED
      BY <1>2, <2>1, <2>3, <3>2, LoadWrites DEF Renewed
  <2>. QED
    BY <2>2, <2>3
<1>. QED
  BY <1>1, <1>2

(***************************************************************************)
(* A write is made, or fails; time passes; the app is launched again.      *)
(***************************************************************************)
LEMMA WriteKeeps == ASSUME KeychainInv, KeychainWrite PROVE KeychainInv'
<1>. DEFINE op == Head(queue)
<1>1. /\ queue # <<>> /\ queue \in Seq(Writes) /\ a \in Clients /\ a.load \in Loads
      /\ queue' = Tail(queue) /\ UNCHANGED stale /\ stale \subseteq Ids
  BY DEF KeychainWrite, KeychainInv, Typed, Clients
<1>2. /\ op \in Writes /\ op = queue[1] /\ Tail(queue) \in Seq(Writes)
      /\ Tail(queue) # <<>> => Tail(queue)[Len(Tail(queue))] = queue[Len(queue)]
      /\ Tail(queue) = <<>> => Len(queue) = 1
  BY <1>1, RestAfterWrite
<1>3. /\ keychain' \in {op.id, keychain}
      /\ word' \in {word, Unknown}
      /\ word' # Unknown /\ queue' = <<>> => keychain' = op.id /\ ~Crossed(a', queue')
      /\ word' # Unknown => ~Crossed(a', queue')
  BY DEF KeychainWrite
<1>4. word' # Unknown => Last' = word /\ word' = word
  BY <1>1, <1>2, <1>3 DEF KeychainInv, Last
<1>5. keychain' \in Sessions
  BY <1>2, <1>3 DEF KeychainInv, Typed, Writes
<1>. HIDE DEF op
<1>6. a' = CASE op.by = "load" -> Settle(a, a.load.id)
             [] op.by = "switch" -> SwitchSettles(a)
             [] OTHER -> a
  BY DEF KeychainWrite, Written, op
<1>7. CASE op.by = "load"
  <2>1. a' = Settle(a, a.load.id) /\ a.load.id \in Sessions
    BY <1>1, <1>6, <1>7 DEF Loads
  <2>2. CASE a.load.at # "no"
    <3>1. word' # Unknown => a.load.id = word
      BY <1>1, <1>4, <2>2 DEF KeychainInv, LoadUncrossed, Loads
    <3>. QED
      BY <1>1, <1>2, <1>3, <1>4, <1>5, <2>1, <2>2, <3>1, SettleKeeps
  <2>3. CASE a.load.at = "no"
    <3>1. a' \in Clients /\ Awaited(a') /\ a'.load.at = "no" /\ a'.session = a.session
      BY <1>1, <2>1, <2>3, SettleDoes DEF KeychainInv, Awaited
    <3>2. Typed' /\ Awaited(a)'
      BY <1>1, <1>2, <1>3, <1>5, <3>1 DEF KeychainInv, Typed, Awaited
    <3>. QED
      BY <1>4, <2>3, <3>1, <3>2 DEF KeychainInv, LoadUncrossed, SessionTold
  <2>. QED
    BY <2>2, <2>3
<1>8. CASE op.by # "load"
  <2>1. Rests(a, a')
    BY <1>1, <1>6, <1>8, SwitchRests DEF Rests
  <2>2. Typed' /\ Awaited(a)'
    BY <1>1, <1>2, <1>3, <1>5, <2>1 DEF KeychainInv, Typed, Rests, Awaited
  <2>3. ASSUME word' # Unknown PROVE Last' = word' /\ LoadUncrossed' /\ SessionTold'
    <3>1. word # Unknown /\ a.load.at = "no"
      BY <1>1, <1>2, <1>4, <1>8, <2>3 DEF KeychainInv, LoadUncrossed, Loads, op
    <3>2. a'.session \in {None, word}
      BY <2>1, <3>1 DEF KeychainInv, SessionTold, Rests
    <3>3. CASE a'.load = a.load
      BY <1>4, <2>3, <3>1, <3>2, <3>3 DEF LoadUncrossed, SessionTold
    <3>4. CASE a'.load = [a.load EXCEPT !.at = "reading"] /\ ~IsLive(a'.session)
      <4>1. a'.load.at = "reading" /\ ~a'.load.over
        BY <1>1, <3>1, <3>4 DEF KeychainInv, Awaited, Loads
      <4>2. queue' = <<>>
        BY <1>3, <2>3, <3>1, <4>1 DEF Crossed
      <4>. QED
        BY <1>1, <1>4, <2>3, <3>2, <3>4, <4>1, <4>2 DEF LoadUncrossed, SessionTold, IsLive
    <3>. QED
      BY <2>1, <3>3, <3>4 DEF Rests
  <2>. QED
    BY <2>2, <2>3 DEF KeychainInv
<1>. QED
  BY <1>7, <1>8

LEMMA RelaunchKeeps == ASSUME KeychainInv, Relaunch PROVE KeychainInv'
<1>1. /\ a' = Booted /\ queue' = <<>> /\ UNCHANGED <<keychain, stale>>
      /\ word' = IF queue = <<>> THEN word ELSE Unknown
  BY DEF Relaunch
<1>2. Typed' /\ Awaited(a)'
  BY <1>1, BootedRests DEF KeychainInv, Typed, Awaited
<1>3. ASSUME word' # Unknown PROVE Last' = word' /\ LoadUncrossed' /\ SessionTold'
  BY <1>1, <1>3, BootedRests DEF KeychainInv, Last, LoadUncrossed, SessionTold, IsLive
<1>. QED
  BY <1>2, <1>3 DEF KeychainInv

LEMMA KeychainNext == KeychainInv /\ [Next]_signInVars => KeychainInv'
<1>. SUFFICES ASSUME KeychainInv, [Next]_signInVars PROVE KeychainInv'
  OBVIOUS
<1>1. CASE \/ HandleLogin \/ HandleEmailStart \/ HandleEmailVerify \/ CodeMailed
           \/ LoginPendingOrg \/ RequestFails \/ HandleHandoff
           \/ ShowOrgSetup \/ HandleCancelOrgSetup \/ HandleCreateOrg \/ HandleSwitchOrg
  BY <1>1, AsksKeep
<1>2. CASE HandleEndpointsChange \/ HandleJoin \/ RestoreTimer \/ Online \/ SwitchRefused
  BY <1>2, RestoresKeep
<1>3. CASE LoginSession \/ HandoffRedeemed \/ OrgFounded
  BY <1>3, AdoptsKeep
<1>4. CASE HandleLogout \/ SwitchAnswered
  BY <1>4, LogoutKeeps, SwitchKeeps
<1>5. CASE KeychainRead \/ KeychainRefuses \/ Unreachable \/ Disowned \/ Renewed
  BY <1>5, ReadKeeps, UnreachableKeeps, AnsweredKeeps
<1>6. CASE KeychainWrite \/ Relaunch
  BY <1>6, WriteKeeps, RelaunchKeeps
<1>7. CASE EditEndpoints \/ Expires \/ UNCHANGED signInVars
  <2>1. /\ UNCHANGED <<a, queue, keychain, word>> /\ stale \subseteq stale' /\ stale' \subseteq Ids
    BY <1>7 DEF EditEndpoints, Expires, signInVars, KeychainInv, Typed, Clients, Sessions
  <2>2. Becomes(a') /\ Rests(a, a')
    BY <2>1 DEF Becomes, Crossed, Rests, KeychainInv, Typed
  <2>. QED
    BY <2>1, <2>2, RestsKeeps
<1>. QED
  BY <1>1, <1>2, <1>3, <1>4, <1>5, <1>6, <1>7 DEF Next

LEMMA KeychainInvCorrect == Spec => []KeychainInv
BY KeychainInit, KeychainNext, PTL DEF Spec

(* Whatever answers, writes, timers and launches cross: once the writes    *)
(* are made, the keychain holds what the user last asked for, and no       *)
(* other session is in use (the queue of auth.ts, handleSwitchOrg).        *)
THEOREM KeychainFollowsCorrect == Spec => []KeychainFollows
<1>1. KeychainInv => KeychainFollows
  BY DEF KeychainInv, Last, SessionTold, KeychainFollows
<1>. QED
  BY <1>1, KeychainInvCorrect, PTL
=============================================================================
