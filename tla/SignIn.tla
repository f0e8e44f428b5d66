------------------------------- MODULE SignIn -------------------------------
(***************************************************************************)
(* Signing in and out of the desktop client (client/src/auth.ts, main.ts   *)
(* and the sign-in block of ui.ts): the session in memory, the copy the OS *)
(* keychain keeps, its renewal at launch and on demand, the ways to get    *)
(* another one (browser, mailed code, handoff link, founding an            *)
(* organisation, switching to one), and signing out.                       *)
(*                                                                         *)
(* One thread runs every handler to its next await.  An answer, a keychain *)
(* operation or a timer may come at any time after it was asked for, and   *)
(* may fail.  An id stands for one session: its JWT, which goes stale, and *)
(* its refresh token; ids are used again once nothing holds them.          *)
(***************************************************************************)
EXTENDS Naturals, Sequences, FiniteSetsExt

CONSTANTS
  Ids,
  None,
  Unknown,
  MaxAsked,  (* bound: requests in flight at once, besides a switch        *)
  MaxQueue   (* bound: the user acts only behind this many keychain writes *)

ASSUME SignInAssumption ==
  /\ Ids \subseteq Nat /\ None \notin Ids /\ Unknown \notin Ids \union {None}
  /\ MaxAsked \in Nat /\ MaxQueue \in Nat

VARIABLES
  a,         (* the client's memory and screen                             *)
  queue,     (* keychainQueue: writes asked for and not yet made           *)
  keychain,  (* the session stored, or None                                *)
  stale,     (* the sessions whose JWT is about to expire                  *)
  usable,    (* sessionUsableWith: the servers configured are the ones     *)
             (* recorded for the session, or built in when none are        *)
  word       (* the session the user last asked for, or None; Unknown once *)
             (* a restore crossed that, or the last write failed           *)

signInVars == <<a, queue, keychain, stale, usable, word>>

Logins == {"browser", "code"}

Waiting == {"handoff", "join"}     (* what an org switch holds back        *)

(* "codeStep": the form shows the field for a mailed code.                 *)
Asks == Logins \union Waiting \union {"mail", "codeStep", "found", "switch"}

InUse ==
  {a.session, keychain, a.load.id, a.switching}
    \union {queue[i].id : i \in DOMAIN queue}

Free == Ids \ InUse

IsLive(id) == id # None /\ id \notin stale

(***************************************************************************)
(* What handlers call.  Each takes the client's memory and returns it.     *)
(***************************************************************************)
CancelRestoreRetry(v) == [v EXCEPT !.timer = FALSE]

(* setAuthSession is where the placeholder goes; the code step goes with   *)
(* the form, or when the form comes back.                                  *)
Reflect(v, session) ==
  [v EXCEPT !.session = session, !.restoring = FALSE,
            !.asked = @ \ {"codeStep"}]

StepSessionAside(v) ==
  IF v.session = None THEN CancelRestoreRetry(v)
  ELSE Reflect(CancelRestoreRetry(v), None)

(* One load at a time: a second caller awaits the first one's.             *)
LoadSession(v, caller) ==
  [v EXCEPT !.callers = @ \union {caller},
            !.load = IF @.at = "no" THEN [@ EXCEPT !.at = "reading"] ELSE @]

RestoreAuthSession(v) ==
  IF ~usable THEN StepSessionAside(v)
  ELSE IF IsLive(v.session) THEN CancelRestoreRetry(v)
  ELSE LoadSession(v, "restore")

(* What a load hands back is another object, even for the same tokens: a   *)
(* switch in flight no longer finds the session it began with.             *)
Loaded(v, session) == [Reflect(v, session) EXCEPT !.switching = None]

EffectiveTokenResumes(v, session) ==
  IF "join" \in v.callers
    THEN [Loaded(v, session) EXCEPT !.asked = @ \ {"join"}] ELSE v

(* Mutant of RestoreResumes: a timer that has fired still counts as armed. *)
RetriesOnce(v, session) ==
  IF "restore" \notin v.callers THEN v
  ELSE IF IsLive(v.session) THEN CancelRestoreRetry(v)
  ELSE [Loaded(v, session) EXCEPT !.timer = FALSE]

RestoreResumes(v, session) ==
  IF "restore" \notin v.callers THEN v
  ELSE IF IsLive(v.session) THEN CancelRestoreRetry(v)
  ELSE [Loaded(v, session) EXCEPT !.timer = session # None /\ ~IsLive(session)]

(* The load's promise settles: its callers resume, a join first (the       *)
(* restore's catch costs it a turn).                                       *)
Settle(v, session) ==
  [RestoreResumes(EffectiveTokenResumes(v, session), session)
     EXCEPT !.callers = {},
            !.load = [at |-> "no", id |-> None, over |-> FALSE]]

EffectiveToken(v) ==
  IF IsLive(v.session) THEN [v EXCEPT !.asked = @ \ {"join"}] ELSE LoadSession(v, "join")

(* orgSwitchPending settles: what waited for it goes on.                   *)
SwitchSettles(v) ==
  LET over == [v EXCEPT !.switching = None, !.asked = @ \ {"switch"}, !.waits = {}]
  IN  IF "join" \in v.waits THEN EffectiveToken(over) ELSE over

(* clearSession, up to its first await.                                    *)
Abandon(v) == [v EXCEPT !.load.over = v.load.at # "no"]

(* A write of None deletes.                                                *)
Enqueue(id, by) == queue' = Append(queue, [id |-> id, by |-> by])

(* The user's word is final unless a restore is under way across it.       *)
Says(session) == word' = IF a.load.at = "no" THEN session ELSE Unknown

AdoptSession(v, id) ==
  /\ a' = [Reflect(CancelRestoreRetry(v), id) EXCEPT !.setup = "no"]
  /\ usable' = TRUE
  /\ Enqueue(id, "user")
  /\ Says(id)

(* The script has run: the placeholder is up and a restore under way.      *)
Booted ==
  RestoreAuthSession(
    [session |-> None, timer |-> FALSE, restoring |-> TRUE, setup |-> "no",
     asked |-> {}, waits |-> {}, switching |-> None, callers |-> {},
     load |-> [at |-> "no", id |-> None, over |-> FALSE]])

(* The first launch: nothing stored, the built-in servers configured.      *)
Init ==
  /\ usable = TRUE
  /\ a = Booted
  /\ queue = <<>> /\ keychain = None /\ stale = {}
  /\ word = None

(* A restore that begins before the writes are made reads what is to go.   *)
Crossed(v, writes) == a.load.at = "no" /\ v.load.at # "no" /\ writes # <<>>

Becomes(v) == a' = v /\ word' = IF Crossed(v, queue) THEN Unknown ELSE word

Memory(v) == Becomes(v) /\ UNCHANGED <<queue, keychain, stale, usable>>

Room == Len(queue) < MaxQueue

Ask(what) ==
  what \notin a.asked /\ Cardinality(a.asked \ {"codeStep", "switch", what}) < MaxAsked

(* The server answers with a new session.                                  *)
Minted == Min(Free)

Mints == Free # {} /\ stale' = stale \ {Minted} /\ UNCHANGED keychain

(***************************************************************************)
(* The user.                                                               *)
(***************************************************************************)
FormShown == a.session = None /\ ~a.restoring /\ a.setup = "no"

HandleLogin ==
  /\ FormShown /\ Ask("browser")
  /\ Memory([a EXCEPT !.asked = @ \union {"browser"}])

HandleEmailStart ==
  /\ FormShown /\ Ask("mail")
  /\ Memory([a EXCEPT !.asked = @ \union {"mail"}])

HandleEmailVerify ==
  /\ FormShown /\ "codeStep" \in a.asked /\ Ask("code")
  /\ Memory([a EXCEPT !.asked = @ \union {"code"}])

CodeMailed ==
  /\ "mail" \in a.asked
  /\ \E step \in SUBSET {"codeStep"} :
       Memory([a EXCEPT !.asked = (@ \ {"mail"}) \union IF a.session = None THEN step ELSE {}])

(* The finally of handleLogin, and showEmailStep after a verified code.    *)
Answered(v, what) ==
  [v EXCEPT !.asked = @ \ ({what} \union IF what = "code" THEN {"codeStep"} ELSE {})]

LoginSession ==
  \E what \in Logins \intersect a.asked :
    Room /\ Mints /\ AdoptSession(Answered(a, what), Minted)

LoginPendingOrg ==
  \E what \in Logins \intersect a.asked :
    Memory([Answered(a, what) EXCEPT !.setup = "first"])

RequestFails ==
  \E what \in (Logins \union {"found", "handoff"}) \intersect (a.asked \ a.waits) :
    Memory([a EXCEPT !.asked = @ \ {what}])

(* The invite page's link opens the app, or reaches it while it runs.      *)
HandleHandoff ==
  /\ Ask("handoff")
  /\ Memory([a EXCEPT !.asked = @ \union {"handoff"},
                      !.waits = IF "switch" \in a.asked THEN @ \union {"handoff"} ELSE @])

HandoffRedeemed ==
  /\ "handoff" \in a.asked \ a.waits
  /\ Room /\ Mints /\ AdoptSession(Answered(a, "handoff"), Minted)

ShowOrgSetup ==
  /\ a.session # None /\ a.setup = "no"
  /\ Memory([a EXCEPT !.setup = "another"])

(* The provisional token lives as long as its step is on screen.  Back is  *)
(* frozen while the request is in flight.                                  *)
HandleCancelOrgSetup ==
  /\ a.setup # "no" /\ "found" \notin a.asked
  /\ Memory([a EXCEPT !.setup = "no"])

HandleCreateOrg ==
  /\ a.setup # "no" /\ Ask("found")
  /\ Memory(IF a.setup = "first" \/ a.session # None
              THEN [a EXCEPT !.asked = @ \union {"found"}] ELSE [a EXCEPT !.setup = "no"])

OrgFounded ==
  /\ "found" \in a.asked
  /\ Room /\ Mints /\ AdoptSession(Answered(a, "found"), Minted)

HandleLogout ==
  /\ a.session # None /\ Room
  /\ a' = Reflect(Abandon(CancelRestoreRetry(a)), None)
  /\ usable' \in BOOLEAN
  /\ Enqueue(None, "user")
  /\ Says(None)
  /\ UNCHANGED <<keychain, stale>>

EditEndpoints ==
  /\ usable' = ~usable
  /\ UNCHANGED <<a, queue, keychain, stale, word>>

(* The dialog closes.                                                      *)
HandleEndpointsChange ==
  \/ ~usable /\ Memory(StepSessionAside(a))
  \/ usable /\ a.session = None /\ Memory(RestoreAuthSession(a))

(* An attempt to connect, or a TURN renewal, asks for the token to send.   *)
HandleJoin ==
  /\ usable /\ Ask("join")
  /\ LET asks == [a EXCEPT !.asked = @ \union {"join"}]
     IN  Memory(IF "switch" \in a.asked THEN [asks EXCEPT !.waits = @ \union {"join"}]
                ELSE EffectiveToken(asks))

(***************************************************************************)
(* Switching organisations.                                                *)
(***************************************************************************)
HandleSwitchOrg ==
  /\ a.session # None /\ "switch" \notin a.asked
  /\ Memory([a EXCEPT !.asked = @ \union {"switch"}, !.switching = a.session])

SwitchAsking ==
  "switch" \in a.asked /\ \A i \in DOMAIN queue : queue[i].by # "switch"

(* Mutant of SwitchAnswered: the answer is adopted whatever came between.  *)
SwitchAdopted ==
  /\ SwitchAsking /\ Mints /\ Room
  /\ a' = Reflect(CancelRestoreRetry(a), Minted)
  /\ Enqueue(Minted, "switch")
  /\ UNCHANGED <<usable, word>>

(* Any other change of the session owns the state now.                     *)
SwitchAnswered ==
  /\ SwitchAsking /\ Mints
  /\ IF a.session # a.switching \/ a.session = None
       THEN /\ Becomes(SwitchSettles(a))
            /\ UNCHANGED <<queue, usable>>
       ELSE /\ Room
            /\ a' = Reflect(CancelRestoreRetry(a), Minted)
            /\ Enqueue(Minted, "switch")
            /\ Says(Minted)
            /\ UNCHANGED usable

SwitchRefused == SwitchAsking /\ Memory(SwitchSettles(a))

(***************************************************************************)
(* Restoring a session.                                                    *)
(***************************************************************************)
RestoreTimer == a.timer /\ Memory(RestoreAuthSession(CancelRestoreRetry(a)))

Online == ~IsLive(a.session) /\ Memory(RestoreAuthSession(CancelRestoreRetry(a)))

KeychainRead ==
  /\ a.load.at = "reading"
  /\ Memory(IF a.load.over \/ keychain = None THEN Settle(a, None)
            ELSE IF IsLive(keychain) THEN Settle(a, keychain)
            ELSE [a EXCEPT !.load.at = "asking", !.load.id = keychain])

KeychainRefuses == a.load.at = "reading" /\ Memory(Settle(a, None))

Unreachable == a.load.at = "asking" /\ Memory(Settle(a, a.load.id))

Disowned ==
  /\ a.load.at = "asking"
  /\ a' = [Abandon(a) EXCEPT !.load.at = "clearing", !.load.id = None]
  /\ Enqueue(None, "load")
  /\ word' = IF word = a.load.id THEN None ELSE word
  /\ UNCHANGED <<keychain, stale, usable>>

Renewed ==
  /\ a.load.at = "asking" /\ Mints
  /\ IF a.load.over
       THEN a' = Settle(a, None) /\ UNCHANGED <<queue, word>>
       ELSE /\ a' = [a EXCEPT !.load.at = "saving", !.load.id = Minted]
            /\ Enqueue(Minted, "load")
            /\ word' = IF word = a.load.id THEN Minted ELSE word
  /\ UNCHANGED usable

(***************************************************************************)
(* The keychain's writes, one at a time in call order.                     *)
(***************************************************************************)
Written(op) ==
  CASE op.by = "load"   -> Settle(a, a.load.id)
    [] op.by = "switch" -> SwitchSettles(a)
    [] OTHER            -> a

KeychainWrite ==
  /\ queue # <<>>
  /\ queue' = Tail(queue)
  /\ a' = Written(Head(queue))
  /\ \E done \in BOOLEAN :
       /\ keychain' = IF done THEN Head(queue).id ELSE keychain
       /\ word' = IF Crossed(a', queue') \/ (~done /\ queue' = <<>>) THEN Unknown ELSE word
  /\ UNCHANGED <<stale, usable>>

(***************************************************************************)
(* Time, and the next launch.                                              *)
(***************************************************************************)
Expires ==
  \E id \in {a.session, keychain} \ ({None} \union stale) :
    /\ stale' = stale \union {id}
    /\ UNCHANGED <<a, queue, keychain, usable, word>>

(* The app quits and is launched again; writes not yet made are lost, and  *)
(* the servers configured were saved, as joining or signing in does.       *)
Relaunch ==
  /\ a' = Booted
  /\ queue' = <<>>
  /\ word' = IF queue = <<>> THEN word ELSE Unknown
  /\ UNCHANGED <<keychain, stale, usable>>

Next ==
  \/ HandleLogin \/ HandleEmailStart \/ HandleEmailVerify \/ CodeMailed
  \/ LoginSession \/ LoginPendingOrg \/ RequestFails
  \/ HandleHandoff \/ HandoffRedeemed
  \/ ShowOrgSetup \/ HandleCancelOrgSetup \/ HandleCreateOrg \/ OrgFounded
  \/ HandleLogout \/ HandleJoin
  \/ EditEndpoints
  \/ HandleEndpointsChange
  \/ HandleSwitchOrg \/ SwitchAnswered \/ SwitchRefused
  \/ RestoreTimer \/ Online
  \/ KeychainRead \/ KeychainRefuses \/ Unreachable \/ Disowned \/ Renewed
  \/ KeychainWrite \/ Expires \/ Relaunch

(* The keychain and the network answer in the end, and a server that is    *)
(* asked for the same renewal again and again renews it once.              *)
Fairness ==
  /\ WF_signInVars(KeychainRead \/ KeychainRefuses)
  /\ WF_signInVars(KeychainWrite)
  /\ WF_signInVars(SwitchRefused \/ SwitchAnswered)
  /\ WF_signInVars(RestoreTimer)
  /\ WF_signInVars(Unreachable \/ Disowned \/ Renewed)
  /\ SF_signInVars(Renewed)

Spec == Init /\ [][Next]_signInVars /\ Fairness

(***************************************************************************)
(* Properties.                                                             *)
(***************************************************************************)
(* Once the writes are made, the keychain holds what the user last asked   *)
(* for, which is what the client uses, unless a restore was under way or a *)
(* write failed: a late answer, an org switch or an earlier write neither  *)
(* signs out a user who signed in nor signs in one who signed out (the     *)
(* queue of auth.ts, the checks of handleSwitchOrg).                       *)
KeychainFollows ==
  (queue = <<>> /\ a.load.at = "no" /\ word # Unknown)
    => keychain = word /\ a.session \in {None, word}

(* A stale session the client tries to restore is renewed or given up in   *)
(* the end, however often the server is out of reach; and a connection     *)
(* never waits for its token for ever: not on a load, nor on an org switch *)
(* that waits for the keychain, nor on one after the other.                *)
RenewsOrGivesUp ==
  /\ (a.timer \/ "restore" \in a.callers) ~> (a.session = None \/ IsLive(a.session))
  /\ ("join" \in a.asked) ~> ("join" \notin a.asked)
=============================================================================
