------------------------------ MODULE Paging -------------------------------
(***************************************************************************)
(* Cross-space 1:1 paging: the ring and page state of members and the ring *)
(* timers, as page, page_accept, page_end, page_timeout and leave of       *)
(* server/src/state.rs write them.  Every action is one critical section   *)
(* of the org's mutex.                                                     *)
(*                                                                         *)
(* A ring is stored at both ends (the caller's ringing_out, the callee's   *)
(* ringing_in), a live page at both ends (paging), and each ring placed    *)
(* starts a task that sleeps 25 s and then calls page_timeout.  Nothing    *)
(* ever stops that task.                                                   *)
(***************************************************************************)
EXTENDS Naturals

CONSTANTS
  MaxConnections,  (* joins explored                                       *)
  MaxRings         (* rings explored                                       *)

ASSUME PagingAssumption == MaxConnections \in Nat /\ MaxRings \in Nat

Members == 1 .. MaxConnections

Timers == [from : Members, to : Members, no : 1 .. MaxRings]

VARIABLES
  freeIds,     (* ids whose connection has not joined yet                  *)
  online,      (* keys of OrgInner::members                                *)
  dnd,         (* members' do-not-disturb flag                             *)
  paging,      (* [member -> peers it has a live page with]                *)
  ringingOut,  (* [member -> peers it rings]                               *)
  ringingIn,   (* [member -> peers ringing it]                             *)
  timers,      (* sleeping page_timeout tasks                              *)
  rings,       (* rings placed so far                                      *)
  ringNo       (* history: [caller -> [callee -> its latest ring's number]]*)

pagingVars == <<freeIds, online, dnd, paging, ringingOut, ringingIn, timers, rings, ringNo>>

Nobody == [m \in Members |-> {}]

Init ==
  /\ freeIds = Members
  /\ online = {}
  /\ dnd = [m \in Members |-> FALSE]
  /\ paging = Nobody /\ ringingOut = Nobody /\ ringingIn = Nobody
  /\ timers = {}
  /\ rings = 0
  /\ ringNo = [a \in Members |-> [b \in Members |-> 0]]

(* The atomic counter hands out each id once, before the lock is taken, so *)
(* the ids join in any order.  The first is a mutant: it does not advance. *)
SameId(m) == m \in freeIds /\ UNCHANGED freeIds

FreshId(m) == m \in freeIds /\ freeIds' = freeIds \ {m}

Join(m) ==
  /\ FreshId(m)
  /\ online' = online \union {m}
  /\ dnd' = [dnd EXCEPT ![m] = FALSE]
  /\ UNCHANGED <<paging, ringingOut, ringingIn, timers, rings, ringNo>>

(* Org::leave: the record goes, and with it what its own sets list at the  *)
(* other ends.                                                             *)
ForgetOwn(sets, m, named) == [sets EXCEPT ![m] = {}]  (* mutant *)

Forget(sets, m, named) ==
  [p \in Members |-> IF p = m THEN {} ELSE IF p \in named THEN sets[p] \ {m} ELSE sets[p]]

Leave(m) ==
  /\ m \in online
  /\ online' = online \ {m}
  /\ dnd' = [dnd EXCEPT ![m] = FALSE]
  /\ paging' = Forget(paging, m, paging[m])
  /\ ringingIn' = Forget(ringingIn, m, ringingOut[m])
  /\ ringingOut' = Forget(ringingOut, m, ringingIn[m])
  /\ UNCHANGED <<freeIds, timers, rings, ringNo>>

SetDnd(m, on) ==
  /\ m \in online
  /\ dnd' = [dnd EXCEPT ![m] = on]
  /\ UNCHANGED <<freeIds, online, paging, ringingOut, ringingIn, timers, rings, ringNo>>

Reachable(from, to) == from # to /\ to \in online

Already(from, to) == to \in paging[from] \union ringingOut[from] \union ringingIn[from]

(* The outcome of Org::page, its checks in the order the code makes them.  *)
(* "again" is the idempotent success that sends nothing.                   *)
PageOutcome(from, to) ==
  IF ~Reachable(from, to) THEN "offline"
  ELSE IF dnd[to] THEN "dnd"
  ELSE IF paging[to] # {} THEN "busy"
  ELSE IF from \notin online THEN "offline"
  ELSE IF Already(from, to) THEN "again"
  ELSE "ringing"

(* Org::page placing a ring and its timer.                                 *)
Page(from, to) ==
  /\ rings < MaxRings
  /\ PageOutcome(from, to) = "ringing"
  /\ ringingOut' = [ringingOut EXCEPT ![from] = @ \union {to}]
  /\ ringingIn' = [ringingIn EXCEPT ![to] = @ \union {from}]
  /\ rings' = rings + 1
  /\ ringNo' = [ringNo EXCEPT ![from][to] = rings + 1]
  /\ timers' = timers \union {[from |-> from, to |-> to, no |-> rings + 1]}
  /\ UNCHANGED <<freeIds, online, dnd, paging>>

(* Mutants: the two ids swapped; any two members will do.                  *)
PendingSwapped(caller, callee) ==
  caller \in ringingOut[callee] /\ callee \in ringingIn[caller]

PendingOnline(caller, callee) == {caller, callee} \subseteq online /\ caller # callee

Pending(caller, callee) ==
  /\ callee \in ringingOut[caller]
  /\ caller \in ringingIn[callee]

(* Org::page_accept.                                                       *)
PageAccept(accepter, caller) ==
  /\ Pending(caller, accepter)
  /\ ringingIn' = [ringingIn EXCEPT ![accepter] = @ \ {caller}, ![caller] = @ \ {accepter}]
  /\ ringingOut' = [ringingOut EXCEPT ![accepter] = @ \ {caller}, ![caller] = @ \ {accepter}]
  /\ paging' = [paging EXCEPT ![accepter] = @ \union {caller}, ![caller] = @ \union {accepter}]
  /\ UNCHANGED <<freeIds, online, dnd, timers, rings, ringNo>>

(* Org::page_end: the first of its three cases that applies.               *)
HangUp(from, to) ==
  /\ to \in paging[from]
  /\ paging' = [paging EXCEPT ![from] = @ \ {to}, ![to] = @ \ {from}]
  /\ UNCHANGED <<freeIds, online, dnd, ringingOut, ringingIn, timers, rings, ringNo>>

Cancel(from, to) ==
  /\ to \notin paging[from]
  /\ to \in ringingOut[from]
  /\ ringingOut' = [ringingOut EXCEPT ![from] = @ \ {to}]
  /\ ringingIn' = [ringingIn EXCEPT ![to] = @ \ {from}]
  /\ UNCHANGED <<freeIds, online, dnd, paging, timers, rings, ringNo>>

Decline(from, to) ==
  /\ to \notin paging[from] \union ringingOut[from]
  /\ to \in ringingIn[from]
  /\ ringingIn' = [ringingIn EXCEPT ![from] = @ \ {to}]
  /\ ringingOut' = [ringingOut EXCEPT ![to] = @ \ {from}]
  /\ UNCHANGED <<freeIds, online, dnd, paging, timers, rings, ringNo>>

(* A sleeping task wakes: Org::page_timeout ends whatever ring the pair    *)
(* has by then.                                                            *)
PageTimeout(t) ==
  /\ t \in timers
  /\ timers' = timers \ {t}
  /\ IF Pending(t.from, t.to)
       THEN /\ ringingOut' = [ringingOut EXCEPT ![t.from] = @ \ {t.to}]
            /\ ringingIn' = [ringingIn EXCEPT ![t.to] = @ \ {t.from}]
       ELSE UNCHANGED <<ringingOut, ringingIn>>
  /\ UNCHANGED <<freeIds, online, dnd, paging, rings, ringNo>>

Next ==
  \/ \E m \in Members : Join(m)
  \/ \E m \in Members : Leave(m)
  \/ \E m \in Members, on \in BOOLEAN : SetDnd(m, on)
  \/ \E a, b \in Members : Page(a, b)
  \/ \E a, b \in Members : PageAccept(a, b)
  \/ \E a, b \in Members : HangUp(a, b)
  \/ \E a, b \in Members : Cancel(a, b)
  \/ \E a, b \in Members : Decline(a, b)
  \/ \E t \in Timers : PageTimeout(t)

SafetySpec == Init /\ [][Next]_pagingVars

(* tokio wakes every sleeping task; people need never do anything.         *)
Fairness == \A t \in Timers : WF_pagingVars(PageTimeout(t))

Spec == SafetySpec /\ Fairness

(***************************************************************************)
(* Properties.                                                             *)
(***************************************************************************)
(* Every variable has the shape its declaration says, and whoever is       *)
(* online holds an id the counter will not hand out again.                 *)
TypeOK ==
  /\ freeIds \subseteq Members
  /\ online \subseteq Members \ freeIds
  /\ dnd \in [Members -> BOOLEAN]
  /\ paging \in [Members -> SUBSET Members]
  /\ ringingOut \in [Members -> SUBSET Members]
  /\ ringingIn \in [Members -> SUBSET Members]
  /\ timers \subseteq Timers
  /\ rings \in 0 .. MaxRings
  /\ ringNo \in [Members -> [Members -> 0 .. MaxRings]]

(* The two ends of a ring always agree on it, and the two ends of a page.  *)
(* Each operation writes the ends separately and reads only one of them    *)
(* before it acts, so a half-cleared ring would keep its callee's screen   *)
(* ringing, or its caller "busy", until someone disconnects.               *)
EndsAgree ==
  \A a, b \in Members :
    /\ b \in ringingOut[a] <=> a \in ringingIn[b]
    /\ b \in paging[a] <=> a \in paging[b]

(* A pair is in one thing at a time: not ringing both ways, not ringing    *)
(* while in a call, and nobody rings or pages themselves.                  *)
OneThingAtATime ==
  \A a, b \in Members :
    /\ b \in ringingOut[a] => a # b /\ a \notin ringingOut[b] /\ b \notin paging[a]
    /\ b \in paging[a] => a # b

(* Leaving takes every ring and page with it: nobody is left ringing, or   *)
(* in a call with, someone who is gone.                                    *)
OnlyWithOnline ==
  \A a, b \in Members :
    b \in paging[a] \union ringingOut[a] \union ringingIn[a] => a \in online /\ b \in online

(* No ring without the task that ends it.                                  *)
RingHasTimer ==
  \A a, b \in Members :
    b \in ringingOut[a] => [from |-> a, to |-> b, no |-> ringNo[a][b]] \in timers

(* Rings and calls are one story, whichever end tells it.                  *)
RingsSound ==
  /\ EndsAgree
  /\ OneThingAtATime
  /\ OnlyWithOnline
  /\ RingHasTimer

(* PROTOCOL.md: "If they do neither within ~25s the server auto-declines": *)
(* no ring rings for good, even if neither side does anything.             *)
RingsEnd == \A a, b \in Members : b \in ringingOut[a] ~> b \notin ringingOut[a]

(* The rings and calls of this state, as module Calls sees them.           *)
Abstract ==
  INSTANCE Calls WITH
    Persons <- Members,
    ringing <- {r \in Members \X Members : r[2] \in ringingOut[r[1]]},
    live <- {c \in SUBSET Members : \E a, b \in Members : c = {a, b} /\ b \in paging[a]}

(* The server's bookkeeping keeps what paging promises: consent before     *)
(* every call, one ring or call per pair, nobody ends others' calls.       *)
KeepsThePromise == Abstract!Spec
=============================================================================
