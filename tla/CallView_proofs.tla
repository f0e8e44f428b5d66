-------------------------- MODULE CallView_proofs --------------------------
(***************************************************************************)
(* Proofs about modules Paging and CallView, for any number of members,    *)
(* rings and messages on their way: first the server alone, then what is   *)
(* on a client's screen of the rings and calls the server holds for it,    *)
(* through every crossing of the two.                                      *)
(***************************************************************************)
EXTENDS CallView, SequenceTheorems, FiniteSetTheorems, FunctionTheorems, TLAPS

(***************************************************************************)
(* Paging: the rings, calls and timers of the server.                      *)
(***************************************************************************)
(* What the sets of both ends say about each other: inductive together.    *)
PageInv == TypeOK /\ EndsAgree /\ OneThingAtATime /\ OnlyWithOnline /\ RingHasTimer

LEMMA PageInvInit == Init => PageInv
<1> SUFFICES ASSUME Init PROVE PageInv
  OBVIOUS
<1>1. TypeOK
  BY PagingAssumption DEF Init, TypeOK, Nobody, PagingAssumption
<1>2. QED
  BY <1>1 DEF Init, Nobody, PageInv, EndsAgree, OneThingAtATime, OnlyWithOnline, RingHasTimer

(* What a ring placed by Org::page takes for granted.                      *)
LEMMA RingOutcome ==
  ASSUME NEW a, NEW b, PageOutcome(a, b) = "ringing"
  PROVE  /\ a # b /\ a \in online /\ b \in online
         /\ paging[b] = {}
         /\ b \notin paging[a] /\ b \notin ringingOut[a] /\ b \notin ringingIn[a]
  BY DEF PageOutcome, Reachable, Already

(* The sets after one member forgot another and was forgotten.             *)
LEMMA ForgetType ==
  ASSUME NEW sets \in [Members -> SUBSET Members], NEW m \in Members, NEW named
  PROVE  Forget(sets, m, named) \in [Members -> SUBSET Members]
  BY DEF Forget

LEMMA TypeStep == TypeOK /\ [Next]_pagingVars => TypeOK'
<1> SUFFICES ASSUME TypeOK, [Next]_pagingVars PROVE TypeOK'
  OBVIOUS
<1> USE PagingAssumption DEF TypeOK, PagingAssumption
<1>1. ASSUME NEW m \in Members, Join(m)
      PROVE  TypeOK'
  BY <1>1 DEF Join, FreshId
<1>2. ASSUME NEW m \in Members, Leave(m)
      PROVE  TypeOK'
  BY <1>2, ForgetType DEF Leave
<1>3. ASSUME NEW m \in Members, NEW on \in BOOLEAN, SetDnd(m, on)
      PROVE  TypeOK'
  BY <1>3 DEF SetDnd
<1>4. ASSUME NEW a \in Members, NEW b \in Members, Page(a, b)
      PROVE  TypeOK'
  <2>1. rings' \in 0 .. MaxRings /\ rings + 1 \in 1 .. MaxRings
    BY <1>4 DEF Page
  <2>2. timers' \subseteq Timers
    BY <1>4, <2>1 DEF Page, Timers
  <2>3. ringNo' \in [Members -> [Members -> 0 .. MaxRings]]
    <3>1. ringNo[a] \in [Members -> 0 .. MaxRings]
      OBVIOUS
    <3>2. [ringNo[a] EXCEPT ![b] = rings + 1] \in [Members -> 0 .. MaxRings]
      BY <2>1, <3>1
    <3>3. QED
      BY <1>4, <3>2 DEF Page
  <2>4. ringingOut' \in [Members -> SUBSET Members] /\ ringingIn' \in [Members -> SUBSET Members]
    BY <1>4 DEF Page
  <2>5. QED
    BY <1>4, <2>1, <2>2, <2>3, <2>4 DEF Page
<1>5. ASSUME NEW a \in Members, NEW b \in Members, PageAccept(a, b)
      PROVE  TypeOK'
  BY <1>5 DEF PageAccept
<1>6. ASSUME NEW a \in Members, NEW b \in Members, HangUp(a, b)
      PROVE  TypeOK'
  BY <1>6 DEF HangUp
<1>7. ASSUME NEW a \in Members, NEW b \in Members, Cancel(a, b)
      PROVE  TypeOK'
  BY <1>7 DEF Cancel
<1>8. ASSUME NEW a \in Members, NEW b \in Members, Decline(a, b)
      PROVE  TypeOK'
  BY <1>8 DEF Decline
<1>9. ASSUME NEW t \in Timers, PageTimeout(t)
      PROVE  TypeOK'
  <2>1. t.from \in Members /\ t.to \in Members
    BY DEF Timers
  <2>2. ringingOut' \in [Members -> SUBSET Members] /\ ringingIn' \in [Members -> SUBSET Members]
    <3>1. CASE Pending(t.from, t.to)
      <4>1. /\ ringingOut' = [ringingOut EXCEPT ![t.from] = @ \ {t.to}]
            /\ ringingIn' = [ringingIn EXCEPT ![t.to] = @ \ {t.from}]
        BY <1>9, <3>1 DEF PageTimeout
      <4>2. QED
        BY <2>1, <4>1
    <3>2. CASE ~Pending(t.from, t.to)
      BY <1>9, <3>2 DEF PageTimeout
    <3>3. QED
      BY <3>1, <3>2
  <2>3. timers' \subseteq Timers
    BY <1>9 DEF PageTimeout
  <2>4. QED
    BY <1>9, <2>2, <2>3 DEF PageTimeout
<1>10. CASE UNCHANGED pagingVars
  BY <1>10 DEF pagingVars
<1>11. QED
  BY <1>1, <1>2, <1>3, <1>4, <1>5, <1>6, <1>7, <1>8, <1>9, <1>10 DEF Next

(* Whatever clears the ring of one pair at both ends, and nothing else,    *)
(* keeps the invariant: cancelling, declining, an elapsed timer.           *)
LEMMA ClearRing ==
  ASSUME PageInv, NEW a \in Members, NEW b \in Members,
         TypeOK',
         ringingOut' = [ringingOut EXCEPT ![a] = @ \ {b}],
         ringingIn' = [ringingIn EXCEPT ![b] = @ \ {a}],
         UNCHANGED <<online, paging, ringNo>>,
         timers \subseteq timers' \union {t \in Timers : t.from = a /\ t.to = b}
  PROVE  PageInv'
<1> USE DEF PageInv, TypeOK
<1>1. \A x, y \in Members :
        /\ y \in ringingOut'[x] <=> y \in ringingOut[x] /\ <<x, y>> # <<a, b>>
        /\ x \in ringingIn'[y] <=> x \in ringingIn[y] /\ <<x, y>> # <<a, b>>
  OBVIOUS
<1>2. EndsAgree'
  BY <1>1 DEF EndsAgree
<1>3. OneThingAtATime'
  BY <1>1 DEF OneThingAtATime
<1>4. OnlyWithOnline'
  BY <1>1 DEF OnlyWithOnline
<1>5. RingHasTimer'
  <2> SUFFICES ASSUME NEW x \in Members, NEW y \in Members, y \in ringingOut'[x]
               PROVE  [from |-> x, to |-> y, no |-> ringNo'[x][y]] \in timers'
    BY DEF RingHasTimer
  <2>1. [from |-> x, to |-> y, no |-> ringNo[x][y]] \in timers
    BY <1>1 DEF RingHasTimer
  <2>2. ~(x = a /\ y = b)
    BY <1>1
  <2>3. QED
    BY <2>1, <2>2
<1>6. QED
  BY <1>2, <1>3, <1>4, <1>5

LEMMA PageInvStep == PageInv /\ [Next]_pagingVars => PageInv'
<1> SUFFICES ASSUME PageInv, [Next]_pagingVars PROVE PageInv'
  OBVIOUS
<1> USE DEF PageInv
<1>0. TypeOK'
  BY TypeStep
<1>1. ASSUME NEW m \in Members, Join(m)
      PROVE  PageInv'
  BY <1>0, <1>1 DEF Join, FreshId, EndsAgree, OneThingAtATime, OnlyWithOnline, RingHasTimer
<1>2. ASSUME NEW m \in Members, Leave(m)
      PROVE  PageInv'
  <2>1. \A x, y \in Members :
          /\ y \in ringingOut'[x] <=> y \in ringingOut[x] /\ x # m /\ y # m
          /\ x \in ringingIn'[y] <=> x \in ringingIn[y] /\ x # m /\ y # m
          /\ y \in paging'[x] <=> y \in paging[x] /\ x # m /\ y # m
    BY <1>2 DEF Leave, Forget, TypeOK, EndsAgree
  <2>2. EndsAgree'
    BY <2>1 DEF EndsAgree
  <2>3. OneThingAtATime'
    BY <2>1 DEF OneThingAtATime
  <2>4. OnlyWithOnline'
    BY <1>2, <2>1 DEF OnlyWithOnline, Leave
  <2>5. RingHasTimer'
    BY <1>2, <2>1 DEF RingHasTimer, Leave
  <2>6. QED
    BY <1>0, <2>2, <2>3, <2>4, <2>5
<1>3. ASSUME NEW m \in Members, NEW on \in BOOLEAN, SetDnd(m, on)
      PROVE  PageInv'
  BY <1>0, <1>3 DEF SetDnd, EndsAgree, OneThingAtATime, OnlyWithOnline, RingHasTimer
<1>4. ASSUME NEW a \in Members, NEW b \in Members, Page(a, b)
      PROVE  PageInv'
  <2>1. \A x, y \in Members :
          /\ y \in ringingOut'[x] <=> y \in ringingOut[x] \/ <<x, y>> = <<a, b>>
          /\ x \in ringingIn'[y] <=> x \in ringingIn[y] \/ <<x, y>> = <<a, b>>
          /\ paging'[x] = paging[x]
    BY <1>4 DEF Page, TypeOK
  <2>2. EndsAgree'
    BY <2>1 DEF EndsAgree
  <2>3. OneThingAtATime'
    BY <1>4, <2>1, RingOutcome DEF OneThingAtATime, Page, EndsAgree
  <2>4. OnlyWithOnline'
    BY <1>4, <2>1, RingOutcome DEF OnlyWithOnline, Page
  <2>5. RingHasTimer'
    <3> SUFFICES ASSUME NEW x \in Members, NEW y \in Members, y \in ringingOut'[x]
                 PROVE  [from |-> x, to |-> y, no |-> ringNo'[x][y]] \in timers'
      BY DEF RingHasTimer
    <3>1. CASE x = a /\ y = b
      BY <1>4, <3>1 DEF Page, TypeOK
    <3>2. CASE ~(x = a /\ y = b)
      <4>1. ringNo'[x][y] = ringNo[x][y]
        BY <1>4, <3>2 DEF Page, TypeOK
      <4>2. QED
        BY <1>4, <2>1, <3>2, <4>1 DEF Page, RingHasTimer
    <3>3. QED
      BY <3>1, <3>2
  <2>6. QED
    BY <1>0, <2>2, <2>3, <2>4, <2>5
<1>5. ASSUME NEW b \in Members, NEW a \in Members, PageAccept(b, a)
      PROVE  PageInv'
  <2>1. \A x, y \in Members :
          /\ y \in ringingOut'[x] <=> y \in ringingOut[x] /\ <<x, y>> # <<a, b>>
          /\ x \in ringingIn'[y] <=> x \in ringingIn[y] /\ <<x, y>> # <<a, b>>
          /\ y \in paging'[x] <=> y \in paging[x] \/ <<x, y>> = <<a, b>> \/ <<x, y>> = <<b, a>>
    BY <1>5 DEF PageAccept, Pending, TypeOK, OneThingAtATime, EndsAgree
  <2>2. EndsAgree'
    BY <2>1 DEF EndsAgree
  <2>3. OneThingAtATime'
    BY <1>5, <2>1 DEF OneThingAtATime, PageAccept, Pending
  <2>4. OnlyWithOnline'
    BY <1>5, <2>1 DEF OnlyWithOnline, PageAccept, Pending
  <2>5. RingHasTimer'
    BY <1>5, <2>1 DEF RingHasTimer, PageAccept
  <2>6. QED
    BY <1>0, <2>2, <2>3, <2>4, <2>5
<1>6. ASSUME NEW a \in Members, NEW b \in Members, HangUp(a, b)
      PROVE  PageInv'
  <2>1. \A x, y \in Members :
          y \in paging'[x] <=> y \in paging[x] /\ <<x, y>> # <<a, b>> /\ <<x, y>> # <<b, a>>
    BY <1>6 DEF HangUp, TypeOK, OneThingAtATime
  <2>2. QED
    BY <1>0, <1>6, <2>1
       DEF HangUp, EndsAgree, OneThingAtATime, OnlyWithOnline, RingHasTimer
<1>7. ASSUME NEW a \in Members, NEW b \in Members, Cancel(a, b)
      PROVE  PageInv'
  BY <1>0, <1>7, ClearRing DEF Cancel
<1>8. ASSUME NEW b \in Members, NEW a \in Members, Decline(b, a)
      PROVE  PageInv'
  BY <1>0, <1>8, ClearRing DEF Decline
<1>9. ASSUME NEW t \in Timers, PageTimeout(t)
      PROVE  PageInv'
  <2>1. t.from \in Members /\ t.to \in Members
    BY DEF Timers
  <2>2. timers \subseteq timers' \union {u \in Timers : u.from = t.from /\ u.to = t.to}
    BY <1>9 DEF PageTimeout
  <2>3. CASE Pending(t.from, t.to)
    BY <1>0, <1>9, <2>1, <2>2, <2>3, ClearRing DEF PageTimeout
  <2>4. CASE ~Pending(t.from, t.to)
    <3>1. t.to \notin ringingOut[t.from]
      BY <2>1, <2>4 DEF Pending, EndsAgree
    <3>2. RingHasTimer'
      BY <1>9, <2>1, <2>4, <3>1 DEF PageTimeout, RingHasTimer
    <3>3. EndsAgree' /\ OneThingAtATime' /\ OnlyWithOnline'
      BY <1>9, <2>4 DEF PageTimeout, EndsAgree, OneThingAtATime, OnlyWithOnline
    <3>4. QED
      BY <1>0, <3>2, <3>3
  <2>5. QED
    BY <2>3, <2>4
<1>10. CASE UNCHANGED pagingVars
  BY <1>0, <1>10 DEF pagingVars, EndsAgree, OneThingAtATime, OnlyWithOnline, RingHasTimer
<1>11. QED
  BY <1>1, <1>2, <1>3, <1>4, <1>5, <1>6, <1>7, <1>8, <1>9, <1>10 DEF Next

THEOREM PageInvCorrect == SafetySpec => []PageInv
  BY PageInvInit, PageInvStep, PTL DEF SafetySpec

(* Every behaviour keeps the state well typed.                             *)
THEOREM PagingTypeCorrect == SafetySpec => []TypeOK
  BY PageInvCorrect, PTL DEF PageInv

(* The two ends of every ring and of every page agree, always.             *)
THEOREM EndsAgreeCorrect == SafetySpec => []EndsAgree
  BY PageInvCorrect, PTL DEF PageInv

(* A pair never rings both ways, nor rings while in a call.                *)
THEOREM OneThingAtATimeCorrect == SafetySpec => []OneThingAtATime
  BY PageInvCorrect, PTL DEF PageInv

(* Nobody rings or is in a call with someone who left.                     *)
THEOREM OnlyWithOnlineCorrect == SafetySpec => []OnlyWithOnline
  BY PageInvCorrect, PTL DEF PageInv

(* Every ring has a sleeping task that will end it.                        *)
THEOREM RingHasTimerCorrect == SafetySpec => []RingHasTimer
  BY PageInvCorrect, PTL DEF PageInv

(* All of it together, for any number of people and rings.                 *)
THEOREM RingsSoundCorrect == SafetySpec => []RingsSound
  BY PageInvCorrect, PTL DEF PageInv, RingsSound

(***************************************************************************)
(* Refinement: the server's bookkeeping implements module Calls.           *)
(***************************************************************************)
Ringing == {r \in Members \X Members : r[2] \in ringingOut[r[1]]}

Live == {c \in SUBSET Members : \E a, b \in Members : c = {a, b} /\ b \in paging[a]}

(* Under the invariant a pair is live exactly when either end says so.     *)
LEMMA LivePair ==
  ASSUME PageInv, NEW a \in Members, NEW b \in Members
  PROVE  {a, b} \in Live <=> b \in paging[a]
<1>1. ASSUME {a, b} \in Live PROVE b \in paging[a]
  <2>1. PICK x, y \in Members : {a, b} = {x, y} /\ y \in paging[x]
    BY <1>1 DEF Live
  <2>2. (x = a /\ y = b) \/ (x = b /\ y = a)
    BY <2>1 DEF PageInv, OneThingAtATime
  <2>3. QED
    BY <2>1, <2>2 DEF PageInv, EndsAgree
<1>2. QED
  BY <1>1 DEF Live

(* A step after which pairs only lost rings and calls, all of them m's, is *)
(* an End(m).                                                              *)
LEMMA EndStep ==
  ASSUME PageInv, NEW m \in Members,
         \A x, y \in Members :
           /\ y \in ringingOut'[x] => y \in ringingOut[x]
           /\ y \in ringingOut[x] /\ y \notin ringingOut'[x] => m \in {x, y}
           /\ y \in paging'[x] => y \in paging[x]
           /\ y \in paging[x] /\ y \notin paging'[x] => m \in {x, y}
  PROVE  Abstract!End(m)
<1>1. Ringing' \subseteq Ringing /\ Live' \subseteq Live
  BY DEF Ringing, Live
<1>2. \A x, y \in Members : <<x, y>> \in Ringing \ Ringing' => m \in {x, y}
  BY DEF Ringing
<1>3. \A c \in Live \ Live' : m \in c
  BY DEF Live
<1>4. QED
  BY <1>1, <1>2, <1>3 DEF Abstract!End, Ringing, Live

LEMMA RefinesInit == Init => Abstract!Init
  BY DEF Init, Nobody, Abstract!Init

LEMMA RefinesNext ==
  PageInv /\ PageInv' /\ [Next]_pagingVars => [Abstract!Next]_Abstract!callsVars
<1> SUFFICES ASSUME PageInv, PageInv', [Next]_pagingVars
             PROVE  Abstract!Next \/ UNCHANGED <<Ringing, Live>>
  BY DEF Abstract!callsVars, Ringing, Live
<1> USE DEF PageInv
<1>1. ASSUME UNCHANGED <<ringingOut, paging>>
      PROVE  UNCHANGED <<Ringing, Live>>
  BY <1>1 DEF Ringing, Live
<1>2. ASSUME NEW m \in Members, Join(m)
      PROVE  UNCHANGED <<Ringing, Live>>
  BY <1>1, <1>2 DEF Join
<1>3. ASSUME NEW m \in Members, NEW on \in BOOLEAN, SetDnd(m, on)
      PROVE  UNCHANGED <<Ringing, Live>>
  BY <1>1, <1>3 DEF SetDnd
<1>4. ASSUME NEW m \in Members, Leave(m)
      PROVE  Abstract!Next
  <2>1. Abstract!End(m)
    BY <1>4, EndStep DEF Leave, Forget, TypeOK
  <2>2. QED
    BY <2>1 DEF Abstract!Next
<1>5. ASSUME NEW a \in Members, NEW b \in Members, Page(a, b)
      PROVE  Abstract!Next
  <2>1. Ringing' = Ringing \union {<<a, b>>} /\ Live' = Live
    BY <1>5 DEF Page, Ringing, Live, TypeOK
  <2>2. <<a, b>> \notin Ringing /\ <<b, a>> \notin Ringing
    BY <1>5, RingOutcome DEF Page, Ringing, EndsAgree
  <2>3. {a, b} \notin Live
    BY <1>5, LivePair, RingOutcome DEF Page
  <2>4. Abstract!Ring(a, b)
    BY <1>5, <2>1, <2>2, <2>3, RingOutcome DEF Page, Abstract!Ring, Abstract!Idle, Ringing, Live
  <2>5. QED
    BY <2>4 DEF Abstract!Next
<1>6. ASSUME NEW b \in Members, NEW a \in Members, PageAccept(b, a)
      PROVE  Abstract!Next
  <2>1. <<a, b>> \in Ringing
    BY <1>6 DEF PageAccept, Pending, Ringing
  <2>2. \A x, y \in Members :
          /\ y \in ringingOut'[x] <=> y \in ringingOut[x] /\ <<x, y>> # <<a, b>>
          /\ y \in paging'[x] <=> y \in paging[x] \/ <<x, y>> = <<a, b>> \/ <<x, y>> = <<b, a>>
    BY <1>6 DEF PageAccept, Pending, TypeOK, OneThingAtATime, EndsAgree
  <2>3. Ringing' = Ringing \ {<<a, b>>}
    BY <2>2 DEF Ringing
  <2>4. Live' = Live \union {{a, b}}
    BY <2>2 DEF Live
  <2>5. Abstract!Answer(a, b)
    BY <2>1, <2>3, <2>4 DEF Abstract!Answer, Ringing, Live
  <2>6. QED
    BY <2>5 DEF Abstract!Next
<1>7. ASSUME NEW a \in Members, NEW b \in Members, HangUp(a, b)
      PROVE  Abstract!Next
  <2>1. Abstract!End(a)
    BY <1>7, EndStep DEF HangUp, TypeOK
  <2>2. QED
    BY <2>1 DEF Abstract!Next
<1>8. ASSUME NEW a \in Members, NEW b \in Members, Cancel(a, b)
      PROVE  Abstract!Next
  <2>1. Abstract!End(a)
    BY <1>8, EndStep DEF Cancel, TypeOK
  <2>2. QED
    BY <2>1 DEF Abstract!Next
<1>9. ASSUME NEW a \in Members, NEW b \in Members, Decline(a, b)
      PROVE  Abstract!Next
  <2>1. Abstract!End(a)
    BY <1>9, EndStep DEF Decline, TypeOK
  <2>2. QED
    BY <2>1 DEF Abstract!Next
<1>10. ASSUME NEW t \in Timers, PageTimeout(t)
       PROVE  Abstract!Next
  <2>1. t.from \in Members /\ t.to \in Members
    BY DEF Timers
  <2>2. Abstract!End(t.from)
    <3>1. CASE Pending(t.from, t.to)
      <4>1. ringingOut' = [ringingOut EXCEPT ![t.from] = @ \ {t.to}] /\ paging' = paging
        BY <1>10, <3>1 DEF PageTimeout
      <4>2. QED
        BY <2>1, <4>1, EndStep DEF TypeOK
    <3>2. CASE ~Pending(t.from, t.to)
      <4>1. ringingOut' = ringingOut /\ paging' = paging
        BY <1>10, <3>2 DEF PageTimeout
      <4>2. QED
        BY <2>1, <4>1, EndStep
    <3>3. QED
      BY <3>1, <3>2
  <2>3. QED
    BY <2>1, <2>2 DEF Abstract!Next
<1>11. ASSUME UNCHANGED pagingVars
       PROVE  UNCHANGED <<Ringing, Live>>
  BY <1>1, <1>11 DEF pagingVars
<1>12. QED
  BY <1>2, <1>3, <1>4, <1>5, <1>6, <1>7, <1>8, <1>9, <1>10, <1>11 DEF Next

(* The rings and calls the server keeps at both ends, with its timers and  *)
(* departures, behave as module Calls promises: no call without an answer  *)
(* to a ring of that pair, and nobody ends other people's calls.           *)
THEOREM KeepsThePromiseCorrect == SafetySpec => KeepsThePromise
<1>1. SafetySpec => []PageInv
  BY PageInvCorrect
<1>2. Init => Abstract!Init
  BY RefinesInit
<1>3. PageInv /\ PageInv' /\ [Next]_pagingVars => [Abstract!Next]_Abstract!callsVars
  BY RefinesNext
<1>4. QED
  BY <1>1, <1>2, <1>3, PTL DEF SafetySpec, KeepsThePromise, Abstract!Spec

(***************************************************************************)
(* CallView: the queues between the server and its clients.                *)
(***************************************************************************)
Types == {"page", "accept", "end", "ringing", "offer", "connect", "rejected"}

Msgs == [t : Types, peer : Members]

Modes == [mode : {"incoming", "in_call", "outgoing"}, peers : SUBSET Members]

Typed ==
  /\ pages \in [Members -> SUBSET Members]
  /\ calling \in [Members -> SUBSET Members]
  /\ offers \in [Members -> SUBSET Members]
  /\ alert \in [Members -> BOOLEAN]
  /\ banner \in [Members -> Modes]
  /\ events \in [Members -> Seq(Msgs)]
  /\ requests \in [Members -> Seq(Msgs)]

(* Once these messages are handled, p is on the screen: it is there and    *)
(* none of them takes it off, or the last that says so puts it there.      *)
Undone(queue, from, drops, p) ==
  \E j \in DOMAIN queue : j > from /\ queue[j].peer = p /\ queue[j].t \in drops

Stays(queue, shown, adds, drops, p) ==
  \/ shown /\ ~Undone(queue, 0, drops, p)
  \/ \E i \in DOMAIN queue : queue[i] = Msg(adds, p) /\ ~Undone(queue, i, drops, p)

CallStays(m, p) ==
  \/ Coming(requests[m], "end", p)
  \/ Stays(events[m], p \in pages[m], "connect", {"end"}, p)

OfferStays(m, p) ==
  \/ Coming(requests[m], "end", p)
  \/ Stays(events[m], p \in offers[m], "offer", {"end", "connect"}, p)

NothingLost ==
  \A m, p \in Members :
    /\ p \in paging[m] => CallStays(m, p)
    /\ p \in ringingIn[m] => OfferStays(m, p)

CallInv == PageInv /\ Typed /\ NothingLost /\ AlertTells /\ BannerTells

(***************************************************************************)
(* Queues.                                                                 *)
(***************************************************************************)
LEMMA AppendDoes ==
  ASSUME NEW q \in Seq(Msgs), NEW e \in Msgs
  PROVE  /\ Append(q, e) \in Seq(Msgs)
         /\ Len(q) \in Nat /\ DOMAIN q = 1 .. Len(q) /\ DOMAIN Append(q, e) = 1 .. Len(q) + 1
         /\ \A i \in 1 .. Len(q) : Append(q, e)[i] = q[i]
         /\ Append(q, e)[Len(q) + 1] = e
BY AppendProperties, LenProperties

LEMMA TailDoes ==
  ASSUME NEW q \in Seq(Msgs), q # <<>>
  PROVE  /\ Tail(q) \in Seq(Msgs)
         /\ Len(q) \in Nat \ {0} /\ DOMAIN q = 1 .. Len(q) /\ DOMAIN Tail(q) = 1 .. Len(q) - 1
         /\ Head(q) = q[1]
         /\ \A i \in 1 .. Len(q) - 1 : Tail(q)[i] = q[i + 1]
<1>1. Tail(q) \in Seq(Msgs) /\ Len(Tail(q)) = Len(q) - 1
      /\ \A i \in 1 .. Len(Tail(q)) : Tail(q)[i] = q[i + 1]
  BY HeadTailProperties
<1>2. Len(q) \in Nat \ {0} /\ DOMAIN q = 1 .. Len(q) /\ DOMAIN Tail(q) = 1 .. Len(q) - 1
  BY <1>1, EmptySeq, LenProperties
<1>. QED
  BY <1>1, <1>2

LEMMA AppendStays ==
  ASSUME NEW q \in Seq(Msgs), NEW e \in Msgs, NEW shown, NEW adds, NEW drops, NEW p,
         \/ e = Msg(adds, p)
         \/ Stays(q, shown, adds, drops, p) /\ ~(e.peer = p /\ e.t \in drops)
  PROVE  Stays(Append(q, e), shown, adds, drops, p)
<1>. DEFINE r == Append(q, e)
<1>1. /\ Len(q) \in Nat /\ DOMAIN q = 1 .. Len(q) /\ DOMAIN r = 1 .. Len(q) + 1
      /\ \A i \in 1 .. Len(q) : r[i] = q[i]
      /\ r[Len(q) + 1] = e
  BY AppendDoes
<1>. HIDE DEF r
<1>2. CASE e = Msg(adds, p)
  <2>1. ~Undone(r, Len(q) + 1, drops, p)
    BY <1>1 DEF Undone
  <2>2. Len(q) + 1 \in DOMAIN r
    BY <1>1
  <2>. QED
    BY <1>1, <1>2, <2>1, <2>2 DEF Stays, r
<1>3. CASE Stays(q, shown, adds, drops, p) /\ ~(e.peer = p /\ e.t \in drops)
  <2>1. ASSUME NEW i \in 0 .. Len(q), ~Undone(q, i, drops, p)
        PROVE  ~Undone(r, i, drops, p)
    <3>. SUFFICES ASSUME NEW j \in DOMAIN r, j > i, r[j].peer = p, r[j].t \in drops PROVE FALSE
      BY DEF Undone
    <3>1. CASE j = Len(q) + 1
      BY <1>1, <1>3, <3>1
    <3>2. CASE j # Len(q) + 1
      <4>1. j \in DOMAIN q /\ r[j] = q[j]
        BY <1>1, <3>2
      <4>. QED
        BY <2>1, <4>1 DEF Undone
    <3>. QED
      BY <3>1, <3>2
  <2>2. CASE shown /\ ~Undone(q, 0, drops, p)
    <3>1. 0 \in 0 .. Len(q)
      BY <1>1
    <3>. QED
      BY <2>1, <2>2, <3>1 DEF Stays, r
  <2>3. ASSUME NEW i \in DOMAIN q, q[i] = Msg(adds, p), ~Undone(q, i, drops, p)
        PROVE  Stays(r, shown, adds, drops, p)
    <3>1. i \in 0 .. Len(q) /\ i \in DOMAIN r /\ r[i] = q[i]
      BY <1>1
    <3>. QED
      BY <2>1, <2>3, <3>1 DEF Stays
  <2>. QED
    BY <1>3, <2>2, <2>3 DEF Stays, r
<1>. QED
  BY <1>2, <1>3

LEMMA TailStays ==
  ASSUME NEW q \in Seq(Msgs), q # <<>>, NEW shown, NEW adds, NEW drops, NEW p,
         Stays(q, shown, adds, drops, p), NEW now,
         Head(q) = Msg(adds, p) => now,
         shown /\ ~(Head(q).peer = p /\ Head(q).t \in drops) => now
  PROVE  Stays(Tail(q), now, adds, drops, p)
<1>. DEFINE r == Tail(q)
<1>1. /\ Len(q) \in Nat \ {0} /\ DOMAIN q = 1 .. Len(q) /\ DOMAIN r = 1 .. Len(q) - 1
      /\ Head(q) = q[1]
      /\ \A i \in 1 .. Len(q) - 1 : r[i] = q[i + 1]
  BY TailDoes
<1>. HIDE DEF r
<1>2. ASSUME NEW i \in 1 .. Len(q), ~Undone(q, i, drops, p)
      PROVE  ~Undone(r, i - 1, drops, p)
  <2>. SUFFICES ASSUME NEW j \in DOMAIN r, j > i - 1, r[j].peer = p, r[j].t \in drops PROVE FALSE
    BY DEF Undone
  <2>1. j + 1 \in DOMAIN q /\ j + 1 > i /\ r[j] = q[j + 1]
    BY <1>1
  <2>. QED
    BY <1>2, <2>1 DEF Undone
<1>3. CASE shown /\ ~Undone(q, 0, drops, p)
  <2>1. 1 \in DOMAIN q /\ 1 > 0
    BY <1>1
  <2>2. now
    BY <1>1, <1>3, <2>1 DEF Undone
  <2>3. ~Undone(q, 1, drops, p)
    BY <1>1, <1>3 DEF Undone
  <2>4. ~Undone(r, 0, drops, p)
    <3>1. 1 \in 1 .. Len(q) /\ 1 - 1 = 0
      BY <1>1
    <3>2. ~Undone(r, 1 - 1, drops, p)
      BY <1>2, <2>3, <3>1
    <3>. QED
      BY <3>1, <3>2
  <2>. QED
    BY <2>2, <2>4 DEF Stays, r
<1>4. ASSUME NEW i \in DOMAIN q, q[i] = Msg(adds, p), ~Undone(q, i, drops, p)
      PROVE  Stays(r, now, adds, drops, p)
  <2>1. i \in 1 .. Len(q)
    BY <1>1
  <2>2. ~Undone(r, i - 1, drops, p)
    BY <1>2, <1>4, <2>1
  <2>3. CASE i = 1
    <3>1. now
      BY <1>1, <1>4, <2>3
    <3>2. i - 1 = 0
      BY <2>3
    <3>. QED
      BY <2>2, <3>1, <3>2 DEF Stays
  <2>4. CASE i # 1
    <3>1. i - 1 \in DOMAIN r /\ r[i - 1] = q[i]
      BY <1>1, <2>1, <2>4
    <3>. QED
      BY <1>4, <2>2, <3>1 DEF Stays
  <2>. QED
    BY <2>3, <2>4
<1>. QED
  BY <1>3, <1>4 DEF Stays, r

LEMMA ComingTail ==
  ASSUME NEW q \in Seq(Msgs), q # <<>>, NEW t, NEW p, Coming(q, t, p), Head(q) # Msg(t, p)
  PROVE  Coming(Tail(q), t, p)
<1>1. PICK i \in DOMAIN q : q[i] = Msg(t, p)
  BY DEF Coming
<1>2. /\ Len(q) \in Nat \ {0} /\ DOMAIN q = 1 .. Len(q) /\ DOMAIN Tail(q) = 1 .. Len(q) - 1
      /\ Head(q) = q[1]
      /\ \A j \in 1 .. Len(q) - 1 : Tail(q)[j] = q[j + 1]
  BY TailDoes
<1>3. i # 1
  BY <1>1, <1>2
<1>4. i - 1 \in DOMAIN Tail(q) /\ (i - 1) + 1 = i
  BY <1>2, <1>3
<1>5. Tail(q)[i - 1] = q[i]
  BY <1>2, <1>4
<1>. QED
  BY <1>1, <1>4, <1>5 DEF Coming

LEMMA ComingConcat ==
  ASSUME NEW q \in Seq(Msgs), NEW r \in Seq(Msgs), NEW t, NEW p,
         Coming(q, t, p) \/ Coming(r, t, p)
  PROVE  Coming(q \o r, t, p)
<1>1. /\ q \o r \in Seq(Msgs) /\ Len(q \o r) = Len(q) + Len(r)
      /\ \A i \in 1 .. Len(q) + Len(r) :
           (q \o r)[i] = IF i <= Len(q) THEN q[i] ELSE r[i - Len(q)]
  BY ConcatProperties
<1>2. /\ Len(q) \in Nat /\ Len(r) \in Nat /\ DOMAIN q = 1 .. Len(q) /\ DOMAIN r = 1 .. Len(r)
      /\ DOMAIN (q \o r) = 1 .. Len(q) + Len(r)
  BY <1>1, LenProperties
<1>3. CASE Coming(q, t, p)
  <2>1. PICK i \in DOMAIN q : q[i] = Msg(t, p)
    BY <1>3 DEF Coming
  <2>2. i \in DOMAIN (q \o r) /\ (q \o r)[i] = q[i]
    BY <1>1, <1>2
  <2>. QED
    BY <2>1, <2>2 DEF Coming
<1>4. CASE Coming(r, t, p)
  <2>1. PICK i \in DOMAIN r : r[i] = Msg(t, p)
    BY <1>4 DEF Coming
  <2>2. Len(q) + i \in DOMAIN (q \o r) /\ ~(Len(q) + i <= Len(q)) /\ (Len(q) + i) - Len(q) = i
    BY <1>2
  <2>3. (q \o r)[Len(q) + i] = r[i]
    BY <1>1, <1>2, <2>2
  <2>. QED
    BY <2>1, <2>2, <2>3 DEF Coming
<1>. QED
  BY <1>3, <1>4

(* The queues before and after one more message for m, if it is there.     *)
Queued(before, after, m, t, p) ==
  /\ Msg(t, p) \in Msgs /\ Msg(t, p).t = t /\ Msg(t, p).peer = p
  /\ after \in [Members -> Seq(Msgs)]
  /\ \A x \in Members : x # m => after[x] = before[x]
  /\ m \in online => after[m] = Append(before[m], Msg(t, p))
  /\ m \notin online => after[m] = before[m]

LEMMA SentDoes ==
  ASSUME NEW queues \in [Members -> Seq(Msgs)], NEW m \in Members, NEW p \in Members,
         NEW t \in Types
  PROVE  Queued(queues, Sent(queues, m, t, p), m, t, p)
<1>1. Msg(t, p) \in Msgs /\ Msg(t, p).t = t /\ Msg(t, p).peer = p
  BY DEF Msg, Msgs
<1>2. Append(queues[m], Msg(t, p)) \in Seq(Msgs)
  BY <1>1, AppendDoes
<1>3. CASE m \in online
  BY <1>1, <1>2, <1>3 DEF Sent, Queued
<1>4. CASE m \notin online
  BY <1>1, <1>4 DEF Sent, Queued
<1>. QED
  BY <1>3, <1>4

(***************************************************************************)
(* The server's steps.                                                     *)
(***************************************************************************)
(* Whatever the server does for a pair, it queues the news of.             *)
Announces ==
  /\ requests' \in [Members -> Seq(Msgs)] /\ events' \in [Members -> Seq(Msgs)]
  /\ \A x \in Members :
       \/ events'[x] = events[x]
       \/ paging'[x] = {} /\ ringingIn'[x] = {}
       \/ \E e \in Msgs :
            /\ events'[x] = Append(events[x], e)
            /\ e.t = "end" => e.peer \notin paging'[x] \union ringingIn'[x]
            /\ e.t = "connect" => e.peer \notin ringingIn'[x]
  /\ \A x, y \in Members :
       /\ Coming(requests[x], "end", y) =>
            \/ Coming(requests'[x], "end", y)
            \/ y \notin paging'[x] \union ringingIn'[x]
       /\ y \in paging'[x] \ paging[x] => events'[x] = Append(events[x], Msg("connect", y))
       /\ y \in ringingIn'[x] \ ringingIn[x] => events'[x] = Append(events[x], Msg("offer", y))

LEMMA AnnouncedStays ==
  ASSUME CallInv, Announces,
         \A x \in Members :
           \/ paging'[x] = {} /\ ringingIn'[x] = {}
           \/ pages'[x] = pages[x] /\ offers'[x] = offers[x]
  PROVE  NothingLost'
<1>1. Typed
  BY DEF CallInv
<1>2. ASSUME NEW x \in Members, NEW y \in Members, y \in paging'[x]
      PROVE  CallStays(x, y)'
  <2>. SUFFICES ASSUME ~Coming(requests'[x], "end", y)
                PROVE  Stays(events'[x], y \in pages[x], "connect", {"end"}, y)
    BY <1>2 DEF CallStays
  <2>. events[x] \in Seq(Msgs) /\ Msg("connect", y) \in Msgs
    BY <1>1 DEF Typed, Msgs, Msg, Types
  <2>1. CASE y \notin paging[x]
    <3>1. events'[x] = Append(events[x], Msg("connect", y))
      BY <1>2, <2>1 DEF Announces
    <3>. QED
      BY <3>1, AppendStays
  <2>2. CASE y \in paging[x]
    <3>1. Stays(events[x], y \in pages[x], "connect", {"end"}, y)
      BY <1>2, <2>2 DEF Announces, CallInv, NothingLost, CallStays
    <3>2. CASE events'[x] = events[x]
      BY <3>1, <3>2
    <3>3. CASE events'[x] # events[x]
      <4>1. PICK e \in Msgs : /\ events'[x] = Append(events[x], e)
                              /\ e.t = "end" => e.peer \notin paging'[x]
        BY <1>2, <3>3 DEF Announces
      <4>2. ~(e.peer = y /\ e.t \in {"end"})
        BY <1>2, <4>1
      <4>. QED
        BY <3>1, <4>1, <4>2, AppendStays
    <3>. QED
      BY <3>2, <3>3
  <2>. QED
    BY <2>1, <2>2
<1>3. ASSUME NEW x \in Members, NEW y \in Members, y \in ringingIn'[x]
      PROVE  OfferStays(x, y)'
  <2>. SUFFICES ASSUME ~Coming(requests'[x], "end", y)
                PROVE  Stays(events'[x], y \in offers[x], "offer", {"end", "connect"}, y)
    BY <1>3 DEF OfferStays
  <2>. events[x] \in Seq(Msgs) /\ Msg("offer", y) \in Msgs
    BY <1>1 DEF Typed, Msgs, Msg, Types
  <2>1. CASE y \notin ringingIn[x]
    <3>1. events'[x] = Append(events[x], Msg("offer", y))
      BY <1>3, <2>1 DEF Announces
    <3>. QED
      BY <3>1, AppendStays
  <2>2. CASE y \in ringingIn[x]
    <3>1. Stays(events[x], y \in offers[x], "offer", {"end", "connect"}, y)
      BY <1>3, <2>2 DEF Announces, CallInv, NothingLost, OfferStays
    <3>2. CASE events'[x] = events[x]
      BY <3>1, <3>2
    <3>3. CASE events'[x] # events[x]
      <4>1. PICK e \in Msgs : /\ events'[x] = Append(events[x], e)
                              /\ e.t = "end" => e.peer \notin ringingIn'[x]
                              /\ e.t = "connect" => e.peer \notin ringingIn'[x]
        BY <1>3, <3>3 DEF Announces
      <4>2. ~(e.peer = y /\ e.t \in {"end", "connect"})
        BY <1>3, <4>1
      <4>. QED
        BY <3>1, <4>1, <4>2, AppendStays
    <3>. QED
      BY <3>2, <3>3
  <2>. QED
    BY <2>1, <2>2
<1>. QED
  BY <1>2, <1>3 DEF NothingLost

LEMMA ServerKeeps ==
  ASSUME CallInv, PageInv', UNCHANGED clientVars, Announces
  PROVE  CallInv'
<1>1. Typed' /\ UNCHANGED <<pages, calling, offers, alert, banner>>
  BY DEF CallInv, Typed, clientVars, Announces
<1>2. NothingLost'
  BY <1>1, AnnouncedStays
<1>3. AlertTells' /\ BannerTells'
  BY <1>1 DEF CallInv, AlertTells, BannerTells, Focus
<1>. QED
  BY <1>1, <1>2, <1>3 DEF CallInv

(* A request taken: the others are still coming.                           *)
LEMMA HandledDoes ==
  ASSUME Typed, NEW m \in Members, NEW p \in Members, NEW t, Handled(m, t, p)
  PROVE  /\ requests' \in [Members -> Seq(Msgs)] /\ UNCHANGED clientVars
         /\ \A x, y \in Members :
              Coming(requests[x], "end", y) =>
                Coming(requests'[x], "end", y) \/ (t = "end" /\ x = m /\ y = p)
<1>1. /\ requests[m] \in Seq(Msgs) /\ requests[m] # <<>> /\ Head(requests[m]) = Msg(t, p)
      /\ requests' = [requests EXCEPT ![m] = Tail(@)] /\ UNCHANGED clientVars
  BY DEF Handled, Typed
<1>2. Tail(requests[m]) \in Seq(Msgs)
  BY <1>1, TailDoes
<1>3. ASSUME NEW y \in Members, Coming(requests[m], "end", y), ~(t = "end" /\ y = p)
      PROVE  Coming(Tail(requests[m]), "end", y)
  <2>1. Head(requests[m]) # Msg("end", y)
    BY <1>1, <1>3 DEF Msg
  <2>. QED
    BY <1>1, <1>3, <2>1, ComingTail
<1>. QED
  BY <1>1, <1>2, <1>3 DEF Typed

LEMMA ServePageKeeps ==
  ASSUME CallInv, PageInv', NEW m \in Members, NEW p \in Members, ServePage(m, p)
  PROVE  CallInv'
<1>. DEFINE outcome == PageOutcome(m, p)
<1>1. /\ requests' \in [Members -> Seq(Msgs)] /\ UNCHANGED clientVars
      /\ \A x, y \in Members :
           Coming(requests[x], "end", y) => Coming(requests'[x], "end", y)
  BY HandledDoes DEF CallInv, ServePage
<1>2. /\ events \in [Members -> Seq(Msgs)] /\ PageInv
      /\ "ringing" \in Types /\ "offer" \in Types /\ "rejected" \in Types
  BY DEF CallInv, Typed, Types
<1>3. CASE outcome = "ringing" /\ Page(m, p)
           /\ events' = Sent(Sent(events, m, "ringing", p), p, "offer", m)
  <2>1. m # p /\ m \in online /\ p \in online
    BY <1>3, RingOutcome
  <2>. DEFINE q == Sent(events, m, "ringing", p)
  <2>2. Queued(events, q, m, "ringing", p)
    BY <1>2, SentDoes
  <2>3. q \in [Members -> Seq(Msgs)]
    BY <2>2 DEF Queued
  <2>4. Queued(q, Sent(q, p, "offer", m), p, "offer", m)
    BY <1>2, <2>3, SentDoes
  <2>. HIDE DEF q
  <2>5. Queued(q, events', p, "offer", m)
    BY <1>3, <2>4 DEF q
  <2>6. /\ \A x \in Members \ {m, p} : events'[x] = events[x]
        /\ events'[m] = Append(events[m], Msg("ringing", p))
        /\ events'[p] = Append(events[p], Msg("offer", m))
    BY <2>1, <2>2, <2>5 DEF Queued
  <2>7. /\ paging' = paging
        /\ \A x, y \in Members : y \in ringingIn'[x] => y \in ringingIn[x] \/ (x = p /\ y = m)
    BY <1>2, <1>3 DEF Page, PageInv, TypeOK
  <2>8. /\ events' \in [Members -> Seq(Msgs)]
        /\ Msg("ringing", p) \in Msgs /\ Msg("ringing", p).t = "ringing"
        /\ Msg("offer", m) \in Msgs /\ Msg("offer", m).t = "offer"
    BY <2>2, <2>5 DEF Queued
  <2>9. Announces
    BY <1>1, <2>6, <2>7, <2>8 DEF Announces
  <2>. QED
    BY <1>1, <2>9, ServerKeeps
<1>4. CASE UNCHANGED <<pagingVars, events>>
  <2>1. Announces
    BY <1>1, <1>2, <1>4 DEF Announces, pagingVars
  <2>. QED
    BY <1>1, <2>1, ServerKeeps
<1>5. CASE events' = Sent(events, m, "rejected", p) /\ UNCHANGED pagingVars
  <2>1. Queued(events, Sent(events, m, "rejected", p), m, "rejected", p)
    BY <1>2, SentDoes
  <2>2. Queued(events, events', m, "rejected", p)
    BY <1>5, <2>1
  <2>3. Announces
    BY <1>1, <1>5, <2>2 DEF Announces, Queued, pagingVars
  <2>. QED
    BY <1>1, <2>3, ServerKeeps
<1>. QED
  BY <1>3, <1>4, <1>5 DEF ServePage

LEMMA ServeAcceptKeeps ==
  ASSUME CallInv, PageInv', NEW m \in Members, NEW p \in Members, ServeAccept(m, p)
  PROVE  CallInv'
<1>1. /\ requests' \in [Members -> Seq(Msgs)] /\ UNCHANGED clientVars
      /\ \A x, y \in Members :
           Coming(requests[x], "end", y) => Coming(requests'[x], "end", y)
  BY HandledDoes DEF CallInv, ServeAccept
<1>2. events \in [Members -> Seq(Msgs)] /\ PageInv /\ "connect" \in Types
  BY DEF CallInv, Typed, Types
<1>3. CASE PageAccept(m, p) /\ events' = Sent(Sent(events, p, "connect", m), m, "connect", p)
  <2>1. m # p /\ m \in online /\ p \in online
    BY <1>2, <1>3 DEF PageAccept, Pending, PageInv, OneThingAtATime, OnlyWithOnline
  <2>. DEFINE q == Sent(events, p, "connect", m)
  <2>2. Queued(events, q, p, "connect", m)
    BY <1>2, SentDoes
  <2>3. q \in [Members -> Seq(Msgs)]
    BY <2>2 DEF Queued
  <2>4. Queued(q, Sent(q, m, "connect", p), m, "connect", p)
    BY <1>2, <2>3, SentDoes
  <2>. HIDE DEF q
  <2>5. Queued(q, events', m, "connect", p)
    BY <1>3, <2>4 DEF q
  <2>6. /\ \A x \in Members \ {m, p} : events'[x] = events[x]
        /\ events'[m] = Append(events[m], Msg("connect", p))
        /\ events'[p] = Append(events[p], Msg("connect", m))
    BY <2>1, <2>2, <2>5 DEF Queued
  <2>7. \A x, y \in Members :
          /\ y \in ringingIn'[x] => y \in ringingIn[x]
          /\ y \in paging'[x] => y \in paging[x] \/ (x = m /\ y = p) \/ (x = p /\ y = m)
    BY <1>2, <1>3, SMTT(30) DEF PageAccept, PageInv, TypeOK
  <2>8. p \notin ringingIn'[m] /\ m \notin ringingIn'[p]
    BY <1>2, <1>3, <2>1 DEF PageAccept, PageInv, TypeOK
  <2>9. /\ events' \in [Members -> Seq(Msgs)]
        /\ Msg("connect", p) \in Msgs /\ Msg("connect", m) \in Msgs
        /\ Msg("connect", p).t # "end" /\ Msg("connect", m).t # "end"
        /\ Msg("connect", p).peer = p /\ Msg("connect", m).peer = m
    BY <2>2, <2>5 DEF Queued
  <2>10. Announces
    BY <1>1, <2>6, <2>7, <2>8, <2>9 DEF Announces
  <2>. QED
    BY <1>1, <2>10, ServerKeeps
<1>4. CASE UNCHANGED <<pagingVars, events>>
  <2>1. Announces
    BY <1>1, <1>2, <1>4 DEF Announces, pagingVars
  <2>. QED
    BY <1>1, <2>1, ServerKeeps
<1>. QED
  BY <1>3, <1>4 DEF ServeAccept

(* A step that only takes pairs apart, and what one of them hears of it.   *)
Fewer ==
  \A x, y \in Members :
    /\ y \in paging'[x] => y \in paging[x]
    /\ y \in ringingIn'[x] => y \in ringingIn[x]

Parts(x, e) ==
  /\ events'[x] = Append(events[x], e)
  /\ e.t = "end" => e.peer \notin paging'[x] \union ringingIn'[x]
  /\ e.t # "connect"

LEMMA ServeEndKeeps ==
  ASSUME CallInv, PageInv', NEW m \in Members, NEW p \in Members, ServeEnd(m, p)
  PROVE  CallInv'
<1>1. /\ requests' \in [Members -> Seq(Msgs)] /\ UNCHANGED clientVars
      /\ \A x, y \in Members :
           Coming(requests[x], "end", y) => Coming(requests'[x], "end", y) \/ (x = m /\ y = p)
  BY HandledDoes DEF CallInv, ServeEnd
<1>2. /\ events \in [Members -> Seq(Msgs)] /\ PageInv
      /\ "end" \in Types /\ "rejected" \in Types
  BY DEF CallInv, Typed, Types
(* All four ways it goes: nothing is left of the pair at m's end.          *)
<1>3. ASSUME p \notin paging'[m] \union ringingIn'[m],
             events' \in [Members -> Seq(Msgs)],
             Fewer,
             \A x \in Members : events'[x] = events[x] \/ (\E e \in Msgs : Parts(x, e))
      PROVE  CallInv'
  <2>1. Announces
    BY <1>1, <1>3 DEF Announces, Fewer, Parts
  <2>. QED
    BY <1>1, <2>1, ServerKeeps
<1>4. CASE (HangUp(m, p) \/ Cancel(m, p)) /\ events' = Sent(events, p, "end", m)
  <2>1. /\ m \notin paging'[p] \union ringingIn'[p]
        /\ p \notin paging'[m] \union ringingIn'[m]
        /\ Fewer
    <3>1. CASE HangUp(m, p)
      <4>1. /\ m \in paging[p] /\ m # p
            /\ m \notin ringingIn[p] /\ p \notin ringingIn[m]
        BY <1>2, <3>1 DEF HangUp, PageInv, EndsAgree, OneThingAtATime
      <4>. QED
        BY <1>2, <3>1, <4>1, SMTT(30) DEF HangUp, PageInv, TypeOK, Fewer
    <3>2. CASE Cancel(m, p)
      <4>1. /\ p \notin paging[m] /\ m \notin paging[p] /\ m # p
            /\ p \notin ringingIn[m]
        BY <1>2, <3>2 DEF Cancel, PageInv, EndsAgree, OneThingAtATime
      <4>. QED
        BY <1>2, <3>2, <4>1 DEF Cancel, PageInv, TypeOK, Fewer
    <3>. QED
      BY <1>4, <3>1, <3>2
  <2>2. Queued(events, Sent(events, p, "end", m), p, "end", m)
    BY <1>2, SentDoes
  <2>3. Queued(events, events', p, "end", m)
    BY <1>4, <2>2
  <2>4. events' \in [Members -> Seq(Msgs)]
    BY <2>3 DEF Queued
  <2>5. \A x \in Members : events'[x] = events[x] \/ (\E e \in Msgs : Parts(x, e))
    BY <2>1, <2>3 DEF Queued, Parts
  <2>. QED
    BY <1>3, <2>1, <2>4, <2>5
<1>5. CASE Decline(m, p) /\ events' = Sent(events, p, "rejected", m)
  <2>1. /\ p \notin paging'[m] \union ringingIn'[m]
        /\ Fewer
    BY <1>2, <1>5 DEF Decline, PageInv, TypeOK, Fewer
  <2>2. Queued(events, Sent(events, p, "rejected", m), p, "rejected", m)
    BY <1>2, SentDoes
  <2>3. Queued(events, events', p, "rejected", m)
    BY <1>5, <2>2
  <2>4. events' \in [Members -> Seq(Msgs)]
    BY <2>3 DEF Queued
  <2>5. \A x \in Members : events'[x] = events[x] \/ (\E e \in Msgs : Parts(x, e))
    BY <2>3 DEF Queued, Parts
  <2>. QED
    BY <1>3, <2>1, <2>4, <2>5
<1>6. CASE /\ p \notin paging[m] \union ringingOut[m] \union ringingIn[m]
           /\ UNCHANGED <<pagingVars, events>>
  BY <1>2, <1>3, <1>6 DEF pagingVars, Fewer
<1>. QED
  BY <1>4, <1>5, <1>6 DEF ServeEnd

LEMMA TimerWakesKeeps ==
  ASSUME CallInv, PageInv', NEW t \in timers, TimerWakes(t)
  PROVE  CallInv'
<1>1. /\ UNCHANGED clientVars /\ UNCHANGED requests /\ PageTimeout(t)
      /\ events \in [Members -> Seq(Msgs)] /\ PageInv
      /\ requests \in [Members -> Seq(Msgs)]
      /\ "end" \in Types /\ "rejected" \in Types
      /\ t.from \in Members /\ t.to \in Members
  BY DEF TimerWakes, CallInv, Typed, Types, PageInv, TypeOK, Timers
<1>2. CASE Pending(t.from, t.to)
  <2>. DEFINE q == Sent(events, t.from, "rejected", t.to)
  <2>1. t.from # t.to /\ t.from \notin paging[t.to]
    BY <1>1, <1>2 DEF Pending, PageInv, EndsAgree, OneThingAtATime
  <2>2. Queued(events, q, t.from, "rejected", t.to)
    BY <1>1, SentDoes
  <2>3. q \in [Members -> Seq(Msgs)]
    BY <2>2 DEF Queued
  <2>4. Queued(q, Sent(q, t.to, "end", t.from), t.to, "end", t.from)
    BY <1>1, <2>3, SentDoes
  <2>. HIDE DEF q
  <2>5. Queued(q, events', t.to, "end", t.from)
    BY <1>2, <2>4 DEF q, TimerWakes
  <2>6. /\ ringingIn' = [ringingIn EXCEPT ![t.to] = @ \ {t.from}]
        /\ paging' = paging
    BY <1>1, <1>2 DEF PageTimeout
  <2>7. /\ t.from \notin paging'[t.to] \union ringingIn'[t.to]
        /\ \A x, y \in Members : y \in ringingIn'[x] => y \in ringingIn[x]
    BY <1>1, <2>1, <2>6 DEF PageInv, TypeOK
  <2>8. Announces
    BY <1>1, <2>1, <2>2, <2>5, <2>6, <2>7, SMTT(30) DEF Announces, Queued
  <2>. QED
    BY <1>1, <2>8, ServerKeeps
<1>3. CASE ~Pending(t.from, t.to)
  <2>1. UNCHANGED <<events, paging, ringingIn>>
    BY <1>1, <1>3 DEF TimerWakes, PageTimeout
  <2>2. Announces
    BY <1>1, <2>1 DEF Announces
  <2>. QED
    BY <1>1, <2>2, ServerKeeps
<1>. QED
  BY <1>2, <1>3

LEMMA DepartKeeps ==
  ASSUME CallInv, PageInv', NEW m \in Members, Depart(m)
  PROVE  CallInv'
<1>1. PageInv /\ Typed /\ "end" \in Types /\ "rejected" \in Types
  BY DEF CallInv, Types
<1>2. /\ Msg("end", m) \in Msgs /\ Msg("end", m).t = "end" /\ Msg("end", m).peer = m
      /\ Msg("rejected", m) \in Msgs /\ Msg("rejected", m).t = "rejected"
  BY <1>1 DEF Msg, Msgs
<1>3. /\ paging'[m] = {} /\ ringingIn'[m] = {}
      /\ \A x, y \in Members :
           /\ y \in paging'[x] => y \in paging[x] /\ y # m
           /\ y \in ringingIn'[x] => y \in ringingIn[x] /\ y # m
  BY <1>1 DEF Depart, Leave, Forget, PageInv, TypeOK, EndsAgree
<1>4. \A x \in Members \ {m} :
        \/ events'[x] = events[x]
        \/ events'[x] = Append(events[x], Msg("end", m))
        \/ events'[x] = Append(events[x], Msg("rejected", m))
  BY DEF Depart
<1>5. Typed'
  <2>1. NoCall \in Modes
    BY DEF NoCall, Modes
  <2>2. ASSUME NEW x \in Members \ {m} PROVE events'[x] \in Seq(Msgs)
    <3>1. events[x] \in Seq(Msgs)
      BY <1>1 DEF Typed
    <3>2. \A e \in Msgs : Append(events[x], e) \in Seq(Msgs)
      BY <3>1, AppendDoes
    <3>. QED
      BY <1>2, <1>4, <3>1, <3>2
  <2>3. events' \in [Members -> Seq(Msgs)]
    BY <2>2 DEF Depart
  <2>. QED
    BY <1>1, <2>1, <2>3 DEF Typed, Depart
<1>6. \A x \in Members \ {m} :
        UNCHANGED <<pages[x], calling[x], offers[x], alert[x], banner[x], requests[x]>>
  BY <1>1 DEF Depart, Typed
<1>7. Announces
  BY <1>2, <1>3, <1>4, <1>5, <1>6 DEF Announces, Typed
<1>8. NothingLost'
  BY <1>3, <1>6, <1>7, AnnouncedStays
<1>9. AlertTells' /\ BannerTells'
  <2>1. /\ pages'[m] = {} /\ calling'[m] = {} /\ offers'[m] = {}
        /\ alert'[m] = FALSE /\ banner'[m] = NoCall
    BY <1>1 DEF Depart, Typed
  <2>2. ASSUME NEW x \in Members PROVE /\ alert'[x] <=> offers'[x] # {}
                                       /\ banner'[x] = Focus(x)'
    <3>1. CASE x = m
      BY <2>1, <3>1 DEF Focus, NoCall
    <3>2. CASE x # m
      <4>1. UNCHANGED <<pages[x], calling[x], offers[x], alert[x], banner[x]>>
        BY <1>6, <3>2
      <4>2. (alert[x] <=> offers[x] # {}) /\ banner[x] = Focus(x)
        BY DEF CallInv, AlertTells, BannerTells
      <4>. QED
        BY <4>1, <4>2 DEF Focus
    <3>. QED
      BY <3>1, <3>2
  <2>. QED
    BY <2>2 DEF AlertTells, BannerTells
<1>. QED
  BY <1>5, <1>8, <1>9 DEF CallInv

(***************************************************************************)
(* The clients' steps.                                                     *)
(***************************************************************************)
(* What is redrawn together stays together: the sets, banner and ringtone. *)
Redrawn(m) ==
  /\ pages' \in [Members -> SUBSET Members]
  /\ calling' \in [Members -> SUBSET Members]
  /\ offers' \in [Members -> SUBSET Members]
  /\ \A x \in Members \ {m} : UNCHANGED <<pages[x], calling[x], offers[x]>>
  /\ UpdateCallBanner(m)
  /\ SyncIncomingAlert(m) \/ (UNCHANGED offers /\ UNCHANGED alert)

LEMMA RedrawnSound ==
  ASSUME Typed, AlertTells, BannerTells, NEW m \in Members, Redrawn(m)
  PROVE  /\ alert' \in [Members -> BOOLEAN] /\ banner' \in [Members -> Modes]
         /\ AlertTells' /\ BannerTells'
<1>1. Focus(m)' \in Modes
  <2>1. pages'[m] \in SUBSET Members /\ calling'[m] \in SUBSET Members /\ offers'[m] \in SUBSET Members
    BY DEF Redrawn
  <2>. QED
    BY <2>1 DEF Focus, Modes
<1>2. /\ banner' \in [Members -> Modes] /\ banner'[m] = Focus(m)'
      /\ \A x \in Members \ {m} : banner'[x] = banner[x]
  <2>. DEFINE now == Focus(m)'
  <2>1. now \in Modes /\ banner' = [banner EXCEPT ![m] = now]
    BY <1>1 DEF Redrawn, UpdateCallBanner, SetCall
  <2>. HIDE DEF now
  <2>2. /\ banner' \in [Members -> Modes] /\ banner'[m] = now
        /\ \A x \in Members \ {m} : banner'[x] = banner[x]
    BY <2>1 DEF Typed
  <2>. QED
    BY <2>2 DEF now
<1>3. ASSUME NEW x \in Members, x # m PROVE banner'[x] = Focus(x)'
  <2>1. UNCHANGED <<pages[x], calling[x], offers[x]>> /\ banner'[x] = banner[x]
    BY <1>2, <1>3 DEF Redrawn
  <2>. QED
    BY <2>1 DEF BannerTells, Focus
<1>4. BannerTells'
  BY <1>2, <1>3 DEF BannerTells
<1>5. alert' \in [Members -> BOOLEAN] /\ AlertTells'
  <2>1. CASE UNCHANGED offers /\ UNCHANGED alert
    BY <2>1 DEF Typed, AlertTells
  <2>2. CASE SyncIncomingAlert(m)
    <3>1. \A x \in Members \ {m} : offers'[x] = offers[x]
      BY DEF Redrawn
    <3>2. CASE offers'[m] # {}
      <4>1. alert' = [alert EXCEPT ![m] = TRUE]
        BY <2>2, <3>2 DEF SyncIncomingAlert, StartRingtone
      <4>. QED
        BY <3>1, <3>2, <4>1 DEF Typed, AlertTells
    <3>3. CASE offers'[m] = {}
      <4>1. alert' = [alert EXCEPT ![m] = FALSE]
        BY <2>2, <3>3 DEF SyncIncomingAlert, StopRingtone
      <4>. QED
        BY <3>1, <3>3, <4>1 DEF Typed, AlertTells
    <3>. QED
      BY <3>2, <3>3
  <2>. QED
    BY <2>1, <2>2 DEF Redrawn
<1>. QED
  BY <1>2, <1>4, <1>5

(* A step of m's client leaves the server and the other clients alone.     *)
LEMMA ClientKeeps ==
  ASSUME CallInv, PageInv', UNCHANGED pagingVars, NEW m \in Members, Redrawn(m),
         events' \in [Members -> Seq(Msgs)], requests' \in [Members -> Seq(Msgs)],
         \A x \in Members \ {m} : UNCHANGED <<events[x], requests[x]>>,
         \A y \in Members : CallStays(m, y) => CallStays(m, y)',
         \A y \in Members : OfferStays(m, y) => OfferStays(m, y)'
  PROVE  CallInv'
<1>1. Typed /\ AlertTells /\ BannerTells /\ NothingLost
  BY DEF CallInv
<1>2. /\ alert' \in [Members -> BOOLEAN] /\ banner' \in [Members -> Modes]
      /\ AlertTells' /\ BannerTells'
  BY <1>1, RedrawnSound
<1>3. Typed'
  BY <1>2 DEF Typed, Redrawn
<1>4. UNCHANGED <<paging, ringingIn>>
  BY DEF pagingVars
<1>5. ASSUME NEW x \in Members, NEW y \in Members
      PROVE  /\ CallStays(x, y) => CallStays(x, y)'
             /\ OfferStays(x, y) => OfferStays(x, y)'
  <2>1. CASE x = m
    BY <2>1
  <2>2. CASE x # m
    <3>1. UNCHANGED <<pages[x], offers[x], events[x], requests[x]>>
      BY <2>2 DEF Redrawn
    <3>. QED
      BY <3>1 DEF CallStays, OfferStays
  <2>. QED
    BY <2>1, <2>2
<1>6. NothingLost'
  BY <1>1, <1>4, <1>5 DEF NothingLost
<1>. QED
  BY <1>2, <1>3, <1>6 DEF CallInv

(* An event heard.  What p now sees of a pair is said by the handler.      *)
LEMMA HeardKeeps ==
  ASSUME CallInv, PageInv', NEW m \in Members, NEW p \in Members, NEW t \in Types, Hears(m, t, p),
         Redrawn(m),
         t = "connect" => p \in pages'[m],
         t = "offer" => p \in offers'[m],
         \A y \in pages[m] : y \in pages'[m] \/ (t = "end" /\ y = p),
         \A y \in offers[m] : y \in offers'[m] \/ (t \in {"end", "connect"} /\ y = p)
  PROVE  CallInv'
<1>1. /\ Typed /\ UNCHANGED pagingVars /\ UNCHANGED requests
      /\ events[m] \in Seq(Msgs) /\ events[m] # <<>> /\ Head(events[m]) = Msg(t, p)
      /\ events' = [events EXCEPT ![m] = Tail(@)]
  BY DEF CallInv, Typed, Hears
<1>2. /\ events' \in [Members -> Seq(Msgs)] /\ requests' \in [Members -> Seq(Msgs)]
      /\ events'[m] = Tail(events[m])
      /\ \A x \in Members \ {m} : UNCHANGED <<events[x], requests[x]>>
  <2>1. Tail(events[m]) \in Seq(Msgs)
    BY <1>1, TailDoes
  <2>. QED
    BY <1>1, <2>1 DEF Typed
<1>. DEFINE head == Head(events[m])
<1>3. head.t = t /\ head.peer = p /\ (\A s, y : head = Msg(s, y) => s = t /\ y = p)
  BY <1>1 DEF Msg
<1>. HIDE DEF head
<1>4. ASSUME NEW y \in Members, CallStays(m, y) PROVE CallStays(m, y)'
  <2>1. CASE Coming(requests[m], "end", y)
    BY <1>1, <2>1 DEF CallStays
  <2>2. CASE Stays(events[m], y \in pages[m], "connect", {"end"}, y)
    <3>. DEFINE now == y \in pages'[m]
    <3>1. head = Msg("connect", y) => now
      BY <1>3
    <3>2. y \in pages[m] /\ ~(head.peer = y /\ head.t \in {"end"}) => now
      BY <1>3
    <3>. HIDE DEF now
    <3>3. Stays(Tail(events[m]), now, "connect", {"end"}, y)
      BY <1>1, <2>2, <3>1, <3>2, TailStays DEF head
    <3>. QED
      BY <1>2, <3>3 DEF CallStays, now
  <2>. QED
    BY <1>4, <2>1, <2>2 DEF CallStays
<1>5. ASSUME NEW y \in Members, OfferStays(m, y) PROVE OfferStays(m, y)'
  <2>1. CASE Coming(requests[m], "end", y)
    BY <1>1, <2>1 DEF OfferStays
  <2>2. CASE Stays(events[m], y \in offers[m], "offer", {"end", "connect"}, y)
    <3>. DEFINE now == y \in offers'[m]
    <3>1. head = Msg("offer", y) => now
      BY <1>3
    <3>2. y \in offers[m] /\ ~(head.peer = y /\ head.t \in {"end", "connect"}) => now
      BY <1>3
    <3>. HIDE DEF now
    <3>3. Stays(Tail(events[m]), now, "offer", {"end", "connect"}, y)
      BY <1>1, <2>2, <3>1, <3>2, TailStays DEF head
    <3>. QED
      BY <1>2, <3>3 DEF OfferStays, now
  <2>. QED
    BY <1>5, <2>1, <2>2 DEF OfferStays
<1>. QED
  BY <1>1, <1>2, <1>4, <1>5, ClientKeeps

LEMMA SetsDo ==
  ASSUME NEW sets \in [Members -> SUBSET Members], NEW m \in Members, NEW p \in Members
  PROVE  /\ Shows(sets, m, p) \in [Members -> SUBSET Members]
         /\ Drops(sets, m, p) \in [Members -> SUBSET Members]
         /\ Shows(sets, m, p)[m] = sets[m] \union {p}
         /\ Drops(sets, m, p)[m] = sets[m] \ {p}
         /\ \A x \in Members \ {m} : Shows(sets, m, p)[x] = sets[x] /\ Drops(sets, m, p)[x] = sets[x]
BY DEF Shows, Drops

LEMMA HearKeeps ==
  ASSUME CallInv, PageInv', NEW m \in Members, Hear(m)
  PROVE  CallInv'
<1>1. /\ pages \in [Members -> SUBSET Members] /\ calling \in [Members -> SUBSET Members]
      /\ offers \in [Members -> SUBSET Members]
      /\ {"ringing", "offer", "connect", "rejected", "end"} \subseteq Types
  BY DEF CallInv, Typed, Types
<1>2. ASSUME NEW p \in Members, PageRinging(m, p) PROVE CallInv'
  <2>1. Redrawn(m)
    BY <1>1, <1>2, SetsDo DEF PageRinging, Redrawn
  <2>. QED
    BY <1>1, <1>2, <2>1, HeardKeeps DEF PageRinging
<1>3. ASSUME NEW p \in Members, PageOffer(m, p) PROVE CallInv'
  <2>1. Redrawn(m)
    <3>1. /\ offers' = Shows(offers, m, p) /\ pages' = pages /\ calling' = calling
          /\ UpdateCallBanner(m) /\ SyncIncomingAlert(m)
      BY <1>3 DEF PageOffer
    <3>2. /\ offers' \in [Members -> SUBSET Members]
          /\ \A x \in Members \ {m} : offers'[x] = offers[x]
      BY <1>1, <3>1, SetsDo
    <3>. QED
      BY <1>1, <3>1, <3>2 DEF Redrawn
  <2>2. UNCHANGED pages /\ offers'[m] = offers[m] \union {p}
    BY <1>1, <1>3, SetsDo DEF PageOffer
  <2>. QED
    BY <1>1, <1>3, <2>1, <2>2, HeardKeeps DEF PageOffer
<1>4. ASSUME NEW p \in Members, PageConnect(m, p) PROVE CallInv'
  <2>1. Redrawn(m)
    BY <1>1, <1>4, SetsDo DEF PageConnect, Redrawn
  <2>2. pages'[m] = pages[m] \union {p} /\ offers'[m] = offers[m] \ {p}
    BY <1>1, <1>4, SetsDo, SMTT(30) DEF PageConnect
  <2>. QED
    BY <1>1, <1>4, <2>1, <2>2, HeardKeeps DEF PageConnect
<1>5. ASSUME NEW p \in Members, PageRejected(m, p) PROVE CallInv'
  <2>1. Redrawn(m)
    BY <1>1, <1>5, SetsDo DEF PageRejected, Redrawn
  <2>. QED
    BY <1>1, <1>5, <2>1, HeardKeeps DEF PageRejected
<1>6. ASSUME NEW p \in Members, PageEnd(m, p) PROVE CallInv'
  <2>1. Redrawn(m)
    BY <1>1, <1>6, SetsDo DEF PageEnd, Redrawn
  <2>2. pages'[m] = pages[m] \ {p} /\ offers'[m] = offers[m] \ {p}
    BY <1>1, <1>6, SetsDo DEF PageEnd
  <2>. QED
    BY <1>1, <1>6, <2>1, <2>2, HeardKeeps DEF PageEnd
<1>. QED
  BY <1>2, <1>3, <1>4, <1>5, <1>6 DEF Hear

(* SetToSeq leaves nobody out.                                             *)
LEMMA SetToSeqDoes ==
  ASSUME NEW S \in SUBSET Members
  PROVE  /\ SetToSeq(S) \in Seq(S)
         /\ DOMAIN SetToSeq(S) = 1 .. Len(SetToSeq(S))
         /\ \A y \in S : \E i \in DOMAIN SetToSeq(S) : SetToSeq(S)[i] = y
<1>1. IsFiniteSet(S)
  <2>1. IsFiniteSet(Members)
    BY FS_Interval, PagingAssumption DEF Members, PagingAssumption
  <2>. QED
    BY <2>1, FS_Subset
<1>. DEFINE n == Cardinality(S)
            f == SetToSeq(S)
<1>2. n \in Nat /\ (\E g : g \in Bijection(1 .. n, S))
  BY <1>1, FS_CardinalityType DEF ExistsBijection
<1>3. f \in [1 .. n -> S] /\ IsInjective(f)
  <2>1. PICK g : g \in Bijection(1 .. n, S)
    BY <1>2
  <2>2. g \in [1 .. n -> S] /\ IsInjective(g)
    BY <2>1 DEF Bijection, Injection
  <2>. QED
    BY <2>2 DEF SetToSeq
<1>. HIDE DEF f
<1>. DEFINE R == {f[i] : i \in 1 .. n}
<1>4. R \in SUBSET S
  BY <1>3
<1>5. f \in Bijection(1 .. n, R)
  <2>1. f \in [1 .. n -> R] /\ (\A t \in R : \E i \in 1 .. n : f[i] = t)
    BY <1>3
  <2>2. \A a, b \in 1 .. n : f[a] = f[b] => a = b
    BY <1>3 DEF IsInjective
  <2>. HIDE DEF R
  <2>. QED
    BY <2>1, <2>2, Fun_IsBij
<1>6. R = S
  <2>. HIDE DEF R
  <2>1. ExistsBijection(1 .. n, R)
    BY <1>5 DEF ExistsBijection
  <2>2. Cardinality(R) = n
    BY <1>2, <2>1, FS_CountingElements
  <2>. QED
    BY <1>1, <1>4, <2>2, FS_Subset
<1>7. f \in Seq(S) /\ DOMAIN f = 1 .. n /\ Len(f) = n
  BY <1>2, <1>3, SeqDef, LenProperties
<1>. QED
  BY <1>6, <1>7 DEF f

(* Requests made: everything still coming is, and these are too.           *)
LEMMA RequestsDo ==
  ASSUME Typed, NEW m \in Members, NEW sends \in Seq(Msgs), Requests(m, sends)
  PROVE  /\ UNCHANGED pagingVars /\ UNCHANGED events
         /\ events' \in [Members -> Seq(Msgs)] /\ requests' \in [Members -> Seq(Msgs)]
         /\ \A x \in Members \ {m} : UNCHANGED <<events[x], requests[x]>>
         /\ \A y : Coming(requests[m], "end", y) \/ Coming(sends, "end", y)
                     => Coming(requests'[m], "end", y)
<1>1. requests[m] \in Seq(Msgs) /\ requests' = [requests EXCEPT ![m] = @ \o sends]
  BY DEF Requests, Typed
<1>2. requests[m] \o sends \in Seq(Msgs)
  BY <1>1, ConcatProperties
<1>3. \A y : Coming(requests[m], "end", y) \/ Coming(sends, "end", y)
               => Coming(requests[m] \o sends, "end", y)
  BY <1>1, ComingConcat
<1>4. /\ requests' \in [Members -> Seq(Msgs)] /\ requests'[m] = requests[m] \o sends
      /\ \A x \in Members \ {m} : requests'[x] = requests[x]
  BY <1>1, <1>2 DEF Typed
<1>5. UNCHANGED pagingVars /\ UNCHANGED events
  BY DEF Requests
<1>. QED
  BY <1>3, <1>4, <1>5 DEF Typed

(* Whoever is taken off m's screen by m is also asked to end it.           *)
LEMMA AskedKeeps ==
  ASSUME CallInv, PageInv', NEW m \in Members, NEW sends \in Seq(Msgs), Requests(m, sends),
         Redrawn(m),
         \A y \in pages[m] : y \in pages'[m] \/ Coming(sends, "end", y),
         \A y \in offers[m] : y \in offers'[m] \/ Coming(sends, "end", y)
  PROVE  CallInv'
<1>1. /\ UNCHANGED pagingVars /\ UNCHANGED events
      /\ events' \in [Members -> Seq(Msgs)] /\ requests' \in [Members -> Seq(Msgs)]
      /\ \A x \in Members \ {m} : UNCHANGED <<events[x], requests[x]>>
      /\ \A y : Coming(requests[m], "end", y) \/ Coming(sends, "end", y)
                  => Coming(requests'[m], "end", y)
  BY RequestsDo DEF CallInv
<1>2. ASSUME NEW y \in Members, CallStays(m, y) PROVE CallStays(m, y)'
  <2>1. CASE Coming(requests'[m], "end", y)
    BY <2>1 DEF CallStays
  <2>2. CASE ~Coming(requests'[m], "end", y)
    <3>1. y \in pages[m] => y \in pages'[m]
      BY <1>1, <2>2
    <3>2. Stays(events[m], y \in pages[m], "connect", {"end"}, y)
      BY <1>1, <1>2, <2>2 DEF CallStays
    <3>3. Stays(events[m], y \in pages'[m], "connect", {"end"}, y)
      BY <3>1, <3>2 DEF Stays
    <3>. QED
      BY <1>1, <3>3 DEF CallStays
  <2>. QED
    BY <2>1, <2>2
<1>3. ASSUME NEW y \in Members, OfferStays(m, y) PROVE OfferStays(m, y)'
  <2>1. CASE Coming(requests'[m], "end", y)
    BY <2>1 DEF OfferStays
  <2>2. CASE ~Coming(requests'[m], "end", y)
    <3>1. y \in offers[m] => y \in offers'[m]
      BY <1>1, <2>2
    <3>2. Stays(events[m], y \in offers[m], "offer", {"end", "connect"}, y)
      BY <1>1, <1>3, <2>2 DEF OfferStays
    <3>3. Stays(events[m], y \in offers'[m], "offer", {"end", "connect"}, y)
      BY <3>1, <3>2 DEF Stays
    <3>. QED
      BY <1>1, <3>3 DEF OfferStays
  <2>. QED
    BY <2>1, <2>2
<1>. QED
  BY <1>1, <1>2, <1>3, ClientKeeps

LEMMA HandleKeeps ==
  ASSUME CallInv, PageInv', NEW m \in Members, NEW p \in Members
  PROVE  /\ HandlePage(m, p) => CallInv'
         /\ HandlePageAccept(m, p) => CallInv'
         /\ HandleHangUpRing(m, p) => CallInv'
<1>1. /\ pages \in [Members -> SUBSET Members] /\ calling \in [Members -> SUBSET Members]
      /\ offers \in [Members -> SUBSET Members] /\ banner \in [Members -> Modes]
      /\ BannerTells
  BY DEF CallInv, Typed
<1>2. \A t \in Types : Msg(t, p) \in Msgs /\ <<Msg(t, p)>> \in Seq(Msgs)
  BY SeqDef DEF Msg, Msgs
<1>3. Coming(<<Msg("end", p)>>, "end", p)
  BY DEF Coming
<1>4. {"page", "accept", "end"} \subseteq Types
  BY DEF Types
<1>5. ASSUME HandlePage(m, p) PROVE CallInv'
  <2>1. Redrawn(m)
    <3>1. /\ calling' = Shows(calling, m, p) /\ pages' = pages /\ offers' = offers
          /\ UpdateCallBanner(m) /\ UNCHANGED alert
      BY <1>5 DEF HandlePage
    <3>2. /\ calling' \in [Members -> SUBSET Members]
          /\ \A x \in Members \ {m} : calling'[x] = calling[x]
      BY <1>1, <3>1, SetsDo
    <3>. QED
      BY <1>1, <3>1, <3>2 DEF Redrawn
  <2>2. Requests(m, <<Msg("page", p)>>) /\ UNCHANGED <<pages, offers>>
    BY <1>5 DEF HandlePage
  <2>. QED
    BY <1>2, <1>4, <2>1, <2>2, AskedKeeps
<1>6. ASSUME HandlePageAccept(m, p) PROVE CallInv'
  <2>1. Requests(m, <<Msg("accept", p)>>) /\ UNCHANGED <<pages, calling, offers, alert, banner>>
    BY <1>6 DEF HandlePageAccept, clientVars
  <2>2. Redrawn(m)
    <3>1. Focus(m)' = banner[m]
      BY <1>1, <2>1 DEF BannerTells, Focus
    <3>2. UpdateCallBanner(m)
      BY <1>1, <2>1, <3>1 DEF UpdateCallBanner, SetCall
    <3>. QED
      BY <1>1, <2>1, <3>2 DEF Redrawn
  <2>. QED
    BY <1>2, <1>4, <2>1, <2>2, AskedKeeps
<1>7. ASSUME HandleHangUpRing(m, p) PROVE CallInv'
  <2>1. /\ Requests(m, <<Msg("end", p)>>) /\ UNCHANGED pages
        /\ UpdateCallBanner(m) /\ SyncIncomingAlert(m)
        /\ \/ offers' = Drops(offers, m, p) /\ UNCHANGED calling
           \/ calling' = Drops(calling, m, p) /\ UNCHANGED offers
    BY <1>7 DEF HandleHangUpRing
  <2>2. CASE offers' = Drops(offers, m, p) /\ UNCHANGED calling
    <3>1. /\ offers' \in [Members -> SUBSET Members]
          /\ offers'[m] = offers[m] \ {p}
          /\ \A x \in Members \ {m} : offers'[x] = offers[x]
      BY <1>1, <2>2, SetsDo
    <3>2. Redrawn(m)
      BY <1>1, <2>1, <2>2, <3>1 DEF Redrawn
    <3>3. \A y \in offers[m] : y \in offers'[m] \/ Coming(<<Msg("end", p)>>, "end", y)
      BY <1>3, <3>1
    <3>. QED
      BY <1>2, <1>4, <2>1, <3>2, <3>3, AskedKeeps
  <2>3. CASE calling' = Drops(calling, m, p) /\ UNCHANGED offers
    <3>1. /\ calling' \in [Members -> SUBSET Members]
          /\ \A x \in Members \ {m} : calling'[x] = calling[x]
      BY <1>1, <2>3 DEF Drops
    <3>2. Redrawn(m)
      BY <1>1, <2>1, <2>3, <3>1 DEF Redrawn
    <3>. QED
      BY <1>2, <1>4, <2>1, <2>3, <3>2, AskedKeeps
  <2>. QED
    BY <2>1, <2>2, <2>3
<1>. QED
  BY <1>5, <1>6, <1>7

LEMMA HangUpAllKeeps ==
  ASSUME CallInv, PageInv', NEW m \in Members, HandleHangUpAll(m)
  PROVE  CallInv'
<1>. DEFINE peers == SetToSeq(pages[m])
            sends == [i \in 1 .. Len(peers) |-> Msg("end", peers[i])]
<1>1. /\ pages \in [Members -> SUBSET Members] /\ calling \in [Members -> SUBSET Members]
      /\ offers \in [Members -> SUBSET Members]
  BY DEF CallInv, Typed
<1>2. /\ Requests(m, sends) /\ UNCHANGED <<calling, offers>>
      /\ pages' = [pages EXCEPT ![m] = {}]
      /\ UpdateCallBanner(m) /\ SyncIncomingAlert(m)
  BY DEF HandleHangUpAll
<1>3. /\ peers \in Seq(pages[m]) /\ DOMAIN peers = 1 .. Len(peers) /\ Len(peers) \in Nat
      /\ \A y \in pages[m] : \E i \in DOMAIN peers : peers[i] = y
  <2>1. pages[m] \in SUBSET Members
    BY <1>1
  <2>. QED
    BY <2>1, SetToSeqDoes, LenProperties
<1>. HIDE DEF peers
<1>4. \A i \in 1 .. Len(peers) : peers[i] \in Members
  BY <1>1, <1>3, ElementOfSeq
<1>5. sends \in [1 .. Len(peers) -> Msgs]
  BY <1>4 DEF Msg, Msgs, Types
<1>6. sends \in Seq(Msgs)
  BY <1>3, <1>5, SeqDef
<1>7. \A y \in pages[m] : Coming(sends, "end", y)
  BY <1>3 DEF Coming
<1>8. Redrawn(m)
  BY <1>1, <1>2 DEF Redrawn
<1>. HIDE DEF sends
<1>. QED
  BY <1>2, <1>6, <1>7, <1>8, AskedKeeps

(***************************************************************************)
(* The invariant, and what it is for.                                      *)
(***************************************************************************)
LEMMA CallInvInit == CallInit => CallInv
<1>. SUFFICES ASSUME CallInit PROVE CallInv
  OBVIOUS
<1>1. PageInv
  BY PageInvInit DEF CallInit
<1>2. <<>> \in Seq(Msgs) /\ NoCall \in Modes
  BY SeqDef DEF NoCall, Modes
<1>3. Typed
  BY <1>2 DEF CallInit, Nobody, Typed
<1>4. NothingLost /\ AlertTells /\ BannerTells
  BY DEF CallInit, Init, Nobody, NothingLost, AlertTells, BannerTells, Focus, NoCall
<1>. QED
  BY <1>1, <1>3, <1>4 DEF CallInv

(* To the server every step here is one of its own, or none.               *)
LEMMA StepPages == CallInv /\ [CallNext]_callVars => [Next]_pagingVars
<1>. SUFFICES ASSUME CallInv, [CallNext]_callVars PROVE [Next]_pagingVars
  OBVIOUS
<1>1. timers \subseteq Timers
  BY DEF CallInv, PageInv, TypeOK
<1>2. ASSUME NEW m \in Members, Serve(m) PROVE [Next]_pagingVars
  BY <1>2 DEF Serve, ServePage, ServeAccept, ServeEnd, Next
<1>3. ASSUME NEW m \in Members, Hear(m) PROVE UNCHANGED pagingVars
  BY <1>3 DEF Hear, PageRinging, PageOffer, PageConnect, PageRejected, PageEnd, Hears
<1>4. ASSUME NEW m \in Members, Arrive(m) \/ Depart(m) PROVE Next
  BY <1>4 DEF Arrive, Depart, Next
<1>5. ASSUME NEW m \in Members, HandleHangUpAll(m) PROVE UNCHANGED pagingVars
  BY <1>5 DEF HandleHangUpAll, Requests
<1>6. ASSUME NEW m \in Members, NEW on \in BOOLEAN, Status(m, on) PROVE Next
  BY <1>6 DEF Status, Next
<1>7. ASSUME NEW t \in timers, TimerWakes(t) PROVE Next
  BY <1>1, <1>7 DEF TimerWakes, Next
<1>8. ASSUME NEW m \in Members, NEW p \in Members,
             HandlePage(m, p) \/ HandlePageAccept(m, p) \/ HandleHangUpRing(m, p)
      PROVE  UNCHANGED pagingVars
  BY <1>8 DEF HandlePage, HandlePageAccept, HandleHangUpRing, Requests
<1>9. CASE UNCHANGED callVars
  BY <1>9 DEF callVars
<1>. QED
  BY <1>2, <1>3, <1>4, <1>5, <1>6, <1>7, <1>8, <1>9 DEF CallNext

LEMMA CallInvStep == CallInv /\ [CallNext]_callVars => CallInv'
<1>. SUFFICES ASSUME CallInv, [CallNext]_callVars PROVE CallInv'
  OBVIOUS
<1>1. PageInv'
  BY StepPages, PageInvStep DEF CallInv
<1>2. ASSUME NEW m \in Members, Serve(m) PROVE CallInv'
  BY <1>1, <1>2, ServePageKeeps, ServeAcceptKeeps, ServeEndKeeps DEF Serve
<1>3. ASSUME NEW m \in Members, Arrive(m) PROVE CallInv'
  <2>1. UNCHANGED <<clientVars, events, requests, paging, ringingIn>>
    BY <1>3 DEF Arrive, Join
  <2>2. Announces
    BY <2>1 DEF Announces, CallInv, Typed
  <2>. QED
    BY <1>1, <2>1, <2>2, ServerKeeps
<1>4. ASSUME NEW m \in Members, NEW on \in BOOLEAN, Status(m, on) PROVE CallInv'
  <2>1. UNCHANGED <<clientVars, events, requests, paging, ringingIn>>
    BY <1>4 DEF Status, SetDnd
  <2>2. Announces
    BY <2>1 DEF Announces, CallInv, Typed
  <2>. QED
    BY <1>1, <2>1, <2>2, ServerKeeps
<1>5. CASE UNCHANGED callVars
  <2>1. UNCHANGED <<clientVars, events, requests, paging, ringingIn>>
    BY <1>5 DEF callVars, pagingVars
  <2>2. Announces
    BY <2>1 DEF Announces, CallInv, Typed
  <2>. QED
    BY <1>1, <2>1, <2>2, ServerKeeps
<1>. QED
  BY <1>1, <1>2, <1>3, <1>4, <1>5, HearKeeps, DepartKeeps, HangUpAllKeeps, TimerWakesKeeps,
     HandleKeeps DEF CallNext

(* What will be on the screen is on it, or on its way.                     *)
LEMMA LostHidden == CallInv => ViewSound
  BY DEF CallInv, NothingLost, CallStays, OfferStays, Stays, Coming, ViewSound, NothingHidden

THEOREM CallInvCorrect == CallSpec => []CallInv
  BY CallInvInit, CallInvStep, PTL DEF CallSpec

(* Through every crossing of requests and events, timeouts and departures, *)
(* each call and each offer the server holds for a member is on its screen *)
(* or on its way there or being ended by it; the ringtone and the banner   *)
(* say what the screen's buttons act on.                                   *)
THEOREM ViewSoundCorrect == CallSpec => []ViewSound
  BY CallInvCorrect, LostHidden, PTL

(* The server under the queues is module Paging, step for step.            *)
THEOREM CallServesPaging == CallSpec => SafetySpec
<1>1. CallInit => Init
  BY DEF CallInit
<1>2. CallInv /\ [CallNext]_callVars => [Next]_pagingVars
  BY StepPages
<1>. QED
  BY <1>1, <1>2, CallInvCorrect, PTL DEF CallSpec, SafetySpec
=============================================================================
