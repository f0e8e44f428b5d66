-------------------------- MODULE PeerLinks_proofs --------------------------
(***************************************************************************)
(* Proofs about module PeerLinks, for any number of links, tracks and      *)
(* messages on their way: every signal a client handles came over links    *)
(* the client knows of.                                                    *)
(***************************************************************************)
EXTENDS PeerLinks, SequenceTheorems, TLAPS

Told ==
  [type : {"connect"}, kind : Kinds, id : Nat \ {0}]
    \union [type : {"disconnect"}, kind : Kinds]
    \union Signals

Asks == [type : {"page_end"}] \union [type : {"offer", "answer"}, tracks : Nat, sections : Nat]

Typed ==
  /\ link \in [prox : Nat, page : Nat, opened : Nat]
  /\ pc \in [Sides -> PeerConns \union {None}]
  /\ want \in [Sides -> Nat]
  /\ up \in [Sides -> Seq(Asks)]
  /\ down \in [Sides -> Seq(Told)]
  /\ quit \in [Sides -> Nat]

(* The link of a kind that a client holds, 0 for none.                     *)
HeldBy(e, kind) == IF e = None THEN 0 ELSE e[kind]

Held(c, kind) == HeldBy(pc[c], kind)

(* What WillHold says, of any queue and whatever is held before it.        *)
Gives(queue, held, kind, id, n) ==
  \/ held = id /\ Untold(queue, kind, 0, n)
  \/ \E i \in 1 .. n : Opens(queue[i], kind, id) /\ Untold(queue, kind, i, n)

Signal(m) == m.type \in {"offer", "answer"}

(* Each signal on its way will find its links at the client,               *)
SignalsExplained ==
  \A c \in Sides : \A i \in 1 .. Len(down[c]) :
    Signal(down[c][i]) =>
      /\ down[c][i].over # {}
      /\ \A id \in down[c][i].over \ {quit[c]} :
           \E kind \in Kinds : Gives(down[c], Held(c, kind), kind, id, i - 1)

(* and so would one that were relayed now.                                 *)
LinksTold ==
  \A c \in Sides, kind \in Kinds :
    link[kind] \notin {0, quit[c]} =>
      Gives(down[c], Held(c, kind), kind, link[kind], Len(down[c]))

(* Is id the page that a message opens?                                    *)
OpensPage(m) == m.type = "connect" /\ m.kind = "page"

(* Pages come in the order of their ids: hung up, held, told of, live.     *)
PagesInOrder ==
  \A c \in Sides :
    /\ quit[c] <= link.opened /\ Held(c, "page") <= link.opened
    /\ Held(c, "page") # 0 => quit[c] < Held(c, "page")
    /\ link.page # 0 => quit[c] <= link.page /\ Held(c, "page") <= link.page
    /\ \A i \in 1 .. Len(down[c]) : OpensPage(down[c][i]) =>
         /\ quit[c] < down[c][i].id /\ Held(c, "page") < down[c][i].id
         /\ down[c][i].id <= link.opened
         /\ link.page # 0 => down[c][i].id <= link.page
         /\ \A j \in 1 .. i - 1 : OpensPage(down[c][j]) => down[c][j].id < down[c][i].id

(* An id is that of a page or of a proximity link.                         *)
KindsApart ==
  /\ link.prox <= link.opened /\ link.page <= link.opened
  /\ link.prox # 0 =>
       /\ link.prox # link.page
       /\ \A c \in Sides :
            /\ link.prox # quit[c] /\ link.prox # Held(c, "page")
            /\ \A i \in 1 .. Len(down[c]) : OpensPage(down[c][i]) => link.prox # down[c][i].id

(* A page that was over when a later one was opened carries no signal that *)
(* comes after the later one's connect.                                    *)
Silent(c, id, n) ==
  \A j \in 1 .. Len(down[c]) : j > n /\ Signal(down[c][j]) => id \notin down[c][j].over

OldPagesSilent ==
  \A c \in Sides :
    /\ Held(c, "page") # 0 => Silent(c, quit[c], 0)
    /\ \A i \in 1 .. Len(down[c]) : OpensPage(down[c][i]) =>
         /\ Silent(c, quit[c], i) /\ Silent(c, Held(c, "page"), i)
         /\ \A k \in 1 .. i - 1 : OpensPage(down[c][k]) => Silent(c, down[c][k].id, i)

LinkInv ==
  Typed /\ SignalsExplained /\ LinksTold /\ PagesInOrder /\ KindsApart /\ OldPagesSilent

(***************************************************************************)
(* Queues.                                                                 *)
(***************************************************************************)
LEMMA AppendDoes ==
  ASSUME NEW S, NEW q \in Seq(S), NEW e \in S
  PROVE  /\ Append(q, e) \in Seq(S)
         /\ Len(q) \in Nat /\ Len(Append(q, e)) = Len(q) + 1
         /\ \A i \in 1 .. Len(q) : Append(q, e)[i] = q[i]
         /\ Append(q, e)[Len(q) + 1] = e
BY AppendProperties, LenProperties

LEMMA TailDoes ==
  ASSUME NEW S, NEW q \in Seq(S), q # <<>>
  PROVE  /\ Tail(q) \in Seq(S) /\ Head(q) \in S /\ Head(q) = q[1]
         /\ Len(q) \in Nat \ {0} /\ Len(Tail(q)) = Len(q) - 1
         /\ \A i \in 1 .. Len(q) - 1 : Tail(q)[i] = q[i + 1]
<1>1. /\ Tail(q) \in Seq(S) /\ Len(Tail(q)) = Len(q) - 1
      /\ \A i \in 1 .. Len(Tail(q)) : Tail(q)[i] = q[i + 1]
      /\ Head(q) \in S /\ Head(q) = q[1]
  BY HeadTailProperties
<1>2. Len(q) \in Nat \ {0}
  BY EmptySeq, LenProperties
<1>. QED
  BY <1>1, <1>2

LEMMA ElementsOf ==
  ASSUME NEW S, NEW q \in Seq(S)
  PROVE  Len(q) \in Nat /\ (\A i \in 1 .. Len(q) : q[i] \in S)
BY LenProperties, ElementOfSeq

LEMMA GivesAppend ==
  ASSUME NEW q \in Seq(Told), NEW m \in Told, NEW held, NEW kind, NEW id, NEW n \in 0 .. Len(q),
         Gives(q, held, kind, id, n)
  PROVE  Gives(Append(q, m), held, kind, id, n)
<1>. DEFINE r == Append(q, m)
<1>1. Len(q) \in Nat /\ \A i \in 1 .. Len(q) : r[i] = q[i]
  BY AppendDoes
<1>. HIDE DEF r
<1>2. \A i \in 1 .. n : r[i] = q[i]
  BY <1>1
<1>3. \A from \in Nat : Untold(q, kind, from, n) => Untold(r, kind, from, n)
  BY <1>1, <1>2 DEF Untold
<1>4. Gives(r, held, kind, id, n)
  <2>1. CASE held = id /\ Untold(q, kind, 0, n)
    BY <1>3, <2>1 DEF Gives
  <2>2. ASSUME NEW i \in 1 .. n, Opens(q[i], kind, id), Untold(q, kind, i, n)
        PROVE  Gives(r, held, kind, id, n)
    BY <1>1, <1>2, <1>3, <2>2 DEF Gives
  <2>. QED
    BY <2>1, <2>2 DEF Gives
<1>. QED
  BY <1>4 DEF r

LEMMA GivesNext ==
  ASSUME NEW q \in Seq(Told), NEW m \in Told, NEW held, NEW kind, NEW id,
         \/ Opens(m, kind, id)
         \/ Gives(q, held, kind, id, Len(q)) /\ ~About(m, kind)
  PROVE  Gives(Append(q, m), held, kind, id, Len(q) + 1)
<1>. DEFINE r == Append(q, m)
            n == Len(q)
<1>1. n \in Nat /\ r[n + 1] = m
  BY AppendDoes
<1>2. CASE Opens(m, kind, id)
  <2>. HIDE DEF r, n
  <2>1. Untold(r, kind, n + 1, n + 1)
    BY <1>1 DEF Untold
  <2>2. n + 1 \in 1 .. n + 1
    BY <1>1
  <2>3. Gives(r, held, kind, id, n + 1)
    BY <1>1, <1>2, <2>1, <2>2 DEF Gives
  <2>. QED
    BY <2>3 DEF r, n
<1>3. CASE Gives(q, held, kind, id, n) /\ ~About(m, kind)
  <2>1. Gives(r, held, kind, id, n)
    BY <1>1, <1>3, GivesAppend
  <2>. HIDE DEF r, n
  <2>2. \A from \in 0 .. n : Untold(r, kind, from, n) => Untold(r, kind, from, n + 1)
    <3>. SUFFICES ASSUME NEW from \in 0 .. n, Untold(r, kind, from, n), NEW i \in from + 1 .. n + 1
                  PROVE  ~About(r[i], kind)
      BY DEF Untold
    <3>1. CASE i = n + 1
      BY <1>1, <1>3, <3>1
    <3>2. CASE i # n + 1
      <4>1. i \in from + 1 .. n
        BY <1>1, <3>2
      <4>. QED
        BY <4>1 DEF Untold
    <3>. QED
      BY <3>1, <3>2
  <2>3. CASE held = id /\ Untold(r, kind, 0, n)
    <3>1. 0 \in 0 .. n
      BY <1>1
    <3>2. Gives(r, held, kind, id, n + 1)
      BY <2>2, <2>3, <3>1 DEF Gives
    <3>. QED
      BY <3>2 DEF r, n
  <2>4. ASSUME NEW i \in 1 .. n, Opens(r[i], kind, id), Untold(r, kind, i, n)
        PROVE  Gives(r, held, kind, id, n + 1)
    <3>1. i \in 0 .. n /\ i \in 1 .. n + 1
      BY <1>1
    <3>. QED
      BY <2>2, <2>4, <3>1 DEF Gives
  <2>. QED
    BY <2>1, <2>3, <2>4 DEF Gives, r, n
<1>. QED
  BY <1>2, <1>3

LEMMA GivesTail ==
  ASSUME NEW q \in Seq(Told), q # <<>>, NEW held, NEW kind, NEW id, NEW n \in 1 .. Len(q),
         Gives(q, held, kind, id, n), NEW now,
         Opens(Head(q), kind, id) => now = id,
         held = id /\ ~About(Head(q), kind) => now = id
  PROVE  Gives(Tail(q), now, kind, id, n - 1)
<1>. DEFINE r == Tail(q)
<1>1. /\ Len(q) \in Nat \ {0} /\ Head(q) = q[1]
      /\ \A i \in 1 .. Len(q) - 1 : r[i] = q[i + 1]
  BY TailDoes
<1>. HIDE DEF r
<1>2. ASSUME NEW from \in 1 .. n, Untold(q, kind, from, n)
      PROVE  Untold(r, kind, from - 1, n - 1)
  <2>. SUFFICES ASSUME NEW i \in (from - 1) + 1 .. n - 1 PROVE ~About(r[i], kind)
    BY DEF Untold
  <2>1. i + 1 \in from + 1 .. n /\ r[i] = q[i + 1]
    BY <1>1
  <2>. QED
    BY <1>2, <2>1 DEF Untold
<1>3. CASE held = id /\ Untold(q, kind, 0, n)
  <2>1. ~About(q[1], kind)
    BY <1>3 DEF Untold
  <2>2. Untold(q, kind, 1, n)
    BY <1>3 DEF Untold
  <2>3. Untold(r, kind, 1 - 1, n - 1)
    BY <1>2, <2>2
  <2>. QED
    BY <1>1, <1>3, <2>1, <2>3 DEF Gives, r
<1>4. ASSUME NEW i \in 1 .. n, Opens(q[i], kind, id), Untold(q, kind, i, n)
      PROVE  Gives(r, now, kind, id, n - 1)
  <2>1. Untold(r, kind, i - 1, n - 1)
    BY <1>2, <1>4
  <2>2. CASE i = 1
    BY <1>1, <1>4, <2>1, <2>2 DEF Gives
  <2>3. CASE i # 1
    <3>1. i - 1 \in 1 .. n - 1 /\ r[i - 1] = q[(i - 1) + 1] /\ (i - 1) + 1 = i
      BY <1>1, <2>3
    <3>. QED
      BY <1>4, <2>1, <3>1 DEF Gives
  <2>. QED
    BY <2>2, <2>3
<1>. QED
  BY <1>3, <1>4 DEF Gives, r

LEMMA GivesHeld ==
  ASSUME NEW q, NEW held, NEW kind, NEW id, NEW n, Gives(q, held, kind, id, n),
         NEW now, held = id => now = id
  PROVE  Gives(q, now, kind, id, n)
BY DEF Gives

(***************************************************************************)
(* The server's steps: links opened and closed, and what is queued of it.  *)
(***************************************************************************)
Fits(m) ==
  /\ Signal(m) => m.over = LinksOf(link) /\ m.over # {}
  /\ m.type = "connect" =>
       m.id = link.opened + 1 /\ link'[m.kind] = m.id /\ link'.opened = link.opened + 1
  /\ m.type = "disconnect" => link'[m.kind] = 0

Queues(c, m) == down'[c] = Append(down[c], m)

News ==
  /\ quit' = quit /\ (\A c \in Sides, kind \in Kinds : Held(c, kind)' = Held(c, kind))
  /\ link'.opened \in {link.opened, link.opened + 1}
  /\ \A kind \in Kinds :
       \/ link'[kind] \in {0, link[kind]}
       \/ /\ link'[kind] = link.opened + 1 /\ link'.opened = link.opened + 1
          /\ \A c \in Sides : \E m \in Told : Queues(c, m) /\ Opens(m, kind, link'[kind])
  /\ link'.prox = 0 \/ link'.prox # link'.page
  /\ \A c \in Sides : down'[c] = down[c] \/ (\E m \in Told : Queues(c, m) /\ Fits(m))

(* A link the server has now is none of a client's old pages.              *)
LEMMA OldPageIsOver ==
  ASSUME LinkInv, NEW c \in Sides, NEW id \in Nat,
         \/ id = quit[c] /\ Held(c, "page") # 0
         \/ \E i \in 1 .. Len(down[c]) :
              /\ OpensPage(down[c][i])
              /\ \/ id \in {quit[c], Held(c, "page")}
                 \/ \E k \in 1 .. i - 1 : OpensPage(down[c][k]) /\ id = down[c][k].id
  PROVE  id \notin LinksOf(link)
<1>1. /\ link.prox \in Nat /\ link.page \in Nat /\ quit[c] \in Nat
      /\ LinksOf(link) = {link.prox, link.page} \ {0}
  BY DEF LinkInv, Typed, LinksOf, Kinds
<1>2. Held(c, "page") \in Nat
  BY DEF LinkInv, Typed, Held, HeldBy, PeerConns
<1>3. \A i \in 1 .. Len(down[c]) : OpensPage(down[c][i]) => down[c][i].id \in Nat
  <2>. SUFFICES ASSUME NEW i \in 1 .. Len(down[c]), OpensPage(down[c][i]) PROVE down[c][i].id \in Nat
    OBVIOUS
  <2>1. down[c] \in Seq(Told)
    BY DEF LinkInv, Typed
  <2>2. down[c][i] \in Told
    BY <2>1, ElementsOf
  <2>. QED
    BY <2>2 DEF OpensPage, Told, Signals
<1>4. Len(down[c]) \in Nat
  <2>1. down[c] \in Seq(Told)
    BY DEF LinkInv, Typed
  <2>. QED
    BY <2>1, LenProperties
<1>5. CASE id = quit[c] /\ Held(c, "page") # 0
  BY <1>1, <1>2, <1>5 DEF LinkInv, PagesInOrder, KindsApart
<1>6. ASSUME NEW i \in 1 .. Len(down[c]), OpensPage(down[c][i]), id \in {quit[c], Held(c, "page")}
      PROVE  id \notin LinksOf(link)
  <2>1. id < down[c][i].id /\ (link.page # 0 => down[c][i].id <= link.page)
    BY <1>6 DEF LinkInv, PagesInOrder
  <2>2. link.prox # 0 => id # link.prox
    BY <1>6 DEF LinkInv, KindsApart
  <2>. QED
    BY <1>1, <1>3, <1>6, <2>1, <2>2
<1>7. ASSUME NEW i \in 1 .. Len(down[c]), OpensPage(down[c][i]),
             NEW k \in 1 .. i - 1, OpensPage(down[c][k]), id = down[c][k].id
      PROVE  id \notin LinksOf(link)
  <2>1. id < down[c][i].id /\ (link.page # 0 => down[c][i].id <= link.page)
    BY <1>7 DEF LinkInv, PagesInOrder
  <2>2. link.prox # 0 => id # link.prox
    <3>1. k \in 1 .. Len(down[c])
      BY <1>4
    <3>. QED
      BY <1>7, <3>1 DEF LinkInv, KindsApart
  <2>. QED
    BY <1>1, <1>3, <1>7, <2>1, <2>2, SMTT(30)
<1>. QED
  BY <1>5, <1>6, <1>7

LEMMA NewsKeeps ==
  ASSUME LinkInv, Typed', News
  PROVE  LinkInv'
<1>1. /\ link \in [prox : Nat, page : Nat, opened : Nat]
      /\ link' \in [prox : Nat, page : Nat, opened : Nat]
      /\ quit' = quit /\ quit \in [Sides -> Nat]
      /\ \A c \in Sides : down[c] \in Seq(Told) /\ down'[c] \in Seq(Told)
  BY DEF LinkInv, Typed, News
<1>2. \A c \in Sides, kind \in Kinds : Held(c, kind) \in Nat /\ Held(c, kind)' = Held(c, kind)
  BY DEF LinkInv, Typed, Held, HeldBy, PeerConns, Kinds, News
(* The queues: what was there, and at most one message more.               *)
<1>3. ASSUME NEW c \in Sides
      PROVE  /\ Len(down[c]) \in Nat /\ Len(down'[c]) \in {Len(down[c]), Len(down[c]) + 1}
             /\ \A i \in 1 .. Len(down[c]) : down'[c][i] = down[c][i] /\ down[c][i] \in Told
             /\ Len(down'[c]) = Len(down[c]) + 1 =>
                  /\ down'[c][Len(down[c]) + 1] \in Told
                  /\ Fits(down'[c][Len(down[c]) + 1])
                  /\ down'[c] = Append(down[c], down'[c][Len(down[c]) + 1])
  <2>1. Len(down[c]) \in Nat /\ (\A i \in 1 .. Len(down[c]) : down[c][i] \in Told)
    BY <1>1, ElementsOf
  <2>2. CASE down'[c] = down[c]
    BY <2>1, <2>2
  <2>3. ASSUME NEW m \in Told, Queues(c, m), Fits(m)
        PROVE  /\ Len(down'[c]) = Len(down[c]) + 1
               /\ down'[c] = Append(down[c], m)
               /\ down'[c][Len(down[c]) + 1] = m
               /\ \A i \in 1 .. Len(down[c]) : down'[c][i] = down[c][i]
    <3>1. down'[c] = Append(down[c], m)
      BY <2>3 DEF Queues
    <3>. QED
      BY <1>1, <3>1, AppendDoes
  <2>. QED
    BY <2>1, <2>2, <2>3 DEF News
<1>4. \A m \in Told : /\ m.type = "connect" => m.id \in Nat \ {0} /\ m.kind \in Kinds
                      /\ m.type = "disconnect" => m.kind \in Kinds
                      /\ Signal(m) => m.over \subseteq Nat \ {0}
  BY DEF Told, Signal, Signals
<1>5. SignalsExplained'
  <2>. SUFFICES ASSUME NEW c \in Sides, NEW i \in 1 .. Len(down'[c]), Signal(down'[c][i])
                PROVE  /\ down'[c][i].over # {}
                       /\ \A id \in down'[c][i].over \ {quit[c]} :
                            \E kind \in Kinds : Gives(down'[c], Held(c, kind), kind, id, i - 1)
    BY <1>1, <1>2 DEF SignalsExplained
  <2>1. ASSUME NEW id, NEW kind, NEW n \in 0 .. Len(down[c]), Gives(down[c], Held(c, kind), kind, id, n)
        PROVE  Gives(down'[c], Held(c, kind), kind, id, n)
    <3>1. CASE down'[c] = down[c]
      BY <2>1, <3>1
    <3>2. ASSUME NEW m \in Told, Queues(c, m) PROVE Gives(down'[c], Held(c, kind), kind, id, n)
      BY <1>1, <2>1, <3>2, GivesAppend DEF Queues
    <3>. QED
      BY <3>1, <3>2 DEF News
  <2>2. CASE i \in 1 .. Len(down[c])
    <3>1. down'[c][i] = down[c][i] /\ i - 1 \in 0 .. Len(down[c])
      BY <1>3, <2>2
    <3>. QED
      BY <2>1, <2>2, <3>1 DEF LinkInv, SignalsExplained
  <2>3. CASE i \notin 1 .. Len(down[c])
    <3>1. i = Len(down[c]) + 1 /\ Len(down'[c]) = Len(down[c]) + 1
      BY <1>3, <2>3
    <3>2. down'[c][i].over = LinksOf(link) /\ down'[c][i].over # {}
      BY <1>3, <3>1 DEF Fits
    <3>3. ASSUME NEW id \in LinksOf(link) \ {quit[c]}
          PROVE  \E kind \in Kinds : Gives(down'[c], Held(c, kind), kind, id, i - 1)
      <4>1. PICK kind \in Kinds : id = link[kind] /\ link[kind] \notin {0, quit[c]}
        BY <3>3 DEF LinksOf
      <4>2. Gives(down[c], Held(c, kind), kind, id, Len(down[c]))
        BY <4>1 DEF LinkInv, LinksTold
      <4>3. Len(down[c]) \in 0 .. Len(down[c]) /\ i - 1 = Len(down[c])
        BY <1>3, <3>1
      <4>. QED
        BY <2>1, <4>2, <4>3
    <3>. QED
      BY <3>2, <3>3
  <2>. QED
    BY <2>2, <2>3
<1>6. LinksTold'
  <2>. SUFFICES ASSUME NEW c \in Sides, NEW kind \in Kinds, link'[kind] \notin {0, quit[c]}
                PROVE  Gives(down'[c], Held(c, kind), kind, link'[kind], Len(down'[c]))
    BY <1>1, <1>2 DEF LinksTold
  <2>1. ASSUME NEW m \in Told, Queues(c, m), Opens(m, kind, link'[kind])
        PROVE  Gives(down'[c], Held(c, kind), kind, link'[kind], Len(down'[c]))
    <3>1. /\ down'[c] = Append(down[c], m) /\ Len(down'[c]) = Len(down[c]) + 1
          /\ down[c] \in Seq(Told)
      BY <1>1, <2>1, AppendDoes DEF Queues
    <3>. QED
      BY <2>1, <3>1, GivesNext
  <2>2. CASE link'[kind] = link[kind]
    <3>1. Gives(down[c], Held(c, kind), kind, link'[kind], Len(down[c]))
      BY <2>2 DEF LinkInv, LinksTold
    <3>2. CASE down'[c] = down[c]
      BY <3>1, <3>2
    <3>3. ASSUME NEW m \in Told, Queues(c, m), Fits(m)
          PROVE  Gives(down'[c], Held(c, kind), kind, link'[kind], Len(down'[c]))
      <4>1. CASE About(m, kind)
        <5>1. Opens(m, kind, link'[kind])
          BY <3>3, <4>1 DEF About, Fits, Opens
        <5>. QED
          BY <2>1, <3>3, <5>1
      <4>2. CASE ~About(m, kind)
        <5>1. /\ down'[c] = Append(down[c], m) /\ Len(down'[c]) = Len(down[c]) + 1
              /\ down[c] \in Seq(Told)
          BY <1>1, <3>3, AppendDoes DEF Queues
        <5>. QED
          BY <3>1, <4>2, <5>1, GivesNext
      <4>. QED
        BY <4>1, <4>2
    <3>. QED
      BY <3>2, <3>3 DEF News
  <2>3. CASE link'[kind] # link[kind]
    BY <2>1, <2>3 DEF News
  <2>. QED
    BY <2>2, <2>3
(* The ids of pages only grow.                                             *)
<1>7. /\ link.prox <= link.opened /\ link.page <= link.opened /\ link.opened <= link'.opened
      /\ \A kind \in Kinds : \/ link'[kind] \in {0, link[kind]}
                             \/ link'[kind] = link.opened + 1 /\ link'.opened = link.opened + 1
  BY <1>1 DEF LinkInv, KindsApart, News
<1>8. ASSUME NEW c \in Sides, NEW i \in 1 .. Len(down'[c]), OpensPage(down'[c][i])
      PROVE  \/ i \in 1 .. Len(down[c]) /\ OpensPage(down[c][i]) /\ down'[c][i] = down[c][i]
             \/ /\ i = Len(down[c]) + 1 /\ down'[c][i].id = link.opened + 1
                /\ link'.page = link.opened + 1 /\ link'.opened = link.opened + 1
  BY <1>3, <1>8 DEF OpensPage, Fits
<1>9. PagesInOrder'
  <2>. SUFFICES ASSUME NEW c \in Sides
                PROVE  /\ quit[c] <= link'.opened /\ Held(c, "page") <= link'.opened
                       /\ Held(c, "page") # 0 => quit[c] < Held(c, "page")
                       /\ link'.page # 0 => quit[c] <= link'.page /\ Held(c, "page") <= link'.page
                       /\ \A i \in 1 .. Len(down'[c]) : OpensPage(down'[c][i]) =>
                            /\ quit[c] < down'[c][i].id /\ Held(c, "page") < down'[c][i].id
                            /\ down'[c][i].id <= link'.opened
                            /\ link'.page # 0 => down'[c][i].id <= link'.page
                            /\ \A j \in 1 .. i - 1 :
                                 OpensPage(down'[c][j]) => down'[c][j].id < down'[c][i].id
    BY <1>1, <1>2 DEF PagesInOrder, Kinds
  <2>1. /\ quit[c] \in Nat /\ Held(c, "page") \in Nat /\ link.page \in Nat /\ link'.page \in Nat
        /\ link.opened \in Nat /\ link'.opened \in Nat
        /\ link'.page \in {0, link.page} \/ link'.page = link.opened + 1
    BY <1>1, <1>2, <1>7 DEF Kinds
  <2>2. /\ quit[c] <= link.opened /\ Held(c, "page") <= link.opened
        /\ Held(c, "page") # 0 => quit[c] < Held(c, "page")
        /\ link.page # 0 => quit[c] <= link.page /\ Held(c, "page") <= link.page
    BY DEF LinkInv, PagesInOrder
  <2>3. /\ quit[c] <= link'.opened /\ Held(c, "page") <= link'.opened
        /\ link'.page # 0 => quit[c] <= link'.page /\ Held(c, "page") <= link'.page
    BY <1>7, <2>1, <2>2
  <2>4. ASSUME NEW i \in 1 .. Len(down'[c]), OpensPage(down'[c][i])
        PROVE  /\ quit[c] < down'[c][i].id /\ Held(c, "page") < down'[c][i].id
               /\ down'[c][i].id <= link'.opened
               /\ link'.page # 0 => down'[c][i].id <= link'.page
               /\ \A j \in 1 .. i - 1 : OpensPage(down'[c][j]) => down'[c][j].id < down'[c][i].id
    <3>1. CASE i \in 1 .. Len(down[c]) /\ OpensPage(down[c][i]) /\ down'[c][i] = down[c][i]
      <4>1. /\ quit[c] < down[c][i].id /\ Held(c, "page") < down[c][i].id
            /\ down[c][i].id <= link.opened /\ down[c][i].id \in Nat
            /\ link.page # 0 => down[c][i].id <= link.page
            /\ \A j \in 1 .. i - 1 : OpensPage(down[c][j]) => down[c][j].id < down[c][i].id
        BY <1>3, <1>4, <3>1 DEF LinkInv, PagesInOrder, OpensPage
      <4>2. \A j \in 1 .. i - 1 : down'[c][j] = down[c][j]
        BY <1>3, <3>1
      <4>3. down'[c][i].id <= link'.opened
        BY <1>7, <2>1, <3>1, <4>1
      <4>4. link'.page # 0 => down'[c][i].id <= link'.page
        BY <2>1, <3>1, <4>1
      <4>5. \A j \in 1 .. i - 1 : OpensPage(down'[c][j]) => down'[c][j].id < down'[c][i].id
        BY <3>1, <4>1, <4>2
      <4>. QED
        BY <3>1, <4>1, <4>3, <4>4, <4>5
    <3>2. CASE /\ i = Len(down[c]) + 1 /\ down'[c][i].id = link.opened + 1
               /\ link'.page = link.opened + 1 /\ link'.opened = link.opened + 1
      <4>1. ASSUME NEW j \in 1 .. i - 1, OpensPage(down'[c][j])
            PROVE  down'[c][j].id < down'[c][i].id
        <5>1. j \in 1 .. Len(down[c]) /\ down'[c][j] = down[c][j]
          BY <1>3, <3>2
        <5>2. down[c][j].id <= link.opened /\ down[c][j].id \in Nat
          BY <1>3, <1>4, <4>1, <5>1 DEF LinkInv, PagesInOrder, OpensPage
        <5>. QED
          BY <2>1, <3>2, <5>1, <5>2, SMTT(30)
      <4>. QED
        BY <2>1, <2>2, <3>2, <4>1
    <3>. QED
      BY <1>8, <2>4, <3>1, <3>2
  <2>. QED
    BY <2>2, <2>3, <2>4
<1>10. KindsApart'
  <2>1. /\ link'.prox <= link'.opened /\ link'.page <= link'.opened
        /\ link'.prox # 0 => link'.prox # link'.page
    BY <1>1, <1>7 DEF Kinds, News
  <2>2. ASSUME link'.prox # 0, NEW c \in Sides
        PROVE  /\ link'.prox # quit[c] /\ link'.prox # Held(c, "page")
               /\ \A i \in 1 .. Len(down'[c]) :
                    OpensPage(down'[c][i]) => link'.prox # down'[c][i].id
    <3>1. link'.prox = link.prox \/ link'.prox = link.opened + 1
      BY <1>7, <2>2 DEF Kinds
    <3>2. /\ quit[c] \in Nat /\ Held(c, "page") \in Nat /\ link.opened \in Nat
          /\ quit[c] <= link.opened /\ Held(c, "page") <= link.opened
      BY <1>1, <1>2 DEF LinkInv, PagesInOrder, Kinds
    <3>3. link'.prox # quit[c] /\ link'.prox # Held(c, "page")
      BY <2>2, <3>1, <3>2 DEF LinkInv, KindsApart
    <3>4. ASSUME NEW i \in 1 .. Len(down'[c]), OpensPage(down'[c][i])
          PROVE  link'.prox # down'[c][i].id
      <4>1. CASE i \in 1 .. Len(down[c]) /\ OpensPage(down[c][i]) /\ down'[c][i] = down[c][i]
        <5>1. down[c][i].id <= link.opened /\ down[c][i].id \in Nat
          BY <1>3, <1>4, <4>1 DEF LinkInv, PagesInOrder, OpensPage
        <5>2. link.prox # 0 => link.prox # down[c][i].id
          BY <4>1 DEF LinkInv, KindsApart
        <5>. QED
          BY <2>2, <3>1, <3>2, <4>1, <5>1, <5>2
      <4>2. CASE link'.page = link.opened + 1 /\ down'[c][i].id = link.opened + 1
        BY <2>1, <2>2, <4>2
      <4>. QED
        BY <1>8, <3>4, <4>1, <4>2
    <3>. QED
      BY <3>3, <3>4
  <2>. QED
    BY <1>1, <1>2, <2>1, <2>2 DEF KindsApart, Kinds
<1>11. OldPagesSilent'
  <2>1. ASSUME NEW c \in Sides, NEW id \in Nat, NEW n \in Nat, Silent(c, id, n), id \notin LinksOf(link)
        PROVE  Silent(c, id, n)'
    <3>. SUFFICES ASSUME NEW j \in 1 .. Len(down'[c]), j > n, Signal(down'[c][j])
                  PROVE  id \notin down'[c][j].over
      BY DEF Silent
    <3>1. CASE j \in 1 .. Len(down[c])
      BY <1>3, <2>1, <3>1 DEF Silent
    <3>2. CASE j \notin 1 .. Len(down[c])
      <4>1. j = Len(down[c]) + 1 /\ Len(down'[c]) = Len(down[c]) + 1
        BY <1>3, <3>2
      <4>2. down'[c][j].over = LinksOf(link)
        BY <1>3, <4>1 DEF Fits
      <4>. QED
        BY <2>1, <4>2
    <3>. QED
      BY <3>1, <3>2
  <2>2. ASSUME NEW c \in Sides, NEW id, NEW n \in Nat, n >= Len(down'[c])
        PROVE  Silent(c, id, n)'
    <3>1. Len(down'[c]) \in Nat
      BY <1>3
    <3>. QED
      BY <2>2, <3>1 DEF Silent
  <2>3. ASSUME NEW c \in Sides, Held(c, "page") # 0
        PROVE  Silent(c, quit[c], 0)'
    <3>1. quit[c] \in Nat /\ quit[c] \notin LinksOf(link)
      BY <1>1, <2>3, OldPageIsOver
    <3>2. Silent(c, quit[c], 0)
      BY <2>3 DEF LinkInv, OldPagesSilent
    <3>3. quit[c] = quit'[c]
      BY <1>1
    <3>4. \A j \in 1 .. Len(down'[c]) :
            j > 0 /\ Signal(down'[c][j]) => quit[c] \notin down'[c][j].over
      BY <2>1, <3>1, <3>2 DEF Silent
    <3>. QED
      BY <3>3, <3>4 DEF Silent
  <2>4. ASSUME NEW c \in Sides, NEW i \in 1 .. Len(down'[c]), OpensPage(down'[c][i])
        PROVE  /\ Silent(c, quit[c], i)' /\ Silent(c, Held(c, "page"), i)'
               /\ \A k \in 1 .. i - 1 : OpensPage(down'[c][k]) => Silent(c, down[c][k].id, i)'
    <3>1. CASE i = Len(down[c]) + 1
      <4>1. i \in Nat /\ i >= Len(down'[c])
        BY <1>3, <3>1
      <4>. QED
        BY <2>2, <4>1
    <3>2. CASE i \in 1 .. Len(down[c]) /\ OpensPage(down[c][i])
      <4>1. ASSUME NEW id \in Nat, Silent(c, id, i), id \notin LinksOf(link)
            PROVE  Silent(c, id, i)'
        BY <2>1, <3>2, <4>1
      <4>2. Silent(c, quit[c], i) /\ Silent(c, Held(c, "page"), i)
        BY <3>2 DEF LinkInv, OldPagesSilent
      <4>3. quit[c] \in Nat /\ quit'[c] = quit[c] /\ Held(c, "page") \in Nat
            /\ Held(c, "page")' = Held(c, "page")
        BY <1>1, <1>2 DEF Kinds
      <4>4. quit[c] \notin LinksOf(link) /\ Held(c, "page") \notin LinksOf(link)
        BY <3>2, <4>3, OldPageIsOver
      <4>5. Silent(c, quit[c], i)' /\ Silent(c, Held(c, "page"), i)'
        <5>1. ASSUME NEW id \in Nat, Silent(c, id, i), id \notin LinksOf(link)
              PROVE  \A j \in 1 .. Len(down'[c]) : j > i /\ Signal(down'[c][j]) => id \notin down'[c][j].over
          BY <4>1, <5>1 DEF Silent
        <5>2. \A j \in 1 .. Len(down'[c]) : j > i /\ Signal(down'[c][j]) => quit'[c] \notin down'[c][j].over
          BY <4>2, <4>3, <4>4, <5>1
        <5>3. \A j \in 1 .. Len(down'[c]) :
                j > i /\ Signal(down'[c][j]) => Held(c, "page")' \notin down'[c][j].over
          BY <4>2, <4>3, <4>4, <5>1
        <5>. QED
          BY <5>2, <5>3 DEF Silent
      <4>6. ASSUME NEW k \in 1 .. i - 1, OpensPage(down'[c][k])
            PROVE  Silent(c, down[c][k].id, i)'
        <5>1. k \in 1 .. Len(down[c]) /\ down'[c][k] = down[c][k] /\ OpensPage(down[c][k])
          BY <1>3, <3>2, <4>6
        <5>2. down[c][k].id \in Nat
          BY <1>3, <1>4, <5>1 DEF OpensPage
        <5>3. Silent(c, down[c][k].id, i)
          BY <3>2, <5>1 DEF LinkInv, OldPagesSilent
        <5>4. down[c][k].id \notin LinksOf(link)
          BY <3>2, <5>1, <5>2, OldPageIsOver
        <5>5. \A j \in 1 .. Len(down'[c]) :
                j > i /\ Signal(down'[c][j]) => down[c][k].id \notin down'[c][j].over
          BY <4>1, <5>2, <5>3, <5>4 DEF Silent
        <5>. QED
          BY <5>1, <5>5 DEF Silent
      <4>. QED
        BY <4>5, <4>6
    <3>. QED
      BY <1>8, <2>4, <3>1, <3>2
  <2>5. \A c \in Sides : Held(c, "page")' # 0 => Held(c, "page") # 0
    BY <1>2 DEF Kinds
  <2>. QED
    BY <2>3, <2>4, <2>5 DEF OldPagesSilent
<1>. QED
  BY <1>5, <1>6, <1>9, <1>10, <1>11 DEF LinkInv

(***************************************************************************)
(* What a client holds after it has handled a message, or hung up.         *)
(***************************************************************************)
LEMMA ConnectHolds ==
  ASSUME NEW e \in PeerConns \union {None}, NEW m \in [type : {"connect"}, kind : Kinds, id : Nat \ {0}]
  PROVE  /\ Connect(e, m) \in PeerConns
         /\ HeldBy(Connect(e, m), m.kind) = m.id
         /\ \A kind \in Kinds \ {m.kind} : HeldBy(Connect(e, m), kind) = HeldBy(e, kind)
<1>. DEFINE base == IF e = None THEN EnsurePeer ELSE e
<1>1. base \in PeerConns /\ \A kind \in Kinds : base[kind] = HeldBy(e, kind)
  <2>1. EnsurePeer \in PeerConns /\ EnsurePeer.prox = 0 /\ EnsurePeer.page = 0
    BY DEF EnsurePeer, PeerConns
  <2>. QED
    BY <2>1 DEF HeldBy, Kinds
<1>2. Connect(e, m) = [base EXCEPT ![m.kind] = m.id]
  BY DEF Connect
<1>. HIDE DEF base
<1>3. m.kind \in {"prox", "page"} /\ m.id \in Nat
  BY DEF Kinds
<1>4. CASE m.kind = "prox"
  BY <1>1, <1>2, <1>3, <1>4, PeerLinksAssumption DEF PeerConns, HeldBy, Kinds
<1>5. CASE m.kind = "page"
  BY <1>1, <1>2, <1>3, <1>5, PeerLinksAssumption DEF PeerConns, HeldBy, Kinds
<1>. QED
  BY <1>3, <1>4, <1>5

LEMMA DisconnectHolds ==
  ASSUME NEW e \in PeerConns \union {None}, NEW gone \in Kinds
  PROVE  /\ Disconnect(e, gone) \in PeerConns \union {None}
         /\ HeldBy(Disconnect(e, gone), gone) = 0
         /\ \A kind \in Kinds \ {gone} : HeldBy(Disconnect(e, gone), kind) = HeldBy(e, kind)
<1>1. CASE e = None
  BY <1>1 DEF Disconnect, HeldBy
<1>2. CASE e # None
  <2>. DEFINE left == [e EXCEPT ![gone] = 0]
  <2>1. e \in PeerConns
    BY <1>2
  <2>2. left \in PeerConns /\ left[gone] = 0 /\ \A kind \in Kinds \ {gone} : left[kind] = e[kind]
    <3>1. gone \in {"prox", "page"}
      BY DEF Kinds
    <3>2. CASE gone = "prox"
      BY <2>1, <3>2 DEF PeerConns, Kinds
    <3>3. CASE gone = "page"
      BY <2>1, <3>3 DEF PeerConns, Kinds
    <3>. QED
      BY <3>1, <3>2, <3>3
  <2>3. Disconnect(e, gone) = IF Linked(left) THEN left ELSE None
    BY <1>2 DEF Disconnect
  <2>. HIDE DEF left
  <2>4. CASE Linked(left)
    BY <1>2, <2>2, <2>3, <2>4, PeerLinksAssumption DEF HeldBy
  <2>5. CASE ~Linked(left)
    <3>1. \A kind \in Kinds : left[kind] = 0
      BY <2>5 DEF Linked, LinksOf
    <3>. QED
      BY <1>2, <2>2, <2>3, <2>5, <3>1 DEF HeldBy
  <2>. QED
    BY <2>4, <2>5
<1>. QED
  BY <1>1, <1>2

LEMMA HandleSignalHolds ==
  ASSUME NEW c, NEW e \in PeerConns \union {None}, NEW m \in Signals
  PROVE  /\ HandleSignal(c, e, m) \in PeerConns \union {None}
         /\ \A kind \in Kinds : HeldBy(HandleSignal(c, e, m), kind) = HeldBy(e, kind)
<1>1. CASE HandleSignal(c, e, m) = e
  BY <1>1
<1>2. CASE HandleSignal(c, e, m) # e
  <2>1. e # None /\ e \in PeerConns /\ HandleSignal(c, e, m) = [e EXCEPT !.ops = Append(@, m)]
    BY <1>2 DEF HandleSignal
  <2>2. e.ops \in Seq(Signals \union [type : {"local"}])
    BY <2>1 DEF PeerConns
  <2>3. Append(e.ops, m) \in Seq(Signals \union [type : {"local"}])
    BY <2>2, AppendDoes
  <2>4. HandleSignal(c, e, m) \in PeerConns
    BY <2>1, <2>3 DEF PeerConns
  <2>5. \A kind \in Kinds : HandleSignal(c, e, m)[kind] = e[kind]
    BY <2>1 DEF PeerConns, Kinds
  <2>. QED
    BY <2>1, <2>4, <2>5, PeerLinksAssumption DEF HeldBy
<1>. QED
  BY <1>1, <1>2

LEMMA HandledHolds ==
  ASSUME NEW c, NEW e \in PeerConns \union {None}, NEW m \in Told, NEW kind \in Kinds
  PROVE  /\ Handled(c, e, m) \in PeerConns \union {None}
         /\ m.type = "connect" /\ m.kind = kind => HeldBy(Handled(c, e, m), kind) = m.id
         /\ m.type = "disconnect" /\ m.kind = kind => HeldBy(Handled(c, e, m), kind) = 0
         /\ ~About(m, kind) => HeldBy(Handled(c, e, m), kind) = HeldBy(e, kind)
<1>1. CASE m.type = "connect"
  <2>1. m \in [type : {"connect"}, kind : Kinds, id : Nat \ {0}]
    BY <1>1 DEF Told, Signals
  <2>2. Handled(c, e, m) = Connect(e, m)
    BY <1>1 DEF Handled
  <2>. QED
    BY <1>1, <2>1, <2>2, ConnectHolds DEF About
<1>2. CASE m.type = "disconnect"
  <2>1. m.kind \in Kinds
    BY <1>2 DEF Told, Signals
  <2>2. Handled(c, e, m) = Disconnect(e, m.kind)
    BY <1>2 DEF Handled
  <2>. QED
    BY <1>2, <2>1, <2>2, DisconnectHolds DEF About
<1>3. CASE m.type \notin {"connect", "disconnect"}
  <2>1. m \in Signals
    BY <1>3 DEF Told
  <2>2. Handled(c, e, m) = HandleSignal(c, e, m)
    BY <1>3 DEF Handled
  <2>. QED
    BY <1>3, <2>1, <2>2, HandleSignalHolds DEF About
<1>. QED
  BY <1>1, <1>2, <1>3

LEMMA Types ==
  ASSUME Typed, NEW c \in Sides
  PROVE  /\ down[c] \in Seq(Told) /\ Len(down[c]) \in Nat
         /\ quit[c] \in Nat /\ \A kind \in Kinds : Held(c, kind) \in Nat
         /\ link.prox \in Nat /\ link.page \in Nat /\ link.opened \in Nat
         /\ \A i \in 1 .. Len(down[c]) :
              /\ down[c][i] \in Told
              /\ OpensPage(down[c][i]) => down[c][i].id \in Nat \ {0}
              /\ Signal(down[c][i]) => down[c][i].over \subseteq Nat \ {0}
<1>1. down[c] \in Seq(Told)
  BY DEF Typed
<1>2. Len(down[c]) \in Nat /\ \A i \in 1 .. Len(down[c]) : down[c][i] \in Told
  BY <1>1, ElementsOf
<1>3. \A m \in Told : /\ OpensPage(m) => m.id \in Nat \ {0}
                      /\ Signal(m) => m.over \subseteq Nat \ {0}
  BY DEF OpensPage, Signal, Told, Signals
<1>4. quit[c] \in Nat /\ link.prox \in Nat /\ link.page \in Nat /\ link.opened \in Nat
  BY DEF Typed
<1>5. \A kind \in Kinds : Held(c, kind) \in Nat
  BY DEF Typed, Held, HeldBy, PeerConns, Kinds
<1>. QED
  BY <1>1, <1>2, <1>3, <1>4, <1>5

(* Zero is no link: no signal came over it.                                *)
LEMMA ZeroSilent ==
  ASSUME Typed, NEW c \in Sides, NEW n
  PROVE  Silent(c, 0, n)
BY Types DEF Silent

(* A hung-up page is the last one held, and none is held then.             *)
LEMMA HangUpKeeps ==
  ASSUME LinkInv, Typed', NEW a \in Sides, HangUp(a)
  PROVE  LinkInv'
<1>. DEFINE h == Held(a, "page")
<1>1. Typed
  BY DEF LinkInv
<1>2. /\ link' = link /\ down' = down
      /\ quit'[a] = h /\ h # 0 /\ h \in Nat
      /\ \A c \in Sides \ {a} : quit'[c] = quit[c]
  <2>1. quit' = [quit EXCEPT ![a] = pc[a].page] /\ pc[a] # None /\ pc[a].page # 0
    BY DEF HangUp
  <2>2. h = pc[a].page
    BY <2>1 DEF Held, HeldBy
  <2>3. h \in Nat
    BY <1>1, Types DEF Kinds
  <2>. QED
    BY <1>1, <2>1, <2>2, <2>3 DEF HangUp, Typed
<1>3. /\ Held(a, "page")' = 0 /\ Held(a, "prox")' = Held(a, "prox")
      /\ \A c \in Sides \ {a}, kind \in Kinds : Held(c, kind)' = Held(c, kind)
  <2>1. pc' = [pc EXCEPT ![a] = Disconnect(pc[a], "page")] /\ pc \in [Sides -> PeerConns \union {None}]
    BY <1>1 DEF HangUp, Typed
  <2>2. pc'[a] = Disconnect(pc[a], "page") /\ \A c \in Sides \ {a} : pc'[c] = pc[c]
    BY <2>1
  <2>3. /\ HeldBy(pc'[a], "page") = 0 /\ HeldBy(pc'[a], "prox") = HeldBy(pc[a], "prox")
    BY <2>1, <2>2, DisconnectHolds DEF Kinds
  <2>. QED
    BY <2>2, <2>3 DEF Held
<1>. HIDE DEF h
<1>4. /\ quit[a] < h /\ h <= link.opened
      /\ link.page # 0 => h <= link.page
      /\ \A i \in 1 .. Len(down[a]) : OpensPage(down[a][i]) => h < down[a][i].id
      /\ link.prox # 0 => link.prox # h
      /\ Silent(a, quit[a], 0)
      /\ \A i \in 1 .. Len(down[a]) : OpensPage(down[a][i]) => Silent(a, h, i)
  BY <1>2 DEF h, LinkInv, PagesInOrder, KindsApart, OldPagesSilent
<1>5. \A id : id # h => \A kind \in Kinds : Held(a, kind) = id => Held(a, kind)' = id
  BY <1>3 DEF h, Kinds
<1>6. SignalsExplained'
  <2>. SUFFICES ASSUME NEW c \in Sides, NEW i \in 1 .. Len(down[c]), Signal(down[c][i])
                PROVE  /\ down[c][i].over # {}
                       /\ \A id \in down[c][i].over \ {quit'[c]} :
                            \E kind \in Kinds : Gives(down[c], Held(c, kind)', kind, id, i - 1)
    BY <1>2 DEF SignalsExplained
  <2>1. /\ down[c][i].over # {}
        /\ \A id \in down[c][i].over \ {quit[c]} :
             \E kind \in Kinds : Gives(down[c], Held(c, kind), kind, id, i - 1)
    BY DEF LinkInv, SignalsExplained
  <2>2. CASE c # a
    BY <1>2, <1>3, <2>1, <2>2
  <2>3. CASE c = a
    <3>. SUFFICES ASSUME NEW id \in down[a][i].over \ {h}
                  PROVE  \E kind \in Kinds : Gives(down[a], Held(a, kind)', kind, id, i - 1)
      BY <1>2, <2>1, <2>3
    <3>1. id # quit[a]
      <4>1. i > 0
        BY <1>1, <2>3, Types
      <4>. QED
        BY <1>4, <2>3, <4>1 DEF Silent
    <3>2. PICK kind \in Kinds : Gives(down[a], Held(a, kind), kind, id, i - 1)
      BY <2>1, <2>3, <3>1
    <3>3. Gives(down[a], Held(a, kind)', kind, id, i - 1)
      BY <1>5, <3>2, GivesHeld
    <3>. QED
      BY <3>3
  <2>. QED
    BY <2>2, <2>3
<1>7. LinksTold'
  <2>. SUFFICES ASSUME NEW c \in Sides, NEW kind \in Kinds, link[kind] \notin {0, quit'[c]}
                PROVE  Gives(down[c], Held(c, kind)', kind, link[kind], Len(down[c]))
    BY <1>2 DEF LinksTold
  <2>1. CASE c # a
    BY <1>2, <1>3, <2>1 DEF LinkInv, LinksTold
  <2>2. CASE c = a
    <3>1. link[kind] # quit[a]
      <4>1. quit[a] \in Nat /\ link.page \in Nat /\ link.prox \in Nat
        BY <1>1, Types
      <4>2. link.page # 0 => link.page # quit[a]
        BY <1>2, <1>4, <4>1
      <4>3. link.prox # 0 => link.prox # quit[a]
        BY DEF LinkInv, KindsApart
      <4>. QED
        BY <4>2, <4>3 DEF Kinds
    <3>2. Gives(down[a], Held(a, kind), kind, link[kind], Len(down[a]))
      BY <2>2, <3>1 DEF LinkInv, LinksTold
    <3>. QED
      BY <1>2, <1>5, <2>2, <3>2, GivesHeld
  <2>. QED
    BY <2>1, <2>2
<1>8. PagesInOrder'
  <2>. SUFFICES ASSUME NEW c \in Sides
                PROVE  /\ quit'[c] <= link.opened /\ Held(c, "page")' <= link.opened
                       /\ Held(c, "page")' # 0 => quit'[c] < Held(c, "page")'
                       /\ link.page # 0 => quit'[c] <= link.page /\ Held(c, "page")' <= link.page
                       /\ \A i \in 1 .. Len(down[c]) : OpensPage(down[c][i]) =>
                            /\ quit'[c] < down[c][i].id /\ Held(c, "page")' < down[c][i].id
                            /\ down[c][i].id <= link.opened
                            /\ link.page # 0 => down[c][i].id <= link.page
                            /\ \A j \in 1 .. i - 1 :
                                 OpensPage(down[c][j]) => down[c][j].id < down[c][i].id
    BY <1>2 DEF PagesInOrder
  <2>1. CASE c # a
    BY <1>2, <1>3, <2>1 DEF LinkInv, PagesInOrder, Kinds
  <2>2. CASE c = a
    <3>1. link.opened \in Nat /\ link.page \in Nat
      BY <1>1, Types
    <3>2. \A i \in 1 .. Len(down[a]) : OpensPage(down[a][i]) => 0 < down[a][i].id
      BY <1>1, Types
    <3>3. \A i \in 1 .. Len(down[a]) : OpensPage(down[a][i]) =>
             /\ down[a][i].id <= link.opened
             /\ link.page # 0 => down[a][i].id <= link.page
             /\ \A j \in 1 .. i - 1 : OpensPage(down[a][j]) => down[a][j].id < down[a][i].id
      BY DEF LinkInv, PagesInOrder
    <3>4. 0 <= link.opened /\ 0 <= link.page
      BY <3>1
    <3>. QED
      BY <1>2, <1>3, <1>4, <2>2, <3>2, <3>3, <3>4
  <2>. QED
    BY <2>1, <2>2
<1>9. KindsApart'
  <2>1. /\ link.prox <= link.opened /\ link.page <= link.opened
        /\ link.prox # 0 => link.prox # link.page
    BY DEF LinkInv, KindsApart
  <2>2. ASSUME link.prox # 0, NEW c \in Sides
        PROVE  /\ link.prox # quit'[c] /\ link.prox # Held(c, "page")'
               /\ \A i \in 1 .. Len(down[c]) : OpensPage(down[c][i]) => link.prox # down[c][i].id
    <3>1. CASE c # a
      BY <1>2, <1>3, <2>2, <3>1 DEF LinkInv, KindsApart, Kinds
    <3>2. CASE c = a
      BY <1>2, <1>3, <1>4, <2>2, <3>2 DEF LinkInv, KindsApart
    <3>. QED
      BY <3>1, <3>2
  <2>. QED
    BY <1>2, <2>1, <2>2 DEF KindsApart
<1>10. OldPagesSilent'
  <2>1. ASSUME NEW c, NEW id, NEW n, Silent(c, id, n)
        PROVE  \A j \in 1 .. Len(down'[c]) : j > n /\ Signal(down'[c][j]) => id \notin down'[c][j].over
    BY <1>2, <2>1 DEF Silent
  <2>2. ASSUME NEW c \in Sides, Held(c, "page")' # 0
        PROVE  Silent(c, quit[c], 0)'
    <3>1. quit'[c] = quit[c] /\ Held(c, "page") # 0
      BY <1>2, <1>3, <2>2 DEF Kinds
    <3>2. Silent(c, quit[c], 0)
      BY <3>1 DEF LinkInv, OldPagesSilent
    <3>. QED
      BY <2>1, <3>1, <3>2 DEF Silent
  <2>3. ASSUME NEW c \in Sides, NEW i \in 1 .. Len(down[c]), OpensPage(down[c][i])
        PROVE  /\ Silent(c, quit[c], i)' /\ Silent(c, Held(c, "page"), i)'
               /\ \A k \in 1 .. i - 1 : OpensPage(down[c][k]) => Silent(c, down[c][k].id, i)'
    <3>1. Silent(c, quit'[c], i) /\ Silent(c, Held(c, "page")', i)
      <4>1. CASE c # a
        <5>1. quit'[c] = quit[c] /\ Held(c, "page")' = Held(c, "page")
          BY <1>2, <1>3, <4>1 DEF Kinds
        <5>. QED
          BY <2>3, <5>1 DEF LinkInv, OldPagesSilent
      <4>2. CASE c = a
        BY <1>1, <1>2, <1>3, <1>4, <2>3, <4>2, ZeroSilent
      <4>. QED
        BY <4>1, <4>2
    <3>2. \A k \in 1 .. i - 1 : OpensPage(down[c][k]) => Silent(c, down[c][k].id, i)
      BY <2>3 DEF LinkInv, OldPagesSilent
    <3>3. Silent(c, quit[c], i)'
      BY <2>1, <3>1 DEF Silent
    <3>4. Silent(c, Held(c, "page"), i)'
      BY <2>1, <3>1 DEF Silent
    <3>5. \A k \in 1 .. i - 1 : OpensPage(down[c][k]) => Silent(c, down[c][k].id, i)'
      BY <1>2, <3>2 DEF Silent
    <3>. QED
      BY <3>3, <3>4, <3>5
  <2>4. \A c \in Sides : \A i \in 1 .. Len(down[c]) : OpensPage(down'[c][i]) <=> OpensPage(down[c][i])
    BY <1>2
  <2>. QED
    BY <1>2, <2>2, <2>3, <2>4 DEF OldPagesSilent
<1>. QED
  BY <1>6, <1>7, <1>8, <1>9, <1>10 DEF LinkInv

(* A message handled leaves the queue, and is in what is held instead.     *)
LEMMA ReceiveKeeps ==
  ASSUME LinkInv, Typed', NEW a \in Sides, Receive(a)
  PROVE  LinkInv'
<1>. DEFINE m == Head(down[a])
            q == down[a]
            r == down'[a]
<1>1. Typed
  BY DEF LinkInv
<1>2. /\ q \in Seq(Told) /\ q # <<>> /\ r = Tail(q)
      /\ link' = link /\ quit' = quit /\ \A c \in Sides \ {a} : down'[c] = down[c]
  BY <1>1 DEF Receive, Typed
<1>3. /\ m \in Told /\ m = q[1] /\ Len(q) \in Nat \ {0} /\ Len(r) = Len(q) - 1
      /\ \A i \in 1 .. Len(q) - 1 : r[i] = q[i + 1]
  BY <1>2, TailDoes
<1>4. /\ \A kind \in Kinds :
           /\ m.type = "connect" /\ m.kind = kind => Held(a, kind)' = m.id
           /\ m.type = "disconnect" /\ m.kind = kind => Held(a, kind)' = 0
           /\ ~About(m, kind) => Held(a, kind)' = Held(a, kind)
      /\ \A c \in Sides \ {a}, kind \in Kinds : Held(c, kind)' = Held(c, kind)
  <2>1. pc' = [pc EXCEPT ![a] = Handled(a, pc[a], m)] /\ pc \in [Sides -> PeerConns \union {None}]
    BY <1>1 DEF Receive, Typed
  <2>2. pc'[a] = Handled(a, pc[a], m) /\ \A c \in Sides \ {a} : pc'[c] = pc[c]
    BY <2>1
  <2>3. pc[a] \in PeerConns \union {None}
    BY <2>1
  <2>4. ASSUME NEW kind \in Kinds
        PROVE  /\ m.type = "connect" /\ m.kind = kind => HeldBy(pc'[a], kind) = m.id
               /\ m.type = "disconnect" /\ m.kind = kind => HeldBy(pc'[a], kind) = 0
               /\ ~About(m, kind) => HeldBy(pc'[a], kind) = HeldBy(pc[a], kind)
    <3>. HIDE DEF m
    <3>. QED
      BY <1>3, <2>2, <2>3, HandledHolds
  <2>. QED
    BY <2>2, <2>4 DEF Held
<1>. HIDE DEF m, q, r
<1>5. \A i \in 1 .. Len(r) : i \in Nat /\ i + 1 \in 1 .. Len(q) /\ r[i] = q[i + 1]
  BY <1>3
<1>6. Opens(m, "page", m.id) <=> OpensPage(m)
  BY DEF Opens, OpensPage
(* What the queue gave, its tail gives to what is held now.                *)
<1>7. ASSUME NEW kind \in Kinds, NEW id, NEW n \in 1 .. Len(q),
             Gives(q, Held(a, kind), kind, id, n)
      PROVE  Gives(r, Held(a, kind)', kind, id, n - 1)
  <2>1. Opens(m, kind, id) => Held(a, kind)' = id
    BY <1>4 DEF Opens
  <2>2. Held(a, kind) = id /\ ~About(m, kind) => Held(a, kind)' = id
    BY <1>4
  <2>3. m = Head(q)
    BY DEF m, q
  <2>. QED
    BY <1>2, <1>7, <2>1, <2>2, <2>3, GivesTail
<1>8. SignalsExplained'
  <2>. SUFFICES ASSUME NEW c \in Sides, NEW i \in 1 .. Len(down'[c]), Signal(down'[c][i])
                PROVE  /\ down'[c][i].over # {}
                       /\ \A id \in down'[c][i].over \ {quit[c]} :
                            \E kind \in Kinds : Gives(down'[c], Held(c, kind)', kind, id, i - 1)
    BY <1>2 DEF SignalsExplained
  <2>1. CASE c # a
    BY <1>2, <1>4, <2>1 DEF LinkInv, SignalsExplained
  <2>2. CASE c = a
    <3>1. /\ i \in Nat /\ i + 1 \in 1 .. Len(q) /\ i \in 1 .. Len(q) /\ (i + 1) - 1 = i
          /\ r[i] = q[i + 1] /\ Signal(q[i + 1])
      BY <1>3, <1>5, <2>2 DEF r
    <3>2. /\ q[i + 1].over # {}
          /\ \A id \in q[i + 1].over \ {quit[a]} :
               \E kind \in Kinds : Gives(q, Held(a, kind), kind, id, i)
      BY <3>1 DEF LinkInv, SignalsExplained, q
    <3>3. ASSUME NEW id \in q[i + 1].over \ {quit[a]}
          PROVE  \E kind \in Kinds : Gives(r, Held(a, kind)', kind, id, i - 1)
      BY <1>7, <3>1, <3>2
    <3>. QED
      BY <2>2, <3>1, <3>2, <3>3 DEF r
  <2>. QED
    BY <2>1, <2>2
<1>9. LinksTold'
  <2>. SUFFICES ASSUME NEW c \in Sides, NEW kind \in Kinds, link[kind] \notin {0, quit[c]}
                PROVE  Gives(down'[c], Held(c, kind)', kind, link[kind], Len(down'[c]))
    BY <1>2 DEF LinksTold
  <2>1. Gives(down[c], Held(c, kind), kind, link[kind], Len(down[c]))
    BY DEF LinkInv, LinksTold
  <2>2. CASE c # a
    BY <1>2, <1>4, <2>1, <2>2
  <2>3. CASE c = a
    <3>1. Gives(q, Held(a, kind), kind, link[kind], Len(q)) /\ Len(q) \in 1 .. Len(q)
      BY <1>3, <2>1, <2>3 DEF q
    <3>2. Gives(r, Held(a, kind)', kind, link[kind], Len(q) - 1)
      BY <1>7, <3>1
    <3>. QED
      BY <1>3, <2>3, <3>2 DEF r
  <2>. QED
    BY <2>2, <2>3
(* What was queued second comes first: pages held are pages told of.       *)
<1>10. \/ Held(a, "page")' = 0
       \/ Held(a, "page")' = Held(a, "page")
       \/ OpensPage(q[1]) /\ Held(a, "page")' = q[1].id
  BY <1>3, <1>4 DEF About, OpensPage, Kinds, Told, Signals
<1>11. /\ quit[a] \in Nat /\ link.page \in Nat /\ link.opened \in Nat /\ Held(a, "page") \in Nat
       /\ 1 \in 1 .. Len(q) /\ (OpensPage(q[1]) => q[1].id \in Nat)
       /\ \A i \in 1 .. Len(q) : OpensPage(q[i]) => q[i].id \in Nat \ {0}
  <2>1. 1 \in 1 .. Len(q)
    BY <1>3
  <2>. QED
    BY <1>1, <2>1, Types DEF q, Kinds
<1>12. /\ quit[a] <= link.opened /\ Held(a, "page") <= link.opened
       /\ Held(a, "page") # 0 => quit[a] < Held(a, "page")
       /\ link.page # 0 => quit[a] <= link.page /\ Held(a, "page") <= link.page
       /\ \A i \in 1 .. Len(q) : OpensPage(q[i]) =>
            /\ quit[a] < q[i].id /\ Held(a, "page") < q[i].id
            /\ q[i].id <= link.opened
            /\ link.page # 0 => q[i].id <= link.page
            /\ \A j \in 1 .. i - 1 : OpensPage(q[j]) => q[j].id < q[i].id
  BY DEF LinkInv, PagesInOrder, q
<1>13. PagesInOrder'
  <2>. SUFFICES ASSUME NEW c \in Sides
                PROVE  /\ quit[c] <= link.opened /\ Held(c, "page")' <= link.opened
                       /\ Held(c, "page")' # 0 => quit[c] < Held(c, "page")'
                       /\ link.page # 0 => quit[c] <= link.page /\ Held(c, "page")' <= link.page
                       /\ \A i \in 1 .. Len(down'[c]) : OpensPage(down'[c][i]) =>
                            /\ quit[c] < down'[c][i].id /\ Held(c, "page")' < down'[c][i].id
                            /\ down'[c][i].id <= link.opened
                            /\ link.page # 0 => down'[c][i].id <= link.page
                            /\ \A j \in 1 .. i - 1 :
                                 OpensPage(down'[c][j]) => down'[c][j].id < down'[c][i].id
    BY <1>2 DEF PagesInOrder
  <2>1. CASE c # a
    BY <1>2, <1>4, <2>1 DEF LinkInv, PagesInOrder, Kinds
  <2>2. CASE c = a
    <3>1. /\ Held(a, "page")' <= link.opened
          /\ Held(a, "page")' # 0 => quit[a] < Held(a, "page")'
          /\ link.page # 0 => Held(a, "page")' <= link.page
      <4>1. CASE Held(a, "page")' = 0 \/ Held(a, "page")' = Held(a, "page")
        BY <1>11, <1>12, <4>1
      <4>2. CASE OpensPage(q[1]) /\ Held(a, "page")' = q[1].id
        BY <1>11, <1>12, <4>2
      <4>. QED
        BY <1>10, <4>1, <4>2
    <3>2. ASSUME NEW i \in 1 .. Len(r), OpensPage(r[i])
          PROVE  /\ quit[a] < r[i].id /\ Held(a, "page")' < r[i].id
                 /\ r[i].id <= link.opened
                 /\ link.page # 0 => r[i].id <= link.page
                 /\ \A j \in 1 .. i - 1 : OpensPage(r[j]) => r[j].id < r[i].id
      <4>1. /\ i + 1 \in 1 .. Len(q) /\ r[i] = q[i + 1] /\ OpensPage(q[i + 1]) /\ i \in Nat
            /\ 1 \in 1 .. (i + 1) - 1
        BY <1>5, <3>2
      <4>2. /\ quit[a] < r[i].id /\ Held(a, "page") < r[i].id
            /\ r[i].id <= link.opened
            /\ link.page # 0 => r[i].id <= link.page
            /\ \A j \in 1 .. (i + 1) - 1 : OpensPage(q[j]) => q[j].id < r[i].id
            /\ r[i].id \in Nat \ {0}
        BY <1>11, <1>12, <4>1
      <4>3. Held(a, "page")' < r[i].id
        <5>1. OpensPage(q[1]) => q[1].id < r[i].id
          BY <4>1, <4>2
        <5>. QED
          BY <1>10, <1>11, <4>2, <5>1
      <4>4. ASSUME NEW j \in 1 .. i - 1, OpensPage(r[j])
            PROVE  r[j].id < r[i].id
        <5>1. j + 1 \in 1 .. (i + 1) - 1 /\ j \in 1 .. Len(r)
          BY <1>3, <4>1
        <5>2. r[j] = q[j + 1]
          BY <1>5, <5>1
        <5>. QED
          BY <4>2, <4>4, <5>1, <5>2
      <4>. QED
        BY <4>2, <4>3, <4>4
    <3>. QED
      BY <1>12, <2>2, <3>1, <3>2 DEF r
  <2>. QED
    BY <2>1, <2>2
<1>14. KindsApart'
  <2>1. /\ link.prox <= link.opened /\ link.page <= link.opened
        /\ link.prox # 0 => link.prox # link.page
    BY DEF LinkInv, KindsApart
  <2>2. ASSUME link.prox # 0, NEW c \in Sides
        PROVE  /\ link.prox # quit[c] /\ link.prox # Held(c, "page")'
               /\ \A i \in 1 .. Len(down'[c]) : OpensPage(down'[c][i]) => link.prox # down'[c][i].id
    <3>1. CASE c # a
      BY <1>2, <1>4, <2>2, <3>1 DEF LinkInv, KindsApart, Kinds
    <3>2. CASE c = a
      <4>1. /\ link.prox # quit[a] /\ link.prox # Held(a, "page")
            /\ \A i \in 1 .. Len(q) : OpensPage(q[i]) => link.prox # q[i].id
        BY <2>2 DEF LinkInv, KindsApart, q
      <4>2. link.prox # Held(a, "page")'
        BY <1>10, <1>11, <2>2, <4>1
      <4>3. \A i \in 1 .. Len(r) : OpensPage(r[i]) => link.prox # r[i].id
        BY <1>5, <4>1
      <4>. QED
        BY <3>2, <4>1, <4>2, <4>3 DEF r
    <3>. QED
      BY <3>1, <3>2
  <2>. QED
    BY <1>2, <2>1, <2>2 DEF KindsApart
<1>15. OldPagesSilent'
  <2>. DEFINE After(queue, id, n) ==
                \A j \in 1 .. Len(queue) : j > n /\ Signal(queue[j]) => id \notin queue[j].over
  <2>1. ASSUME NEW id, NEW n \in Nat, Silent(a, id, n + 1) \/ Silent(a, id, n)
        PROVE  After(r, id, n)
    <3>. SUFFICES ASSUME NEW j \in 1 .. Len(r), j > n, Signal(r[j]) PROVE id \notin r[j].over
      OBVIOUS
    <3>1. j + 1 \in 1 .. Len(q) /\ j + 1 > n + 1 /\ j + 1 > n /\ r[j] = q[j + 1]
      BY <1>5
    <3>. QED
      BY <2>1, <3>1 DEF Silent, q
  <2>2. /\ Held(a, "page") # 0 => Silent(a, quit[a], 0)
        /\ \A i \in 1 .. Len(q) : OpensPage(q[i]) =>
             /\ Silent(a, quit[a], i) /\ Silent(a, Held(a, "page"), i)
             /\ \A k \in 1 .. i - 1 : OpensPage(q[k]) => Silent(a, q[k].id, i)
    BY DEF LinkInv, OldPagesSilent, q
  <2>3. \A n : Silent(a, 0, n)
    BY <1>1, ZeroSilent
  <2>. HIDE DEF After
  <2>4. Held(a, "page")' # 0 => After(r, quit[a], 0)
    <3>1. Held(a, "page")' # 0 => Silent(a, quit[a], 0 + 1) \/ Silent(a, quit[a], 0)
      BY <1>10, <1>11, <2>2
    <3>. QED
      BY <2>1, <3>1
  <2>5. ASSUME NEW i \in 1 .. Len(r), OpensPage(r[i])
        PROVE  /\ After(r, quit[a], i) /\ After(r, Held(a, "page")', i)
               /\ \A k \in 1 .. i - 1 : OpensPage(r[k]) => After(r, r[k].id, i)
    <3>1. /\ i + 1 \in 1 .. Len(q) /\ r[i] = q[i + 1] /\ OpensPage(q[i + 1]) /\ i \in Nat
          /\ 1 \in 1 .. (i + 1) - 1
      BY <1>5, <2>5
    <3>2. /\ Silent(a, quit[a], i + 1) /\ Silent(a, Held(a, "page"), i + 1)
          /\ \A k \in 1 .. (i + 1) - 1 : OpensPage(q[k]) => Silent(a, q[k].id, i + 1)
      BY <2>2, <3>1
    <3>3. Silent(a, Held(a, "page")', i + 1)
      BY <1>10, <2>3, <3>1, <3>2
    <3>4. ASSUME NEW k \in 1 .. i - 1, OpensPage(r[k])
          PROVE  After(r, r[k].id, i)
      <4>1. k + 1 \in 1 .. (i + 1) - 1 /\ k \in 1 .. Len(r)
        BY <1>3, <3>1
      <4>2. r[k] = q[k + 1]
        BY <1>5, <4>1
      <4>3. Silent(a, r[k].id, i + 1)
        BY <3>2, <3>4, <4>1, <4>2
      <4>. QED
        BY <2>1, <3>1, <4>3
    <3>. QED
      BY <2>1, <3>1, <3>2, <3>3, <3>4
  <2>6. ASSUME NEW c \in Sides \ {a}, NEW id, NEW n, Silent(c, id, n)
        PROVE  After(down'[c], id, n)
    BY <1>2, <2>6 DEF Silent, After
  <2>7. ASSUME NEW c \in Sides
        PROVE  /\ Held(c, "page")' # 0 => After(down'[c], quit'[c], 0)
               /\ \A i \in 1 .. Len(down'[c]) : OpensPage(down'[c][i]) =>
                    /\ After(down'[c], quit'[c], i) /\ After(down'[c], Held(c, "page")', i)
                    /\ \A k \in 1 .. i - 1 :
                         OpensPage(down'[c][k]) => After(down'[c], down'[c][k].id, i)
    <3>1. CASE c = a
      BY <1>2, <2>4, <2>5, <3>1 DEF r
    <3>2. CASE c # a
      <4>1. Held(c, "page")' = Held(c, "page") /\ quit'[c] = quit[c] /\ down'[c] = down[c]
        BY <1>2, <1>4, <3>2 DEF Kinds
      <4>2. /\ Held(c, "page") # 0 => Silent(c, quit[c], 0)
            /\ \A i \in 1 .. Len(down[c]) : OpensPage(down[c][i]) =>
                 /\ Silent(c, quit[c], i) /\ Silent(c, Held(c, "page"), i)
                 /\ \A k \in 1 .. i - 1 : OpensPage(down[c][k]) => Silent(c, down[c][k].id, i)
        BY DEF LinkInv, OldPagesSilent
      <4>3. \A id, n : Silent(c, id, n) => After(down[c], id, n)
        BY <2>6, <3>2, <4>1
      <4>. QED
        BY <4>1, <4>2, <4>3
    <3>. QED
      BY <3>1, <3>2
  <2>8. \A c, id, n : Silent(c, id, n)' <=> After(down'[c], id, n)
    BY DEF Silent, After
  <2>. QED
    BY <2>7, <2>8 DEF OldPagesSilent, Silent, After
<1>. QED
  BY <1>8, <1>9, <1>13, <1>14, <1>15 DEF LinkInv

(***************************************************************************)
(* Types.                                                                  *)
(***************************************************************************)
LEMMA Larger ==
  ASSUME NEW a \in Nat, NEW b \in Nat
  PROVE  Max({a, b}) \in Nat /\ Min({a, b}) \in Nat
<1>1. Max({a, b}) \in {a, b}
  <2>1. \E x \in {a, b} : \A y \in {a, b} : x >= y
    BY Z3
  <2>. QED
    BY <2>1 DEF Max
<1>2. Min({a, b}) \in {a, b}
  <2>1. \E x \in {a, b} : \A y \in {a, b} : x <= y
    BY Z3
  <2>. QED
    BY <2>1 DEF Min
<1>. QED
  BY <1>1, <1>2

(* An ask is queued last.                                                  *)
LEMMA UpTyped ==
  ASSUME Typed, NEW c \in Sides, NEW m \in Asks, Up(c, m)
  PROVE  up' \in [Sides -> Seq(Asks)]
<1>1. up[c] \in Seq(Asks)
  BY DEF Typed
<1>2. Append(up[c], m) \in Seq(Asks)
  BY <1>1, AppendDoes
<1>. QED
  BY <1>2 DEF Up, Typed

LEMMA ServedTyped ==
  ASSUME Typed, NEW c \in Sides, NEW types, Asked(c, types), Served(c)
  PROVE  /\ up' \in [Sides -> Seq(Asks)] /\ Head(up[c]) \in Asks /\ Head(up[c]).type \in types
<1>1. up[c] \in Seq(Asks) /\ up[c] # <<>>
  BY DEF Typed, Asked
<1>2. Tail(up[c]) \in Seq(Asks) /\ Head(up[c]) \in Asks
  BY <1>1, TailDoes
<1>. QED
  BY <1>2 DEF Served, Asked, Typed

LEMMA TellTyped ==
  ASSUME Typed, NEW m \in Told, Tell(m)
  PROVE  /\ down' \in [Sides -> Seq(Told)] /\ \A c \in Sides : Queues(c, m)
<1>1. \A c \in Sides : Append(down[c], m) \in Seq(Told)
  <2>. SUFFICES ASSUME NEW c \in Sides PROVE Append(down[c], m) \in Seq(Told)
    OBVIOUS
  <2>1. down[c] \in Seq(Told)
    BY DEF Typed
  <2>. QED
    BY <2>1, AppendDoes
<1>. QED
  BY <1>1 DEF Tell, Queues

(* One side is told, the other is not.                                     *)
LEMMA OneTold ==
  ASSUME Typed, NEW c \in Sides, NEW m \in Told,
         down' = [down EXCEPT ![Other(c)] = Append(down[Other(c)], m)]
  PROVE  /\ down' \in [Sides -> Seq(Told)]
         /\ \A d \in Sides : down'[d] = down[d] \/ Queues(d, m)
<1>1. Other(c) \in Sides
  BY DEF Other, Sides
<1>2. down[Other(c)] \in Seq(Told) /\ down \in [Sides -> Seq(Told)]
  BY <1>1 DEF Typed
<1>3. Append(down[Other(c)], m) \in Seq(Told)
  BY <1>2, AppendDoes
<1>. QED
  BY <1>1, <1>2, <1>3 DEF Queues

LEMMA LinksAre ==
  ASSUME Typed
  PROVE  LinksOf(link) \in SUBSET (Nat \ {0}) /\ (Linked(link) => LinksOf(link) # {})
BY DEF Typed, LinksOf, Linked, Kinds

LEMMA RelayedTyped ==
  ASSUME Typed, NEW m \in Asks, m.type \in {"offer", "answer"}
  PROVE  /\ Relayed(m) \in Told /\ Relayed(m).over = LinksOf(link)
         /\ Relayed(m).type \in {"offer", "answer"}
<1>1. m.tracks \in Nat /\ m.sections \in Nat
  BY DEF Asks
<1>2. LinksOf(link) \in SUBSET (Nat \ {0})
  BY LinksAre
<1>. QED
  BY <1>1, <1>2 DEF Relayed, Told, Signals

(* The engine's steps on a connection.                                     *)
LEMMA EngineTyped ==
  ASSUME Typed, NEW c \in Sides, Engine(c)
  PROVE  Typed' /\ \A d \in Sides, kind \in Kinds : Held(d, kind)' = Held(d, kind)
<1>. DEFINE e == pc[c]
            Ops == Signals \union [type : {"local"}]
<1>1. e \in PeerConns \union {None} /\ want[c] \in Nat /\ pc \in [Sides -> PeerConns \union {None}]
  BY DEF Typed
<1>2. e # None => /\ e \in PeerConns /\ e.ops \in Seq(Ops) /\ e.sections \in Nat /\ e.offered \in Nat
                  /\ e.sig \in {"stable", "have-local-offer", "have-remote-offer"}
  BY <1>1 DEF PeerConns
<1>3. ASSUME e # None, e.ops # <<>>
      PROVE  Tail(e.ops) \in Seq(Ops) /\ Head(e.ops) \in Ops
  <2>. HIDE DEF Ops
  <2>. QED
    BY <1>2, <1>3, TailDoes
<1>4. [type |-> "local"] \in Ops
  OBVIOUS
<1>5. ASSUME e # None, NEW f \in PeerConns, pc' = [pc EXCEPT ![c] = f], f.prox = e.prox, f.page = e.page
      PROVE  /\ pc' \in [Sides -> PeerConns \union {None}]
             /\ \A d \in Sides, kind \in Kinds : Held(d, kind)' = Held(d, kind)
  <2>1. pc' \in [Sides -> PeerConns \union {None}] /\ pc'[c] = f /\ \A d \in Sides \ {c} : pc'[d] = pc[d]
    BY <1>1, <1>5
  <2>2. f # None
    BY PeerLinksAssumption
  <2>. QED
    BY <1>5, <2>1, <2>2 DEF Held, HeldBy, Kinds
<1>6. CASE Negotiate(c)
  <2>. DEFINE f == [e EXCEPT !.making = TRUE, !.ops = <<[type |-> "local"]>>]
  <2>1. e # None /\ pc' = [pc EXCEPT ![c] = f]
    BY <1>1, <1>6 DEF Negotiate
  <2>2. <<[type |-> "local"]>> \in Seq(Ops)
    <3>. HIDE DEF Ops
    <3>. QED
      BY <1>4
  <2>3. f \in PeerConns /\ f.prox = e.prox /\ f.page = e.page
    BY <1>2, <2>1, <2>2 DEF PeerConns
  <2>. QED
    BY <1>5, <1>6, <2>1, <2>3 DEF Negotiate, Typed
<1>7. CASE SetLocal(c)
  <2>. DEFINE g == [e EXCEPT !.ops = Tail(@), !.making = FALSE]
              answers == g.sig = "have-remote-offer"
              tracks == IF answers THEN Min({want[c], g.sections}) ELSE want[c]
              f == IF answers THEN [g EXCEPT !.sig = "stable", !.sent = tracks]
                   ELSE [g EXCEPT !.sig = "have-local-offer", !.offered = tracks]
              m == [type |-> IF answers THEN "answer" ELSE "offer", tracks |-> tracks,
                    sections |-> Max({tracks, g.sections})]
  <2>1. e # None /\ e.ops # <<>> /\ pc' = [pc EXCEPT ![c] = f] /\ Up(c, m)
    BY <1>7 DEF SetLocal, Pending
  <2>2. g \in PeerConns /\ g.prox = e.prox /\ g.page = e.page /\ g.sections \in Nat
    BY <1>2, <1>3, <2>1 DEF PeerConns
  <2>3. tracks \in Nat
    BY <1>1, <2>2, Larger
  <2>4. Max({tracks, g.sections}) \in Nat
    BY <2>2, <2>3, Larger
  <2>5. m \in Asks
    BY <2>3, <2>4 DEF Asks
  <2>. HIDE DEF g, answers, tracks
  <2>6. f \in PeerConns /\ f.prox = g.prox /\ f.page = g.page
    BY <2>2, <2>3 DEF PeerConns
  <2>7. up' \in [Sides -> Seq(Asks)]
    BY <2>1, <2>5, UpTyped
  <2>. HIDE DEF f, m
  <2>. QED
    BY <1>5, <1>7, <2>1, <2>2, <2>6, <2>7 DEF SetLocal, Typed
<1>8. CASE SetRemoteOffer(c)
  <2>. DEFINE d == Head(e.ops)
              f == [e EXCEPT !.ops = Append(Tail(@), [type |-> "local"]),
                             !.sig = "have-remote-offer", !.offered = 0,
                             !.sections = Max({@, d.sections}), !.heard = d.tracks]
  <2>1. e # None /\ e.ops # <<>> /\ d.type = "offer" /\ pc' = [pc EXCEPT ![c] = f]
    BY <1>1, <1>8 DEF SetRemoteOffer, Pending
  <2>2. d.sections \in Nat /\ d.tracks \in Nat
    BY <1>3, <2>1 DEF Signals
  <2>3. Max({e.sections, d.sections}) \in Nat
    BY <1>2, <2>1, <2>2, Larger
  <2>4. Append(Tail(e.ops), [type |-> "local"]) \in Seq(Ops)
    <3>. HIDE DEF Ops
    <3>. QED
      BY <1>3, <1>4, <2>1, AppendDoes
  <2>. HIDE DEF d
  <2>5. f \in PeerConns /\ f.prox = e.prox /\ f.page = e.page
    BY <1>2, <2>1, <2>2, <2>3, <2>4 DEF PeerConns
  <2>. HIDE DEF f
  <2>. QED
    BY <1>5, <1>8, <2>1, <2>5 DEF SetRemoteOffer, Typed
<1>9. CASE SetRemoteAnswer(c)
  <2>. DEFINE d == Head(e.ops)
              g == [e EXCEPT !.ops = Tail(@)]
              f == IF g.sig # "have-local-offer" THEN g
                   ELSE [g EXCEPT !.sig = "stable", !.sent = g.offered, !.offered = 0,
                                  !.sections = d.sections, !.heard = d.tracks]
  <2>1. e # None /\ e.ops # <<>> /\ d.type = "answer" /\ pc' = [pc EXCEPT ![c] = f]
    BY <1>9 DEF SetRemoteAnswer, Pending
  <2>2. d.sections \in Nat /\ d.tracks \in Nat
    BY <1>3, <2>1 DEF Signals
  <2>3. g \in PeerConns /\ g.prox = e.prox /\ g.page = e.page /\ g.offered \in Nat
    BY <1>2, <1>3, <2>1 DEF PeerConns
  <2>. HIDE DEF d, g
  <2>4. f \in PeerConns /\ f.prox = g.prox /\ f.page = g.page
    BY <2>2, <2>3 DEF PeerConns
  <2>. HIDE DEF f
  <2>. QED
    BY <1>5, <1>9, <2>1, <2>3, <2>4 DEF SetRemoteAnswer, Typed
<1>. QED
  BY <1>6, <1>7, <1>8, <1>9 DEF Engine

(***************************************************************************)
(* Every step keeps the invariant.                                         *)
(***************************************************************************)
LEMMA QuietNews ==
  ASSUME LinkInv, link' = link, down' = down, quit' = quit,
         \A c \in Sides, kind \in Kinds : Held(c, kind)' = Held(c, kind)
  PROVE  News
<1>1. link.prox = 0 \/ link.prox # link.page
  BY DEF LinkInv, KindsApart
<1>. QED
  BY <1>1 DEF News

LEMMA ClientStep ==
  ASSUME LinkInv, NEW c \in Sides, AddTrack(c) \/ HangUp(c) \/ Receive(c) \/ Engine(c)
  PROVE  LinkInv'
<1>1. Typed
  BY DEF LinkInv
<1>2. CASE AddTrack(c)
  <2>1. Typed'
    BY <1>1, <1>2 DEF AddTrack, Typed
  <2>2. \A d \in Sides, kind \in Kinds : Held(d, kind)' = Held(d, kind)
    BY <1>2 DEF AddTrack, Held
  <2>3. News
    BY <1>2, <2>2, QuietNews DEF AddTrack
  <2>. QED
    BY <2>1, <2>3, NewsKeeps
<1>3. CASE HangUp(c)
  <2>1. pc[c] \in PeerConns
    BY <1>1, <1>3 DEF HangUp, Typed
  <2>2. Disconnect(pc[c], "page") \in PeerConns \union {None} /\ pc[c].page \in Nat
    BY <2>1, DisconnectHolds DEF Kinds, PeerConns
  <2>3. up' \in [Sides -> Seq(Asks)]
    <3>1. [type |-> "page_end"] \in Asks
      BY DEF Asks
    <3>. QED
      BY <1>1, <1>3, <3>1, UpTyped DEF HangUp
  <2>4. Typed'
    BY <1>1, <1>3, <2>2, <2>3 DEF HangUp, Typed
  <2>. QED
    BY <1>3, <2>4, HangUpKeeps
<1>4. CASE Receive(c)
  <2>1. down[c] \in Seq(Told) /\ down[c] # <<>> /\ pc[c] \in PeerConns \union {None}
    BY <1>1, <1>4 DEF Receive, Typed
  <2>2. Tail(down[c]) \in Seq(Told) /\ Head(down[c]) \in Told
    BY <2>1, TailDoes
  <2>3. Handled(c, pc[c], Head(down[c])) \in PeerConns \union {None}
    BY <2>1, <2>2, HandledHolds DEF Kinds
  <2>4. Typed'
    BY <1>1, <1>4, <2>2, <2>3 DEF Receive, Typed
  <2>. QED
    BY <1>4, <2>4, ReceiveKeeps
<1>5. CASE Engine(c)
  <2>1. Typed' /\ \A d \in Sides, kind \in Kinds : Held(d, kind)' = Held(d, kind)
    BY <1>1, <1>5, EngineTyped
  <2>2. link' = link /\ down' = down /\ quit' = quit
    BY <1>5 DEF Engine, Negotiate, SetLocal, SetRemoteOffer, SetRemoteAnswer
  <2>3. News
    BY <2>1, <2>2, QuietNews
  <2>. QED
    BY <2>1, <2>3, NewsKeeps
<1>. QED
  BY <1>2, <1>3, <1>4, <1>5

(* A link of a kind is opened: both are told of it.                        *)
LEMMA OpenStep ==
  ASSUME LinkInv, NEW kind \in Kinds, Open(kind)
  PROVE  LinkInv'
<1>. DEFINE m == [type |-> "connect", kind |-> kind, id |-> link.opened + 1]
<1>1. Typed /\ link.opened \in Nat /\ link \in [prox : Nat, page : Nat, opened : Nat]
  BY DEF LinkInv, Typed
<1>2. m \in Told
  BY <1>1 DEF Told
<1>3. down' \in [Sides -> Seq(Told)] /\ \A c \in Sides : Queues(c, m)
  BY <1>1, <1>2, TellTyped DEF Open
<1>4. /\ link' \in [prox : Nat, page : Nat, opened : Nat]
      /\ link'[kind] = link.opened + 1 /\ link'.opened = link.opened + 1
      /\ \A other \in Kinds \ {kind} : link'[other] = link[other]
  <2>1. link' = [link EXCEPT ![kind] = link.opened + 1, !.opened = link.opened + 1]
    BY DEF Open
  <2>2. CASE kind = "prox"
    <3>1. link' = [link EXCEPT !.prox = link.opened + 1, !.opened = link.opened + 1]
      BY <2>1, <2>2
    <3>2. ASSUME NEW n \in Nat, link' = [link EXCEPT !.prox = n, !.opened = n]
          PROVE  /\ link' \in [prox : Nat, page : Nat, opened : Nat]
                 /\ link'.prox = n /\ link'.opened = n /\ link'.page = link.page
      BY <1>1, <3>2
    <3>3. link.opened + 1 \in Nat
      BY <1>1
    <3>. QED
      BY <2>2, <3>1, <3>2, <3>3 DEF Kinds
  <2>3. CASE kind = "page"
    <3>1. link' = [link EXCEPT !.page = link.opened + 1, !.opened = link.opened + 1]
      BY <2>1, <2>3
    <3>2. ASSUME NEW n \in Nat, link' = [link EXCEPT !.page = n, !.opened = n]
          PROVE  /\ link' \in [prox : Nat, page : Nat, opened : Nat]
                 /\ link'.page = n /\ link'.opened = n /\ link'.prox = link.prox
      BY <1>1, <3>2
    <3>3. link.opened + 1 \in Nat
      BY <1>1
    <3>. QED
      BY <2>3, <3>1, <3>2, <3>3 DEF Kinds
  <2>. QED
    BY <2>2, <2>3 DEF Kinds
<1>5. Typed'
  BY <1>1, <1>3, <1>4 DEF Open, Typed
<1>6. quit' = quit /\ \A c \in Sides, k \in Kinds : Held(c, k)' = Held(c, k)
  BY DEF Open, Held
<1>7. link'.prox = 0 \/ link'.prox # link'.page
  <2>1. link.prox <= link.opened /\ link.page <= link.opened /\ link.prox \in Nat /\ link.page \in Nat
    BY <1>1 DEF LinkInv, KindsApart
  <2>2. CASE kind = "prox"
    BY <1>1, <1>4, <2>1, <2>2 DEF Kinds
  <2>3. CASE kind = "page"
    BY <1>1, <1>4, <2>1, <2>3 DEF Kinds
  <2>. QED
    BY <2>2, <2>3 DEF Kinds
<1>8. Fits(m) /\ Opens(m, kind, link'[kind])
  BY <1>4 DEF Fits, Opens, Signal
<1>. HIDE DEF m
<1>9. \A k \in Kinds :
        \/ link'[k] \in {0, link[k]}
        \/ /\ link'[k] = link.opened + 1 /\ link'.opened = link.opened + 1
           /\ \A c \in Sides : \E n \in Told : Queues(c, n) /\ Opens(n, k, link'[k])
  BY <1>2, <1>3, <1>4, <1>8
<1>10. \A c \in Sides : \E n \in Told : Queues(c, n) /\ Fits(n)
  BY <1>2, <1>3, <1>8
<1>11. News
  BY <1>4, <1>6, <1>7, <1>9, <1>10 DEF News
<1>. QED
  BY <1>5, <1>11, NewsKeeps

LEMMA CloseStep ==
  ASSUME LinkInv, Close
  PROVE  LinkInv'
<1>. DEFINE m == [type |-> "disconnect", kind |-> "prox"]
<1>1. Typed /\ link \in [prox : Nat, page : Nat, opened : Nat]
  BY DEF LinkInv, Typed
<1>2. m \in Told
  BY DEF Told, Kinds
<1>3. down' \in [Sides -> Seq(Told)] /\ \A c \in Sides : Queues(c, m)
  BY <1>1, <1>2, TellTyped DEF Close
<1>4. /\ link' \in [prox : Nat, page : Nat, opened : Nat]
      /\ link'.prox = 0 /\ link'.page = link.page /\ link'.opened = link.opened
  BY <1>1 DEF Close
<1>5. Typed'
  BY <1>1, <1>3, <1>4 DEF Close, Typed
<1>6. quit' = quit /\ \A c \in Sides, k \in Kinds : Held(c, k)' = Held(c, k)
  BY DEF Close, Held
<1>7. Fits(m)
  BY <1>4 DEF Fits, Signal
<1>. HIDE DEF m
<1>8. News
  BY <1>2, <1>3, <1>4, <1>6, <1>7 DEF News, Kinds
<1>. QED
  BY <1>5, <1>8, NewsKeeps

LEMMA ServerStep ==
  ASSUME LinkInv, NEW c \in Sides, Server(c)
  PROVE  LinkInv'
<1>1. Typed /\ link \in [prox : Nat, page : Nat, opened : Nat] /\ down \in [Sides -> Seq(Told)]
  BY DEF LinkInv, Typed
<1>2. link.prox = 0 \/ link.prox # link.page
  BY DEF LinkInv, KindsApart
<1>3. pc' = pc /\ quit' = quit /\ \A d \in Sides, k \in Kinds : Held(d, k)' = Held(d, k)
  BY DEF Server, RouteSignal, SignalLost, PageEnd, Held
<1>4. CASE SignalLost(c)
  <2>1. up' \in [Sides -> Seq(Asks)]
    BY <1>1, <1>4, ServedTyped DEF SignalLost
  <2>2. Typed'
    BY <1>1, <1>4, <2>1 DEF SignalLost, Typed
  <2>3. News
    BY <1>3, <1>4, QuietNews DEF SignalLost
  <2>. QED
    BY <2>2, <2>3, NewsKeeps
<1>5. CASE RouteSignal(c)
  <2>. DEFINE m == Relayed(Head(up[c]))
  <2>1. /\ up' \in [Sides -> Seq(Asks)] /\ Head(up[c]) \in Asks
        /\ Head(up[c]).type \in {"offer", "answer"}
    BY <1>1, <1>5, ServedTyped DEF RouteSignal
  <2>2. m \in Told /\ m.over = LinksOf(link) /\ m.type \in {"offer", "answer"}
    BY <1>1, <2>1, RelayedTyped
  <2>3. link' = link /\ want' = want
    BY <1>5 DEF RouteSignal
  <2>4. CASE ~Linked(link)
    <3>1. down' = down
      BY <1>5, <2>4 DEF RouteSignal, RelayedTo
    <3>2. Typed'
      BY <1>1, <1>3, <2>1, <2>3, <3>1 DEF Typed
    <3>3. News
      BY <1>3, <2>3, <3>1, QuietNews
    <3>. QED
      BY <3>2, <3>3, NewsKeeps
  <2>5. CASE Linked(link)
    <3>1. down' = [down EXCEPT ![Other(c)] = Append(down[Other(c)], m)]
      BY <1>5, <2>5 DEF RouteSignal, RelayedTo
    <3>2. Fits(m)
      BY <1>1, <2>2, <2>5, LinksAre DEF Fits
    <3>. HIDE DEF m
    <3>3. down' \in [Sides -> Seq(Told)] /\ \A d \in Sides : down'[d] = down[d] \/ Queues(d, m)
      BY <1>1, <2>2, <3>1, OneTold
    <3>4. Typed'
      BY <1>1, <1>3, <2>1, <2>3, <3>3 DEF Typed
    <3>5. News
      BY <1>2, <1>3, <2>2, <2>3, <3>2, <3>3 DEF News
    <3>. QED
      BY <3>4, <3>5, NewsKeeps
  <2>. QED
    BY <2>4, <2>5
<1>6. CASE PageEnd(c)
  <2>. DEFINE m == [type |-> "disconnect", kind |-> "page"]
  <2>1. up' \in [Sides -> Seq(Asks)]
    BY <1>1, <1>6, ServedTyped DEF PageEnd
  <2>2. m \in Told
    BY DEF Told, Kinds
  <2>3. /\ link' \in [prox : Nat, page : Nat, opened : Nat] /\ want' = want
        /\ link'.page = 0 /\ link'.prox = link.prox /\ link'.opened = link.opened
    BY <1>1, <1>6 DEF PageEnd
  <2>4. Fits(m)
    BY <2>3 DEF Fits, Signal
  <2>5. \/ down' = down
        \/ down' = [down EXCEPT ![Other(c)] = Append(down[Other(c)], m)]
    BY <1>6 DEF PageEnd
  <2>. HIDE DEF m
  <2>6. down' \in [Sides -> Seq(Told)] /\ \A d \in Sides : down'[d] = down[d] \/ Queues(d, m)
    BY <1>1, <2>2, <2>5, OneTold
  <2>7. Typed'
    BY <1>1, <1>3, <2>1, <2>3, <2>6 DEF Typed
  <2>8. News
    BY <1>3, <2>2, <2>3, <2>4, <2>6 DEF News, Kinds
  <2>. QED
    BY <2>7, <2>8, NewsKeeps
<1>. QED
  BY <1>4, <1>5, <1>6 DEF Server

LEMMA LinkInvInit == Init => LinkInv
<1>. SUFFICES ASSUME Init PROVE LinkInv
  OBVIOUS
<1>1. Typed
  <2>1. <<>> \in Seq(Asks) /\ <<>> \in Seq(Told)
    BY EmptySeq
  <2>. QED
    BY <2>1 DEF Init, Typed
<1>2. \A c \in Sides : down[c] = <<>> /\ quit[c] = 0 /\ \A kind \in Kinds : Held(c, kind) = 0
  BY DEF Init, Held, HeldBy
<1>3. link.prox = 0 /\ link.page = 0 /\ link.opened = 0
  BY DEF Init
<1>4. \A c \in Sides : Len(down[c]) = 0
  BY <1>2, EmptySeq
<1>5. SignalsExplained /\ OldPagesSilent
  BY <1>2, <1>4 DEF SignalsExplained, OldPagesSilent, Kinds
<1>6. LinksTold /\ KindsApart
  BY <1>3 DEF LinksTold, KindsApart, Kinds
<1>7. PagesInOrder
  BY <1>2, <1>3, <1>4 DEF PagesInOrder, Kinds
<1>. QED
  BY <1>1, <1>5, <1>6, <1>7 DEF LinkInv

LEMMA LinkInvStep ==
  ASSUME LinkInv, [Next]_linkVars
  PROVE  LinkInv'
<1>1. CASE UNCHANGED linkVars
  BY <1>1 DEF linkVars, LinkInv, Typed, SignalsExplained, LinksTold, PagesInOrder, KindsApart,
              OldPagesSilent, Silent, Held, Gives
<1>2. CASE Next
  BY <1>2, ClientStep, ServerStep, OpenStep, CloseStep DEF Next
<1>. QED
  BY <1>1, <1>2

(* What is explained of the links held is so of the connections.           *)
LEMMA LinkInvExplains == LinkInv => Explained
<1>. SUFFICES ASSUME LinkInv, NEW c \in Sides, NEW i \in DOMAIN down[c],
                     down[c][i].type \in {"offer", "answer"}
              PROVE  /\ down[c][i].over # {}
                     /\ \A id \in down[c][i].over \ {quit[c]} :
                          \E kind \in Kinds : WillHold(c, kind, id, i - 1)
  BY DEF Explained
<1>1. i \in 1 .. Len(down[c]) /\ Signal(down[c][i]) /\ Typed
  <2>1. down[c] \in Seq(Told) /\ Typed
    BY DEF LinkInv, Typed
  <2>. QED
    BY <2>1, LenProperties DEF Signal
<1>2. /\ down[c][i].over # {}
      /\ \A id \in down[c][i].over \ {quit[c]} :
           \E kind \in Kinds : Gives(down[c], Held(c, kind), kind, id, i - 1)
  BY <1>1 DEF LinkInv, SignalsExplained
<1>3. down[c][i].over \subseteq Nat \ {0}
  BY <1>1, Types
<1>4. ASSUME NEW id \in Nat \ {0}, NEW kind \in Kinds, Gives(down[c], Held(c, kind), kind, id, i - 1)
      PROVE  WillHold(c, kind, id, i - 1)
  BY <1>4 DEF Gives, WillHold, Held, HeldBy
<1>. QED
  BY <1>2, <1>3, <1>4

(* Spec keeps the links of every signal explained: whatever the timing of  *)
(* links, pages, hang-ups and lost signals, a signal is never handled by a *)
(* client that has not been told of the links it came over.                *)
THEOREM ExplainedCorrect == Spec => []Explained
<1>1. Spec => []LinkInv
  BY LinkInvInit, LinkInvStep, PTL DEF Spec
<1>. QED
  BY <1>1, LinkInvExplains, PTL
=============================================================================
