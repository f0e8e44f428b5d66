--------------------------- MODULE ProximityLoop ---------------------------
(***************************************************************************)
(* update_proximity as the code runs it on the members of one space: peers *)
(* in some order (they come out of a HashSet, so in any order), every pair *)
(* i < j examined once, the link sets and both peers' deltas updated pair  *)
(* by pair, the link read from the entry of the earlier peer only.  Spaces *)
(* ticks by the closed form of module Proximity; this is what it stands    *)
(* for, evaluated in every state of Spaces.                                *)
(***************************************************************************)
EXTENDS Spaces, SequencesExt

(* A link is made: both entries, and both peers told, the smaller id to    *)
(* make the offer.                                                        *)
Told(id, offers) == [id |-> id, initiator |-> offers]

Link(acc, a, b) ==
  [sets |-> [acc.sets EXCEPT ![a] = @ \union {b}, ![b] = @ \union {a}],
   connect |-> [acc.connect EXCEPT ![a] = Append(@, Told(b, a < b)),
                                   ![b] = Append(@, Told(a, ~(a < b)))],
   disconnect |-> acc.disconnect]

(* A link is dropped.  The first is a mutant: one side is not told.        *)
UnlinkTellingOne(acc, a, b) ==
  [sets |-> [acc.sets EXCEPT ![a] = @ \ {b}, ![b] = @ \ {a}],
   connect |-> acc.connect,
   disconnect |-> [acc.disconnect EXCEPT ![a] = Append(@, b)]]

Unlink(acc, a, b) ==
  [sets |-> [acc.sets EXCEPT ![a] = @ \ {b}, ![b] = @ \ {a}],
   connect |-> acc.connect,
   disconnect |-> [acc.disconnect EXCEPT ![a] = Append(@, b), ![b] = Append(@, a)]]

(* The pair of a and b is examined, a the one earlier in the order.        *)
ExaminePair(floor, acc, a, b) ==
  LET blocked == Blocked(floor, pos[a], pos[b], dnd[a], dnd[b])
      connected == b \in acc.sets[a]
  IN  IF ~connected /\ ~blocked /\ Near(floor, pos[a], pos[b])
        THEN Link(acc, a, b)
      ELSE IF connected /\ (blocked \/ Far(floor, pos[a], pos[b]))
        THEN Unlink(acc, a, b)
      ELSE acc

Untold(sets) ==
  [sets |-> sets, connect |-> [p \in Members |-> <<>>], disconnect |-> [p \in Members |-> <<>>]]

(* The i-th peer with every later one; and so for each i.                  *)
InnerLoop(floor, order, acc, i) ==
  LET inner[j \in i .. Len(order)] ==
        IF j = i THEN acc ELSE ExaminePair(floor, inner[j - 1], order[i], order[j])
  IN  inner[Len(order)]

Loop(s, order) ==
  LET outer[i \in 0 .. Len(order)] ==
        IF i = 0 THEN Untold(links[s]) ELSE InnerLoop(Floor[s], order, outer[i - 1], i)
  IN  outer[Len(order)]

Orders(s) == SetToSeqs(memberIds[s])

(* Whatever order the members come in, the loop computes the closed form   *)
(* the tick is modelled by, and what each peer is told is exactly how its  *)
(* own links changed, each change once, the smaller id to make the offer:  *)
(* `connect` and `disconnect` are all a client ever hears of a link; two   *)
(* offers would glare, none would leave the link silent.                   *)
LoopTellsTheChange ==
  \A s \in SpaceIds : \A order \in Orders(s) :
    LET run == Loop(s, order)
    IN  /\ run.sets = UpdateProximity(Floor[s], memberIds[s], pos, dnd, links[s])
        /\ \A p \in memberIds[s] :
             /\ ToSet(run.connect[p]) = Connects(links[s], run.sets, p)
             /\ ToSet(run.disconnect[p]) = Disconnects(links[s], run.sets, p)
             /\ IsInjective(run.connect[p]) /\ IsInjective(run.disconnect[p])
=============================================================================
