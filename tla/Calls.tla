------------------------------- MODULE Calls -------------------------------
(***************************************************************************)
(* What paging promises, without saying how: between two members there is  *)
(* nothing, or a ring with a caller and a callee, or a live call, and      *)
(*   - a call goes live only by an answer to a ring of that very pair;     *)
(*   - a pair has one ring or one call at a time;                          *)
(*   - what one member does ends calls and rings of that member only.      *)
(* PROTOCOL.md: a page is "an explicit, mutually accepted 1:1 call".       *)
(***************************************************************************)
CONSTANT Persons

VARIABLES
  ringing,  (* set of <<caller, callee>>        *)
  live      (* set of pairs {a, b} in a call    *)

callsVars == <<ringing, live>>

Idle(a, b) ==
  /\ <<a, b>> \notin ringing /\ <<b, a>> \notin ringing
  /\ {a, b} \notin live

Init == ringing = {} /\ live = {}

Ring(a, b) ==
  /\ a # b /\ Idle(a, b)
  /\ ringing' = ringing \union {<<a, b>>}
  /\ UNCHANGED live

(* The callee b answers.                                                   *)
Answer(a, b) ==
  /\ <<a, b>> \in ringing
  /\ ringing' = ringing \ {<<a, b>>}
  /\ live' = live \union {{a, b}}

(* Some rings and calls of member m end: it hung up, cancelled, declined,  *)
(* was not answered, or left.                                              *)
End(m) ==
  /\ ringing' \subseteq ringing /\ live' \subseteq live
  /\ \A a, b \in Persons : <<a, b>> \in ringing \ ringing' => m \in {a, b}
  /\ \A c \in live \ live' : m \in c

Next ==
  \/ \E a, b \in Persons : Ring(a, b) \/ Answer(a, b)
  \/ \E m \in Persons : End(m)

Spec == Init /\ [][Next]_callsVars
=============================================================================
