----------------------------- MODULE MCOffice -------------------------------
(* The client's office: the join card, the panels an admin opens, and the  *)
(* floor.  None of the three modules reads another's variables, so each    *)
(* behaviour takes the steps of one while the others rest.                 *)
EXTENDS OrgDesk, AdminPanels, Floor, FiniteSets

CONSTANTS
  home, away, lobby, team,
  MaxAtOnce  (* bound: how many of AtOnce hold at a time                   *)

VARIABLE topic  (* the module whose actions this behaviour takes         *)

(* Bound: one organisation at a time is in the gate's cache, and none      *)
(* while a trial is anywhere; only home is ever on trial.  It bars nothing *)
(* but GateLocks and BillingMoves, and neither is fair.                    *)
CardBound ==
  /\ Cardinality(gate) <= 1 /\ billing[away] # "trial"
  /\ gate # {} => /\ d.trial = None /\ billing[home] # "trial"
                  /\ \A i \in DOMAIN bills : bills[i].answer # "trial"

(* Bound: no invite is out at first, and every other member is there.      *)
MCInit ==
  /\ topic \in {"card", "panels", "floor"}
  /\ Init /\ CardBound /\ (topic # "card" => \A org \in Orgs : billing[org] = "paid")
  /\ PanelInit /\ held = [invites |-> {}, members |-> Rows]
  /\ topic # "panels" => forms.mailer
  /\ FloorInit

MCNext ==
  /\ UNCHANGED topic
  /\ \/ topic = "card" /\ Next /\ CardBound' /\ UNCHANGED <<panelVars, floorVars>>
     \/ topic = "panels" /\ PanelNext /\ UNCHANGED <<deskVars, floorVars>>
     \/ topic = "floor" /\ FloorNext /\ UNCHANGED <<deskVars, panelVars>>

MCSpec ==
  MCInit /\ [][MCNext]_<<topic, deskVars, panelVars, floorVars>> /\ Fairness

(* Bound: one panel is used at a time, and the invite step before or after *)
(* one; nothing is asked of what is shown after answers out of order.      *)
OnePanel ==
  /\ ~overtaken
  /\ \E panel \in Panels :
       ~screen[panel].up /\ \A i \in DOMAIN flows : flows[i].panel # panel
  /\ forms.setup => \A i \in DOMAIN flows : flows[i].what = "setup"

(* Bound: on the floor not everything happens at once.                     *)
AtOnce ==
  {x \in {<<"away", c.away>>, <<"microphone", c.mic # "muted">>, <<"peer", c.peer # Nil>>,
          <<"reading", c.chatOpen>>, <<"walking", Moving(c)>>,
          <<"both keys", c.keys = Directions>>,
          <<"asked to switch", \E i \in DOMAIN toServer : toServer[i].t = "enter">>,
          <<"told of a switch", toClient # <<>> >>} :
     x[2]}

MCBound == OnePanel /\ Cardinality(AtOnce) <= MaxAtOnce
=============================================================================
