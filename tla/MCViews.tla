------------------------------ MODULE MCViews ------------------------------
(* What is kept and what is shown: an org's catalog, its chats and their   *)
(* views, the space and the roster as clients see them, and the video      *)
(* panel.  None of the four modules reads another's variables, so each     *)
(* behaviour takes the steps of one while the others rest.                 *)
EXTENDS Chat, Catalog, SpaceViews, VideoPanel

CONSTANTS alice, bob, lobby, dev, red, blue, green

VARIABLE topic  (* the module whose actions this behaviour takes         *)

MCPersons == {alice, bob}
MCBob == {bob}
MCBoards == {lobby, dev}

MCNames == {dev, red, blue, green}

(* Two clients, a lobby with radii and a one-call team space; arrivals     *)
(* stand together, and one step takes them out of earshot.  The lobby is   *)
(* full with one member for whoever comes back to it; join does not look.  *)
MCCapacity == [s \in MCBoards |-> IF s = lobby THEN 1 ELSE 2]
MCFloor ==
  [s \in MCBoards |-> IF s = lobby THEN [near |-> 1, far |-> 1, rooms |-> {}]
                                   ELSE [near |-> 9, far |-> 9, rooms |-> {}]]
MCRequests == {<<0, 0>>, <<2, 0>>}
MCSpawns == {<<0, 0>>}

MCInit ==
  /\ topic \in {"catalog", "chat", "view", "panel"}
  /\ CatalogInit /\ ChatInit /\ ViewInit /\ PanelInit

MCNext ==
  /\ UNCHANGED topic
  /\ \/ topic = "catalog" /\ CatalogNext /\ UNCHANGED <<chatVars, viewVars, panelVars>>
     \/ topic = "chat" /\ ChatNext /\ UNCHANGED <<catalogVars, viewVars, panelVars>>
     \/ topic = "view" /\ ViewNext /\ UNCHANGED <<catalogVars, chatVars, panelVars>>
     \/ topic = "panel" /\ PanelNext /\ UNCHANGED <<catalogVars, chatVars, viewVars>>

MCSpec == MCInit /\ [][MCNext]_<<topic, chatVars, catalogVars, viewVars, panelVars>>

(* Bound: alice posts and listens; only bob changes space, opens chats, or *)
(* comes back after a crash.                                               *)
MCBound == /\ crashes > 0 => at[alice] = Nowhere
           /\ at[alice] # dev
           /\ session[alice] # Null => ~session[alice].open
=============================================================================
