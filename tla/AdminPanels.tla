---------------------------- MODULE AdminPanels -----------------------------
(***************************************************************************)
(* An admin's panels (client/src/main.ts, and the panels of ui.ts): the    *)
(* invites out, made as a link or by mail, and the members.  Each command  *)
(* is a request to the auth backend, then a second one that fetches the    *)
(* panel's list again; commands overlap, and answers come in any order.    *)
(* The step that invites people right after an organisation is founded     *)
(* shares the mailing request, and its busy flag, with the panel.          *)
(*                                                                         *)
(* Nobody but this admin changes the lists; wording is left out.           *)
(***************************************************************************)
EXTENDS Naturals, Sequences, SequencesExt

CONSTANTS
  Rows,        (* what a list may hold: invites, or the other members      *)
  NoRow,
  MaxFlows     (* bound: commands in flight                                *)

VARIABLES
  held,     (* the backend's: [panel -> the rows it holds]                 *)
  flows,    (* commands in flight: what was asked, for which panel and     *)
            (* row, how the request fared (at), the list answered (rows)   *)
            (* and whether a later list was since (old)                    *)
  screen,   (* [panel -> is it up, its rows, its error]                    *)
  forms,    (* busy flags and what else the forms show                     *)
  overtaken   (* history: was a list shown after a later one of its panel,   *)
            (* or a panel opened with a mailing of the invite step about?  *)

panelVars == <<held, flows, screen, forms, overtaken>>

Panels == {"invites", "members"}

Flow(what, panel, row) ==
  [what |-> what, panel |-> panel, row |-> row, at |-> "asked", rows |-> {}, old |-> FALSE]

Begin(flow) ==
  /\ Len(flows) < MaxFlows
  /\ flows' = Append(flows, flow)

Lists == {"list", "issue list", "mail list"}

(* Lists of a panel that were served, and are yet to be shown.             *)
Coming(panel) ==
  {i \in DOMAIN flows : flows[i].what \in Lists /\ flows[i].panel = panel /\ flows[i].at = "done"}

(***************************************************************************)
(* Commands.                                                               *)
(***************************************************************************)
Closed == [up |-> FALSE, rows |-> {}, error |-> FALSE]

Untouched ==
  [issuing |-> FALSE, sending |-> FALSE, mailer |-> TRUE, setup |-> FALSE, armed |-> {}]

(* Whether there is a mailer was asked of the backend before.              *)
PanelInit ==
  /\ held \in [Panels -> SUBSET Rows]
  /\ flows = <<>>
  /\ screen = [panel \in Panels |-> Closed]
  /\ \E available \in BOOLEAN : forms = [Untouched EXCEPT !.mailer = available]
  /\ overtaken = FALSE

(* handleOpenInvitePanel, handleOpenMembersPanel: the list starts empty.   *)
HandleOpen(panel) ==
  /\ ~forms.setup
  /\ screen' = [screen EXCEPT ![panel] = [Closed EXCEPT !.up = TRUE]]
  /\ Begin(Flow("list", panel, NoRow))
  /\ forms' = IF panel = "members" THEN [forms EXCEPT !.armed = {}] ELSE forms
  /\ overtaken' = (overtaken \/ \E i \in DOMAIN flows : flows[i].what = "setup")
  /\ UNCHANGED held

Hide(panel) ==
  /\ screen[panel].up
  /\ screen' = [screen EXCEPT ![panel].up = FALSE]
  /\ UNCHANGED <<held, flows, forms, overtaken>>

HandleIssueInvite ==
  /\ screen["invites"].up /\ ~forms.issuing
  /\ forms' = [forms EXCEPT !.issuing = TRUE]
  /\ Begin(Flow("issue", "invites", NoRow))
  /\ UNCHANGED <<held, screen, overtaken>>

(* handleSendInviteEmails from the panel, which clears its error.          *)
SendFromPanel ==
  /\ screen["invites"].up /\ forms.mailer /\ ~forms.sending
  /\ forms' = [forms EXCEPT !.sending = TRUE]
  /\ screen' = [screen EXCEPT !["invites"].error = FALSE]
  /\ Begin(Flow("mail", "invites", NoRow))
  /\ UNCHANGED <<held, overtaken>>

HandleRevokeInvite(row) ==
  /\ screen["invites"].up /\ row \in screen["invites"].rows
  /\ Begin(Flow("revoke", "invites", row))
  /\ UNCHANGED <<held, screen, forms, overtaken>>

(* The first click arms a row's button, the second removes the member.     *)
ArmRemove(row) ==
  /\ screen["members"].up /\ row \in screen["members"].rows
  /\ forms' = [forms EXCEPT !.armed = @ \union {row}]
  /\ UNCHANGED <<held, flows, screen, overtaken>>

HandleRemoveMember(row) ==
  /\ screen["members"].up /\ row \in forms.armed
  /\ Begin(Flow("remove", "members", row))
  /\ UNCHANGED <<held, screen, forms, overtaken>>

(* The invite step, on the join card, where no panel is.                   *)
ShowInviteSetup ==
  /\ ~forms.setup /\ \A panel \in Panels : ~screen[panel].up
  /\ forms' = [forms EXCEPT !.setup = TRUE]
  /\ UNCHANGED <<held, flows, screen, overtaken>>

SendFromSetup ==
  /\ forms.setup /\ forms.mailer /\ ~forms.sending
  /\ forms' = [forms EXCEPT !.sending = TRUE]
  /\ Begin(Flow("setup", "invites", NoRow))
  /\ UNCHANGED <<held, screen, overtaken>>

(* Entering the office, perhaps while a mailing is in flight.              *)
HideInviteSetup ==
  /\ forms.setup
  /\ forms' = [forms EXCEPT !.setup = FALSE, !.sending = FALSE]
  /\ UNCHANGED <<held, flows, screen, overtaken>>

(***************************************************************************)
(* The backend, and requests that fail before or after it acted.  It may   *)
(* be unable to mail to any of the addresses.                              *)
(***************************************************************************)
Acts(flow) ==
  CASE flow.what = "issue" -> {held["invites"] \union {row} : row \in Rows \ held["invites"]}
    [] flow.what \in {"mail", "setup"} -> {held["invites"] \union {row} : row \in Rows}
    [] flow.what \in {"revoke", "remove"} -> {held[flow.panel] \ {flow.row}}
    [] OTHER -> {held[flow.panel]}

Serve(i) ==
  /\ flows[i].at = "asked"
  /\ \E rows \in Acts(flows[i]), at \in {"done", "failed"} :
       /\ held' = [held EXCEPT ![flows[i].panel] = rows]
       /\ LET lists == flows[i].what \in Lists /\ at = "done"
              served == [flows[i] EXCEPT !.at = at, !.row = NoRow, !.rows = IF lists THEN rows ELSE {}]
          IN  flows' = [k \in DOMAIN flows |->
                IF k = i THEN served
                ELSE IF lists /\ k \in Coming(flows[i].panel) THEN [flows[k] EXCEPT !.old = TRUE]
                ELSE flows[k]]
  /\ UNCHANGED <<screen, forms, overtaken>>

(* A mailing may be refused for lack of a mailer.                          *)
Fail(i) ==
  /\ flows[i].at = "asked"
  /\ \E at \in IF flows[i].what \in {"mail", "setup"} THEN {"failed", "no mailer"}
                                                      ELSE {"failed"} :
       flows' = [flows EXCEPT ![i].at = at]
  /\ UNCHANGED <<held, screen, forms, overtaken>>

(***************************************************************************)
(* Answers.                                                                *)
(***************************************************************************)
ShowError(panel) == screen' = [screen EXCEPT ![panel].error = TRUE]

(* finally: the form of the command is free again.                         *)
Freed(what) ==
  CASE what \in {"issue", "issue list"} -> [forms EXCEPT !.issuing = FALSE]
    [] what \in {"mail", "mail list", "setup"} -> [forms EXCEPT !.sending = FALSE]
    [] OTHER -> forms

(* setEmailInvitesAvailable(false), where a mailing found no mailer.       *)
MailerGone(f, at) == [f EXCEPT !.mailer = @ /\ at # "no mailer"]

Ended(i) == flows' = RemoveAt(flows, i)

Refreshing(i, what) ==
  flows' = [flows EXCEPT ![i] = Flow(what, flows[i].panel, NoRow)]

(* The list is shown, or an error in its place.                            *)
Listed(i) ==
  /\ flows[i].what \in Lists /\ flows[i].at \in {"done", "failed"}
  /\ screen' = LET panel == flows[i].panel
               IN  IF flows[i].at = "done" THEN [screen EXCEPT ![panel].rows = flows[i].rows]
                   ELSE [screen EXCEPT ![panel].error = TRUE]
  /\ overtaken' = (overtaken \/ (flows[i].old /\ Coming(flows[i].panel) = {i}))
  /\ Ended(i)
  /\ UNCHANGED held

RefreshInviteList(i) ==
  /\ flows[i].panel = "invites" /\ Listed(i)
  /\ forms' = Freed(flows[i].what)

(* Nothing is armed after a render.                                        *)
RefreshMemberList(i) ==
  /\ flows[i].panel = "members" /\ Listed(i)
  /\ forms' = [forms EXCEPT !.armed = IF flows[i].at = "done" THEN {} ELSE @]

(* An invite made: the list is fetched again, and only then is the form    *)
(* free.                                                                   *)
IssueAnswered(i) ==
  /\ flows[i].what = "issue" /\ flows[i].at # "asked"
  /\ IF flows[i].at = "done"
     THEN Refreshing(i, "issue list") /\ UNCHANGED <<screen, forms>>
     ELSE Ended(i) /\ ShowError("invites") /\ forms' = Freed("issue")
  /\ UNCHANGED <<held, overtaken>>

(* Of the addresses some may have failed.                                  *)
MailAnswered(i) ==
  /\ flows[i].what = "mail" /\ flows[i].at # "asked"
  /\ IF flows[i].at = "done"
     THEN /\ UNCHANGED screen \/ ShowError("invites")
          /\ Refreshing(i, "mail list") /\ UNCHANGED forms
     ELSE /\ Ended(i) /\ ShowError("invites")
          /\ forms' = MailerGone(Freed("mail"), flows[i].at)
  /\ UNCHANGED <<held, overtaken>>

(* The invite step shows its outcome itself, and fetches no list.          *)
SetupAnswered(i) ==
  /\ flows[i].what = "setup" /\ flows[i].at # "asked"
  /\ forms' = MailerGone(Freed("setup"), flows[i].at)
  /\ Ended(i)
  /\ UNCHANGED <<held, screen, overtaken>>

(* Mutant of RevokeAnswered: a failure ends the command.                   *)
RevokeForgotten(i) ==
  /\ flows[i].what = "revoke" /\ flows[i].at # "asked"
  /\ IF flows[i].at = "done" THEN Refreshing(i, "list") ELSE Ended(i)
  /\ UNCHANGED <<held, screen, forms, overtaken>>

(* "Authoritative state either way": the list is fetched again.            *)
RevokeAnswered(i) ==
  /\ flows[i].what = "revoke" /\ flows[i].at # "asked"
  /\ Refreshing(i, "list")
  /\ UNCHANGED <<held, screen, forms, overtaken>>

RemoveAnswered(i) ==
  /\ flows[i].what = "remove" /\ flows[i].at # "asked"
  /\ IF flows[i].at = "failed" THEN ShowError("members") ELSE UNCHANGED screen
  /\ Refreshing(i, "list")
  /\ UNCHANGED <<held, forms, overtaken>>

PanelNext ==
  \/ \E panel \in Panels : HandleOpen(panel) \/ Hide(panel)
  \/ HandleIssueInvite \/ SendFromPanel \/ ShowInviteSetup \/ SendFromSetup \/ HideInviteSetup
  \/ \E row \in Rows : HandleRevokeInvite(row) \/ ArmRemove(row) \/ HandleRemoveMember(row)
  \/ \E i \in DOMAIN flows : Serve(i) \/ Fail(i)
  \/ \E i \in DOMAIN flows :
       \/ RefreshInviteList(i) \/ RefreshMemberList(i)
       \/ IssueAnswered(i) \/ MailAnswered(i) \/ SetupAnswered(i)
       \/ RevokeAnswered(i) \/ RemoveAnswered(i)

PanelSpec == PanelInit /\ [][PanelNext]_panelVars

(***************************************************************************)
(* Properties.                                                             *)
(***************************************************************************)
(* main.ts, of a failed revocation: "the refresh below shows the           *)
(* authoritative state either way".  Whatever commands overlap and fail    *)
(* half-way: with nothing in flight, and unless the answers came out of    *)
(* order, a panel lists what the backend holds, or says something failed.  *)
PanelCurrent ==
  flows = <<>> /\ ~overtaken =>
    \A panel \in Panels : screen[panel].up =>
      screen[panel].error \/ screen[panel].rows = held[panel]

=============================================================================
