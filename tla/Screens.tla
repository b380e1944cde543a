------------------------------ MODULE Screens ------------------------------
(***************************************************************************)
(* A visit to one of the dashboard's working screens: the list of          *)
(* escalations, the controls of one of them, a thread of replies or notes, *)
(* the conversations inbox, a settings form, the notification feed, the    *)
(* charts and figures, the audit log, the forgot-password dialog, or the   *)
(* webhooks with their deliveries.  What the screens show together they    *)
(* share through the backend only, so a visit is to one of them.           *)
(***************************************************************************)
EXTENDS TicketList, TicketPane, Inbox, SettingsForm, Feed, Metrics, Board,
        Audit, PasswordReset, Deliveries

VARIABLE visit

vars == <<visit, listVars, controlVars, threadVars, inboxVars, settingsVars, feedVars, metricsVars, boardVars, auditVars, resetVars, webhookVars>>

Visits == {"list", "controls", "thread", "inbox", "settings", "feed", "charts", "board", "audit", "reset", "webhooks"}

\* What the visit does not touch starts in one way only.
Init ==
  /\ visit \in Visits
  /\ ListInit
  /\ visit # "list" => opened = 0 /\ query.org = CHOOSE org \in Orgs : TRUE
  /\ ControlsInit
  /\ visit # "controls" => ticket = CHOOSE t \in Ticket : TRUE
  /\ ThreadInit
  /\ visit # "thread" => place = "ticket"
  /\ InboxInit
  /\ visit # "inbox" => version = None0
  /\ SettingsInit
  /\ visit # "settings" => /\ here = CHOOSE o \in Owned : TRUE
                           /\ stored = [o \in Owned |-> CHOOSE row \in Own(o) : TRUE]
  /\ FeedInit /\ MetricsInit
  /\ visit # "charts" => zone = CHOOSE z \in [old: Offsets, new: Offsets, at: Instants] : TRUE
  /\ BoardInit /\ AuditInit
  /\ visit # "audit" => team = CHOOSE o \in Teams : TRUE
  /\ ResetInit /\ DeliveryInit /\ DialogInit

Next ==
  \/ /\ visit = "list" /\ ListNext
     /\ UNCHANGED <<visit, controlVars, threadVars, inboxVars, settingsVars, feedVars, metricsVars, boardVars, auditVars, resetVars, webhookVars>>
  \/ /\ visit = "controls" /\ ControlsNext
     /\ UNCHANGED <<visit, listVars, inboxVars, settingsVars, feedVars, metricsVars, boardVars, auditVars, resetVars, webhookVars>>
  \/ /\ visit = "thread" /\ ThreadNext
     /\ UNCHANGED <<visit, listVars, inboxVars, settingsVars, feedVars, metricsVars, boardVars, auditVars, resetVars, webhookVars>>
  \/ /\ visit = "inbox" /\ InboxNext
     /\ UNCHANGED <<visit, listVars, controlVars, threadVars, settingsVars, feedVars, metricsVars, boardVars, auditVars, resetVars, webhookVars>>
  \/ /\ visit = "settings" /\ SettingsNext
     /\ UNCHANGED <<visit, listVars, controlVars, threadVars, inboxVars, feedVars, metricsVars, boardVars, auditVars, resetVars, webhookVars>>
  \/ /\ visit = "feed" /\ FeedNext
     /\ UNCHANGED <<visit, listVars, controlVars, threadVars, inboxVars, settingsVars, metricsVars, boardVars, auditVars, resetVars, webhookVars>>
  \/ /\ visit = "charts" /\ MetricsNext
     /\ UNCHANGED <<visit, listVars, controlVars, threadVars, inboxVars, settingsVars, feedVars, boardVars, auditVars, resetVars, webhookVars>>
  \/ /\ visit = "board" /\ BoardNext
     /\ UNCHANGED <<visit, listVars, controlVars, threadVars, inboxVars, settingsVars, feedVars,
                    metricsVars, auditVars, resetVars, webhookVars>>
  \/ /\ visit = "audit" /\ AuditNext
     /\ UNCHANGED <<visit, listVars, controlVars, threadVars, inboxVars, settingsVars, feedVars,
                    metricsVars, boardVars, resetVars, webhookVars>>
  \/ /\ visit = "reset" /\ ResetNext
     /\ UNCHANGED <<visit, listVars, controlVars, threadVars, inboxVars, settingsVars, feedVars,
                    metricsVars, boardVars, auditVars, webhookVars>>
  \/ /\ visit = "webhooks" /\ WebhooksNext
     /\ UNCHANGED <<visit, listVars, controlVars, threadVars, inboxVars, settingsVars, feedVars,
                    metricsVars, boardVars, auditVars, resetVars>>

Spec == Init /\ [][Next]_vars

TypeOK ==
  /\ visit \in Visits /\ ListTypeOK /\ PaneTypeOK /\ InboxTypeOK
  /\ SettingsTypeOK /\ FeedTypeOK /\ MetricsTypeOK /\ BoardTypeOK /\ AuditTypeOK /\ ResetTypeOK
  /\ DeliveryTypeOK /\ DialogTypeOK

\* The figures of the overview, analytics and agents pages, drawn by day or counted,
\* are those of the lists they are derived from.
FiguresAreTrue == CountedOnItsDay /\ BoardHolds

\* A log is that of what it is shown for, from the moment it was opened: the audit
\* log of its organization, the deliveries of the endpoint whose dialog is open.
LogsAreTheirOwn == LogIsTheOrganizations /\ DialogIsCurrent
=============================================================================
