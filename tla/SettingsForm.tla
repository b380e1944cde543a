---------------------------- MODULE SettingsForm ----------------------------
(***************************************************************************)
(* The two forms over an organization's settings: the chat widget on the   *)
(* settings page and the shared behaviour on the agents page.  A form is   *)
(* filled during render from whatever data useResource holds whenever that *)
(* is another object than before, and saved as a whole.  A value is known  *)
(* by the organization it was read from or typed for.                      *)
(***************************************************************************)
CONSTANTS Owned,    \* organizations of the viewer, who owns them
          Texts,    \* fields that are not sent when they are blank
          Options,  \* fields that always are: temperature, colour, toggle
          Default   \* useState's: a blank text, a choice of no organization

ASSUME SettingsFormAssumption ==
  Texts \cap Options = {} /\ Default \notin Owned

Row == [Texts \cup Options -> Owned \cup {Default}]

VARIABLES
  stored,  \* backend: the settings of each organization
  here,    \* the organization now
  wait,    \* useResource: the fetch for it (one for another is cancelled)
  held,    \* useResource: the snapshot, the organization in its key
  form,    \* what the inputs show
  dirty,   \* an input was changed since the form was filled
  saving,  \* the save under way: the organization and values it was sent with
  strayed  \* history: see Save and FinishSave

settingsVars == <<stored, here, wait, held, form, dirty, saving, strayed>>

\* Rows as the backend creates or last saved them: a text may be blank.
Own(o) == {row \in Row : /\ \A f \in Texts : row[f] \in {o, Default}
                         /\ \A f \in Options : row[f] = o}
Unfilled == [f \in Texts \cup Options |-> Default]

SettingsInit ==
  /\ here \in Owned
  /\ stored \in {s \in [Owned -> Row] : \A o \in Owned : s[o] \in Own(o)}
  /\ wait = [st |-> "asked", row |-> Unfilled]
  /\ held = [st |-> "null", of |-> here]
  /\ form = Unfilled /\ dirty = FALSE
  /\ saving = [st |-> "none", to |-> here, row |-> Unfilled]
  /\ strayed = FALSE

\* OrgSwitcher: the page stays, with what its inputs show.
SwitchTo(o) ==
  /\ o # here /\ here' = o
  /\ wait' = [st |-> "asked", row |-> Unfilled]
  /\ UNCHANGED <<stored, held, form, dirty, saving, strayed>>

\* get_settings
ServeSettings ==
  /\ wait.st = "asked"
  /\ wait' \in {[st |-> "ok", row |-> stored[here]], [st |-> "failed", row |-> Unfilled]}
  /\ UNCHANGED <<stored, here, held, form, dirty, saving, strayed>>

\* Data that arrives fills the form; an error leaves it as it is.
\* Mutant: the form is filled once.
ArriveSettings_Once ==
  /\ wait.st \in {"ok", "failed"} /\ wait' = [st |-> "none", row |-> Unfilled]
  /\ held' = [st |-> IF wait.st = "ok" THEN "data" ELSE "error", of |-> here]
  /\ IF wait.st = "ok" /\ held.st = "null"
     THEN form' = wait.row /\ dirty' = FALSE
     ELSE UNCHANGED <<form, dirty>>
  /\ UNCHANGED <<stored, here, saving, strayed>>
ArriveSettings ==
  /\ wait.st \in {"ok", "failed"} /\ wait' = [st |-> "none", row |-> Unfilled]
  /\ held' = [st |-> IF wait.st = "ok" THEN "data" ELSE "error", of |-> here]
  /\ IF wait.st = "ok" THEN form' = wait.row /\ dirty' = FALSE
     ELSE UNCHANGED <<form, dirty>>
  /\ UNCHANGED <<stored, here, saving, strayed>>

\* The inputs are there unless it is the first load or the last one failed.
InputsShown == held.st # "null" /\ ~(wait.st = "none" /\ held.st = "error")

Edit(f, v) ==
  /\ InputsShown
  /\ v = here \/ (f \in Texts /\ v = Default)
  /\ form' = [form EXCEPT ![f] = v] /\ dirty' = TRUE
  /\ UNCHANGED <<stored, here, wait, held, saving, strayed>>

\* The data of the organization now is there.
FormSettled == wait.st = "none" /\ held.st = "data"

\* "Save" stands above the inputs, also while they are loading or have failed to.
Save ==
  /\ dirty /\ saving.st = "none"
  /\ saving' = [st |-> "asked", to |-> here, row |-> form]
  /\ strayed' = (strayed \/ ~FormSettled)
  /\ UNCHANGED <<stored, here, wait, held, form, dirty>>

\* update_settings: fields that are missing keep their value.
Merged(row, new) ==
  [f \in DOMAIN row |-> IF f \in Texts /\ new[f] = Default THEN row[f] ELSE new[f]]

\* Refused without the plan the fields need, or failed.
ServeSave ==
  /\ saving.st = "asked"
  /\ \/ LET row == Merged(stored[saving.to], saving.row) IN
          /\ stored' = [stored EXCEPT ![saving.to] = row]
          /\ saving' = [saving EXCEPT !.st = "ok", !.row = row]
     \/ saving' = [saving EXCEPT !.st = "failed"] /\ UNCHANGED stored
  /\ UNCHANGED <<here, wait, held, form, dirty, strayed>>

\* setData(next) under the key there is, which fills the form again, over what
\* was typed meanwhile.
FinishSave ==
  /\ saving.st \in {"ok", "failed"}
  /\ saving' = [saving EXCEPT !.st = "none", !.row = Unfilled]
  /\ IF saving.st = "failed" THEN UNCHANGED <<held, form, dirty, strayed>>
     ELSE /\ held' = [held EXCEPT !.st = "data"]
          /\ form' = saving.row /\ dirty' = FALSE
          /\ strayed' = (strayed \/ saving.to # held.of)
  /\ UNCHANGED <<stored, here, wait>>

SettingsNext ==
  \/ ServeSettings \/ ArriveSettings \/ Save \/ ServeSave \/ FinishSave
  \/ \E o \in Owned : SwitchTo(o)
  \/ \E f \in Texts \cup Options, v \in Owned \cup {Default} : Edit(f, v)

-----------------------------------------------------------------------------
SettingsTypeOK ==
  /\ stored \in [Owned -> Row] /\ here \in Owned /\ form \in Row
  /\ wait \in [st: {"none", "asked", "ok", "failed"}, row: Row]
  /\ held \in [st: {"null", "data", "error"}, of: Owned]
  /\ dirty \in BOOLEAN /\ strayed \in BOOLEAN
  /\ saving \in [st: {"none", "asked", "ok", "failed"}, to: Owned, row: Row]

\* Settings do not leak from one organization into another, however the viewer
\* switches between them and in whatever order answers and saves come: unless
\* Save was pressed before the data of the organization was there, or a save was
\* answered when the page already held another's, an organization's settings are
\* its own.
SettingsStayHome ==
  ~strayed => \A o \in Owned : stored[o] \in Own(o)
=============================================================================
