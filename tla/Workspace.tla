----------------------------- MODULE Workspace -----------------------------
(***************************************************************************)
(* What every dashboard page stands on: OrganizationContext (the list of   *)
(* organizations, the active one, its subscription and the viewer's role), *)
(* AppShell with the three-step OrganizationSetup wizard, OrgSwitcher, and *)
(* the two pages that ask it to change, settings and billing.              *)
(*                                                                         *)
(* One browser tab.  A request is a job: asked, then answered by the       *)
(* backend in any order, then handled by the code after the await.  Two    *)
(* identical requests in the same state count as one job.                  *)
(***************************************************************************)
EXTENDS Naturals, FiniteSets

CONSTANTS Orgs,      \* organizations there are or may be created
          Owned,     \* those the viewer owns (a created one is owned)
          None,      \* no organization
          MaxJobs    \* bound on the requests under way when a person acts

ASSUME WorkspaceAssumption == Owned \subseteq Orgs /\ None \notin Orgs /\ MaxJobs \in Nat

VARIABLES
  mine,      \* backend: the organizations the viewer belongs to
  billed,    \* Stripe: organizations with a subscription it charges
  saved,     \* localStorage: ACTIVE_ORG_KEY
  ws,        \* the state of OrganizationProvider, AppShell and the wizard
  jobs       \* requests under way

vars == <<mine, billed, saved, ws, jobs>>

Sub  == {"unknown", "free", "stripe"}
Role == {"unknown", "owner", "member"}
Kind == {"list", "detail", "create", "setup", "base", "rename", "delete", "checkout", "portal"}

\* "org" is what the closure of the request captured; a list asked by refresh()
\* remembers the organization whose detail comes next.
Job == {j \in [kind: Kind, org: Orgs \cup {None}, st: {"asked", "ok", "failed"},
               list: SUBSET Orgs, sub: Sub, role: Role] : j.kind = "checkout" => j.org # None}

Ask(kind, org) == [kind |-> kind, org |-> org, st |-> "asked",
                   list |-> {}, sub |-> "unknown", role |-> "unknown"]

\* wizard: 0 while it is not shown, else its step.
WS == [orgs: SUBSET Orgs, current: Orgs \cup {None}, sub: Sub, role: Role,
       loaded: BOOLEAN, wizard: 0..3, seen: BOOLEAN, fresh: BOOLEAN]

Blank == [orgs |-> {}, current |-> None, sub |-> "unknown", role |-> "unknown",
          loaded |-> FALSE, wizard |-> 0, seen |-> FALSE, fresh |-> FALSE]

Init ==
  /\ mine \in SUBSET Orgs /\ billed \in SUBSET mine
  /\ saved \in Orgs \cup {None}
  /\ ws = Blank
  /\ jobs = {Ask("list", None)}

-----------------------------------------------------------------------------
(* OrganizationContext.                                                    *)

\* The tab is loaded anew (also by coming back from a Stripe page): nothing is
\* left but localStorage, and the provider asks for the list.
Load ==
  /\ ws' = Blank
  /\ jobs' = {Ask("list", None)}
  /\ UNCHANGED <<mine, billed, saved>>

\* Mutant: AppShell reads needsOnboarding live instead of latching it.
Render_Live(w, rest) ==
  /\ ws' = [w EXCEPT !.seen = @ \/ (w.loaded /\ w.orgs = {}),
                     !.wizard = IF ~(w.loaded /\ w.orgs = {}) THEN 0 ELSE IF @ = 0 THEN 1 ELSE @]
  /\ IF w.current # ws.current /\ w.current # None
     THEN saved' = w.current /\ jobs' = rest \cup {Ask("detail", w.current)}
     ELSE UNCHANGED saved /\ jobs' = rest

\* After a render whose active organization changed, the effect saves its id
\* and asks for its subscription, usage and members.
Render(w, rest) ==
  /\ ws' = IF w.loaded /\ w.orgs = {} /\ ~w.seen THEN [w EXCEPT !.seen = TRUE, !.wizard = 1]
                                                 ELSE w
  /\ IF w.current # ws.current /\ w.current # None
     THEN saved' = w.current /\ jobs' = rest \cup {Ask("detail", w.current)}
     ELSE UNCHANGED saved /\ jobs' = rest

\* bootstrap() replaces the cached profile by the one just read: a new user
\* object, so both effects run once more.
UserChanges ==
  /\ ~ws.fresh
  /\ ws' = [ws EXCEPT !.fresh = TRUE]
  /\ jobs' = jobs \cup {Ask("list", None)}
               \cup (IF ws.current = None THEN {} ELSE {Ask("detail", ws.current)})
  /\ UNCHANGED <<mine, billed, saved>>

\* The backend handles a request; the three reads of loadOrgDetail() can fail
\* one by one (allSettled), every other request as a whole.  Only an owner
\* deletes an organization, and Stripe is not told: it is charged as before.
Serve(j) ==
  /\ j \in jobs /\ j.st = "asked"
  /\ \/ /\ j.kind = "list"
        /\ jobs' = (jobs \ {j}) \cup {[j EXCEPT !.st = "ok", !.list = mine]}
        /\ UNCHANGED mine
     \/ /\ j.kind = "detail"
        /\ \E sub \in {"unknown", IF j.org \in billed THEN "stripe" ELSE "free"},
              role \in {"unknown", IF j.org \in Owned THEN "owner" ELSE "member"} :
             jobs' = (jobs \ {j}) \cup {[j EXCEPT !.st = "ok", !.sub = sub, !.role = role]}
        /\ UNCHANGED mine
     \/ /\ j.kind \in {"create", "setup"}
        /\ \E org \in Owned \ (mine \cup billed) :
             /\ mine' = mine \cup {org}
             /\ jobs' = (jobs \ {j}) \cup {[j EXCEPT !.st = "ok", !.list = {org}]}
     \/ /\ j.kind = "delete" /\ j.org \in Owned \cap mine
        /\ mine' = mine \ {j.org}
        /\ jobs' = (jobs \ {j}) \cup {[j EXCEPT !.st = "ok"]}
     \/ /\ j.kind \in {"base", "rename", "checkout", "portal"}
        /\ jobs' = (jobs \ {j}) \cup {[j EXCEPT !.st = "ok"]}
        /\ UNCHANGED mine
     \/ /\ j.kind # "detail"
        /\ jobs' = (jobs \ {j}) \cup {[j EXCEPT !.st = "failed"]}
        /\ UNCHANGED mine
  /\ UNCHANGED <<billed, saved, ws>>

\* Mutant: loadedOrgs is set in the try block, not in finally.
ApplyList_NoFinally(j) ==
  /\ j \in jobs /\ j.kind = "list" /\ j.st # "asked"
  /\ LET rest == (jobs \ {j}) \cup (IF j.org = None THEN {} ELSE {Ask("detail", j.org)})
     IN \/ /\ j.st = "failed"
           /\ Render([ws EXCEPT !.orgs = {}], rest)
        \/ /\ j.st = "ok"
           /\ \E next \in j.list \cup {None} :
                /\ saved \in j.list => next = saved
                /\ next = None <=> j.list = {}
                /\ Render([ws EXCEPT !.orgs = j.list, !.current = next, !.loaded = TRUE], rest)
  /\ UNCHANGED <<mine, billed>>

\* Mutant: the active organization stays as it is when the list changes.
ApplyList_KeepsCurrent(j) ==
  /\ j \in jobs /\ j.kind = "list" /\ j.st # "asked"
  /\ LET rest == (jobs \ {j}) \cup (IF j.org = None THEN {} ELSE {Ask("detail", j.org)})
     IN \/ /\ j.st = "failed"
           /\ Render([ws EXCEPT !.orgs = {}, !.loaded = TRUE], rest)
        \/ /\ j.st = "ok"
           /\ \E next \in j.list \cup {None, ws.current} :
                /\ next = IF ws.current # None THEN ws.current ELSE next
                /\ ws.current = None /\ saved \in j.list => next = saved
                /\ next = None => j.list = {}
                /\ Render([ws EXCEPT !.orgs = j.list, !.current = next, !.loaded = TRUE], rest)
  /\ UNCHANGED <<mine, billed>>

\* loadOrganizations(): the saved organization, else the first, else none; a
\* failure empties the list.  refresh() goes on to the detail it captured.
ApplyList(j) ==
  /\ j \in jobs /\ j.kind = "list" /\ j.st # "asked"
  /\ LET rest == (jobs \ {j}) \cup (IF j.org = None THEN {} ELSE {Ask("detail", j.org)})
     IN \/ /\ j.st = "failed"
           /\ Render([ws EXCEPT !.orgs = {}, !.loaded = TRUE], rest)
        \/ /\ j.st = "ok"
           /\ \E next \in j.list \cup {None} :
                /\ saved \in j.list => next = saved
                /\ next = None <=> j.list = {}
                /\ Render([ws EXCEPT !.orgs = j.list, !.current = next, !.loaded = TRUE], rest)
  /\ UNCHANGED <<mine, billed>>

\* loadOrgDetail(): whatever arrived is shown, whichever organization is active.
ApplyDetail(j) ==
  /\ j \in jobs /\ j.kind = "detail" /\ j.st # "asked"
  /\ ws' = [ws EXCEPT !.sub = j.sub, !.role = j.role]
  /\ jobs' = jobs \ {j}
  /\ UNCHANGED <<mine, billed, saved>>

\* createOrganization() for the switcher ("create") or the wizard ("setup"):
\* the new organization is appended and becomes the active one.
ApplyCreate(j) ==
  /\ j \in jobs /\ j.kind \in {"create", "setup"} /\ j.st # "asked"
  /\ \/ /\ j.st = "failed"
        /\ jobs' = jobs \ {j} /\ UNCHANGED <<ws, saved>>
     \/ /\ j.st = "ok"
        /\ \E org \in j.list :
             Render([ws EXCEPT !.orgs = @ \cup {org}, !.current = org,
                               !.wizard = IF j.kind = "setup" /\ @ # 0 THEN 2 ELSE @], jobs \ {j})
  /\ UNCHANGED <<mine, billed>>

\* The other continuations: the wizard's knowledge base, and the rename, which
\* calls refresh().
ApplyOther(j) ==
  /\ j \in jobs /\ j.kind \in {"base", "rename"} /\ j.st # "asked"
  /\ ws' = IF j.kind = "base" /\ j.st = "ok" /\ ws.wizard # 0 THEN [ws EXCEPT !.wizard = 3] ELSE ws
  /\ jobs' = (jobs \ {j}) \cup
               (IF j.kind = "rename" /\ j.st = "ok" THEN {Ask("list", j.org)} ELSE {})
  /\ UNCHANGED <<mine, billed, saved>>

\* deleteOrg: back to the overview, which is loaded anew.
ApplyDelete(j) ==
  /\ j \in jobs /\ j.kind = "delete" /\ j.st # "asked"
  /\ \/ j.st = "failed" /\ jobs' = jobs \ {j} /\ UNCHANGED ws
     \/ j.st = "ok" /\ ws' = Blank /\ jobs' = {Ask("list", None)}
  /\ UNCHANGED <<mine, billed, saved>>

\* The redirect to a Stripe page: the tab leaves, a subscription starts or is
\* cancelled there (or neither), and the tab is loaded anew.
ApplyRedirect(j) ==
  /\ j \in jobs /\ j.kind \in {"checkout", "portal"} /\ j.st # "asked"
  /\ \/ j.st = "failed" /\ jobs' = jobs \ {j} /\ UNCHANGED <<billed, ws>>
     \/ /\ j.st = "ok" /\ ws' = Blank /\ jobs' = {Ask("list", None)}
        /\ billed' \in {billed, IF j.kind = "checkout" THEN billed \cup {j.org}
                                                      ELSE billed \ {j.org}}
  /\ UNCHANGED <<mine, saved>>

-----------------------------------------------------------------------------
(* What a person does.                                                     *)

Free   == Cardinality(jobs) < MaxJobs
OnPage == ws.loaded /\ ws.wizard = 0

\* selectOrg() of the switcher.
SelectOrg(org) ==
  /\ OnPage /\ Free /\ org \in ws.orgs
  /\ Render([ws EXCEPT !.current = org, !.sub = "unknown", !.role = "unknown"], jobs)
  /\ UNCHANGED <<mine, billed>>

CreateOrg ==
  /\ OnPage /\ Free
  /\ jobs' = jobs \cup {Ask("create", None)}
  /\ UNCHANGED <<mine, billed, saved, ws>>

Pending(kind) == \E j \in jobs : j.kind = kind

\* The wizard: a name at step 1, a knowledge base or "skip" at step 2, the
\* snippet and onFinish() at step 3.  The submit button of a step is disabled
\* while its request is pending, "Skip for now" is not.
Setup ==
  /\ Free
  /\ \/ /\ ws.wizard = 1 /\ ~Pending("setup")
        /\ jobs' = jobs \cup {Ask("setup", None)} /\ UNCHANGED ws
     \/ /\ ws.wizard = 2 /\ ~Pending("base")
        /\ jobs' = jobs \cup {Ask("base", None)} /\ UNCHANGED ws
     \/ /\ ws.wizard = 2
        /\ ws' = [ws EXCEPT !.wizard = 3] /\ UNCHANGED jobs
     \/ /\ ws.wizard = 3
        /\ ws' = [ws EXCEPT !.wizard = 0] /\ UNCHANGED jobs
  /\ UNCHANGED <<mine, billed, saved>>

\* settings: an owner renames the active organization.
Rename ==
  /\ OnPage /\ Free /\ ws.current \in ws.orgs /\ ws.role = "owner"
  /\ ~Pending("rename")
  /\ jobs' = jobs \cup {Ask("rename", ws.current)}
  /\ UNCHANGED <<mine, billed, saved, ws>>

\* settings, "Danger zone": the dialog names the active organization.
DeleteOrg ==
  /\ OnPage /\ Free /\ ws.current \in ws.orgs /\ ws.role = "owner"
  /\ ~Pending("delete")
  /\ jobs' = jobs \cup {Ask("delete", ws.current)}
  /\ UNCHANGED <<mine, billed, saved, ws>>

\* billing: a plan card opens the portal when the subscription at hand has a
\* Stripe subscription or the card is the free plan's, and Checkout otherwise;
\* the card of the current plan does nothing.
ChangePlan ==
  /\ OnPage /\ Free /\ ws.current \in ws.orgs /\ ws.role = "owner"
  /\ \/ ws.sub # "stripe" /\ jobs' = jobs \cup {Ask("checkout", ws.current)}
     \/ ws.sub # "free" /\ jobs' = jobs \cup {Ask("portal", ws.current)}
  /\ UNCHANGED <<mine, billed, saved, ws>>

\* billing, "Manage billing": offered once Stripe knows the organization, which
\* one without a subscription may have left behind.
ManageBilling ==
  /\ OnPage /\ Free /\ ws.current \in ws.orgs /\ ws.role = "owner"
  /\ ws.sub # "unknown" /\ ~Pending("portal")
  /\ jobs' = jobs \cup {Ask("portal", ws.current)}
  /\ UNCHANGED <<mine, billed, saved, ws>>

-----------------------------------------------------------------------------
Apply(j) == \/ ApplyList(j) \/ ApplyDetail(j) \/ ApplyCreate(j)
            \/ ApplyOther(j) \/ ApplyDelete(j) \/ ApplyRedirect(j)

Next ==
  \/ Load \/ UserChanges
  \/ \E j \in jobs : Serve(j) \/ Apply(j)
  \/ \E org \in Orgs : SelectOrg(org)
  \/ CreateOrg \/ Setup \/ Rename \/ DeleteOrg \/ ChangePlan \/ ManageBilling

Spec == Init /\ [][Next]_vars

\* A request is answered or fails, and its continuation runs.
Settles(kind) == \E j \in jobs : j.kind = kind /\ (Serve(j) \/ Apply(j))

FairSpec == Spec /\ \A kind \in Kind : WF_vars(Settles(kind))

-----------------------------------------------------------------------------
(* Properties.                                                             *)

\* Every variable stays within its type.
TypeOK ==
  /\ mine \subseteq Orgs /\ billed \subseteq Orgs
  /\ saved \in Orgs \cup {None}
  /\ ws \in WS /\ jobs \subseteq Job

\* Lists, creations and selections answered in any order: the active
\* organization is one of those listed, or the list failed to load and is empty,
\* and a reload comes back to it (effect and state never part).
ActiveOrgListed ==
  /\ ws.orgs # {} => ws.current \in ws.orgs
  /\ ws.current # None => saved = ws.current

\* The wizard of a new account stays until it is finished: creating the
\* organization, failed calls or a second load of the list do not unmount it,
\* it never goes a step back, and it comes up at most once per page.
WizardRunsOnce ==
  [][ws'.loaded /\ ws.seen =>
       \/ ws'.wizard = ws.wizard
       \/ ws.wizard \in {1, 2} /\ ws'.wizard = ws.wizard + 1
       \/ ws.wizard = 3 /\ ws'.wizard = 0]_vars

\* AppShell's "Loading your workspace" ends, whether or not the list arrives.
LoadingEnds == <>[][~Load]_vars => (~ws.loaded ~> ws.loaded)

\* billing/page.tsx: "Checkout can only ever *start* a subscription: sending an
\* existing subscriber there bills them a second time".
CheckoutOnlyStarts ==
  [][\A org \in Orgs : Ask("checkout", org) \in jobs' \ jobs => org \notin billed]_vars
=============================================================================
