-------------------------- MODULE WorkspaceProofs --------------------------
(***************************************************************************)
(* Proofs about Workspace: for any organizations and any requests in       *)
(* flight, the active organization is listed and saved.  The invariant is  *)
(* inductive beside the types: every step that changes the list or the     *)
(* active organization goes through Render, which saves what it shows.     *)
(***************************************************************************)
EXTENDS Workspace, TLAPS

LEMMA InitInv == Init => TypeOK /\ ActiveOrgListed
<1>1. Ask("list", None) \in Job
  BY DEF Ask, Job, Kind, Sub, Role
<1>2. Blank \in WS
  BY DEF Blank, WS, Sub, Role
<1> QED BY <1>1, <1>2 DEF Init, TypeOK, ActiveOrgListed, Blank

LEMMA AskType ==
  ASSUME NEW kind \in Kind, NEW org \in Orgs \cup {None}
  PROVE  kind # "checkout" \/ org # None => Ask(kind, org) \in Job
  BY DEF Ask, Job, Sub, Role

LEMMA BlankType == Blank \in WS
  BY DEF Blank, WS, Sub, Role

\* What Render needs of the state it is given, and what it guarantees.
LEMMA RenderStep ==
  ASSUME TypeOK, ActiveOrgListed, NEW w \in WS, NEW rest \in SUBSET Job, Render(w, rest),
         w.orgs # {} => w.current \in w.orgs,
         w.current = ws.current \/ w.current \in Orgs \/ w.current = None
  PROVE  /\ ws' \in WS /\ saved' \in Orgs \cup {None} /\ jobs' \subseteq Job
         /\ ActiveOrgListed'
<1>1. /\ [w EXCEPT !.seen = TRUE, !.wizard = 1] \in WS
      /\ [w EXCEPT !.seen = TRUE, !.wizard = 1].orgs = w.orgs
      /\ [w EXCEPT !.seen = TRUE, !.wizard = 1].current = w.current
  <2> HIDE DEF TypeOK, ActiveOrgListed, Render
  <2>1. TRUE \in BOOLEAN /\ 1 \in 0..3
    OBVIOUS
  <2>2. [w EXCEPT !.seen = TRUE] \in WS
    BY DEF WS
  <2>3. [[w EXCEPT !.seen = TRUE] EXCEPT !.wizard = 1] \in WS
    BY <2>1, <2>2 DEF WS
  <2> QED BY <2>3 DEF WS
<1>2. ws' \in WS /\ ws'.orgs = w.orgs /\ ws'.current = w.current
  BY <1>1 DEF Render
<1>3. w.current \in Orgs \cup {None}
  BY DEF WS
<1>4. "detail" \in Kind
  BY DEF Kind
<1>5. jobs' \subseteq Job /\ saved' \in Orgs \cup {None}
  BY <1>3, <1>4, AskType DEF Render, TypeOK
<1>6. w.current # None => saved' = w.current
  BY DEF Render, ActiveOrgListed
<1> QED BY <1>2, <1>5, <1>6 DEF ActiveOrgListed

\* Every kind of request but Checkout may be asked without an organization.
LEMMA AskTypes == \A org \in Orgs \cup {None} :
                     /\ Ask("list", org) \in Job /\ Ask("detail", org) \in Job
                     /\ Ask("create", org) \in Job /\ Ask("rename", org) \in Job
                     /\ Ask("delete", org) \in Job
                     /\ Ask("setup", org) \in Job /\ Ask("base", org) \in Job
                     /\ Ask("portal", org) \in Job
  BY AskType DEF Kind

LEMMA Step == TypeOK /\ ActiveOrgListed /\ [Next]_vars => TypeOK' /\ ActiveOrgListed'
<1> SUFFICES ASSUME TypeOK, ActiveOrgListed, [Next]_vars PROVE TypeOK' /\ ActiveOrgListed'
  OBVIOUS
<1> USE WorkspaceAssumption
<1>t. ws \in WS /\ jobs \subseteq Job
  BY DEF TypeOK
<1>k. ASSUME NEW kind \in Kind, NEW org \in Orgs \cup {None}, NEW rest \in SUBSET Job
      PROVE  kind # "checkout" \/ org # None => rest \cup {Ask(kind, org)} \subseteq Job
  BY <1>k, AskType
<1>f. /\ \A kind \in {"list", "detail", "create", "setup", "base", "rename", "delete", "checkout", "portal"} :
           kind \in Kind
      /\ None \in Orgs \cup {None} /\ ws.current \in Orgs \cup {None}
  BY <1>t DEF Kind, WS
<1>q. ASSUME UNCHANGED <<mine, billed, saved, ws>>, jobs' \subseteq Job
      PROVE  TypeOK' /\ ActiveOrgListed'
  BY <1>q DEF TypeOK, ActiveOrgListed
<1>1. CASE Load
  BY <1>1, <1>f, <1>k, BlankType, AskType DEF Load, TypeOK, ActiveOrgListed, Blank
<1>2. CASE UserChanges
  <2>1. [ws EXCEPT !.fresh = TRUE] \in WS
    BY <1>t DEF WS
  <2>2. ws'.orgs = ws.orgs /\ ws'.current = ws.current /\ ws' \in WS
    BY <1>2, <1>t, <2>1 DEF UserChanges, WS
  <2>3. jobs' \subseteq Job
    BY <1>2, <1>t, <1>f, AskType DEF UserChanges
  <2> QED BY <1>2, <2>2, <2>3 DEF UserChanges, TypeOK, ActiveOrgListed
<1>3. ASSUME NEW j \in jobs, Serve(j) PROVE TypeOK' /\ ActiveOrgListed'
  <2>1. j \in Job
    BY <1>t
  <2>2. mine' \subseteq Orgs
    BY <1>3 DEF Serve, TypeOK
  <2>3. ASSUME NEW l \in SUBSET Orgs, NEW s \in Sub, NEW r \in Role, NEW st \in {"ok", "failed"}
        PROVE  /\ [j EXCEPT !.st = st] \in Job /\ [j EXCEPT !.st = st, !.list = l] \in Job
               /\ [j EXCEPT !.st = st, !.sub = s, !.role = r] \in Job
    BY <2>1 DEF Job
  <2>4. jobs' \subseteq Job
    <3>1. CASE \E l \in SUBSET Orgs : jobs' = (jobs \ {j}) \cup {[j EXCEPT !.st = "ok", !.list = l]}
      BY <3>1, <2>3, <1>t DEF Sub, Role
    <3>2. CASE \E s \in Sub, r \in Role :
                 jobs' = (jobs \ {j}) \cup {[j EXCEPT !.st = "ok", !.sub = s, !.role = r]}
      BY <3>2, <2>3, <1>t
    <3>3. CASE \E st \in {"ok", "failed"} : jobs' = (jobs \ {j}) \cup {[j EXCEPT !.st = st]}
      BY <3>3, <2>3, <1>t DEF Sub, Role
    <3> QED BY <1>3, <3>1, <3>2, <3>3 DEF Serve, Sub, Role, TypeOK
  <2> QED BY <1>3, <2>2, <2>4 DEF Serve, TypeOK, ActiveOrgListed
<1>4. ASSUME NEW j \in jobs, ApplyList(j) PROVE TypeOK' /\ ActiveOrgListed'
  <2> DEFINE rest == (jobs \ {j}) \cup (IF j.org = None THEN {} ELSE {Ask("detail", j.org)})
  <2>1. j \in Job /\ j.list \subseteq Orgs /\ j.org \in Orgs \cup {None}
    BY <1>t DEF Job
  <2>2. rest \subseteq Job
    BY <1>t, <1>f, <2>1, AskType
  <2> HIDE DEF rest
  <2>3. CASE Render([ws EXCEPT !.orgs = {}, !.loaded = TRUE], rest)
    <3>1. /\ [ws EXCEPT !.orgs = {}, !.loaded = TRUE] \in WS
          /\ [ws EXCEPT !.orgs = {}, !.loaded = TRUE].orgs = {}
          /\ [ws EXCEPT !.orgs = {}, !.loaded = TRUE].current = ws.current
      BY <1>t DEF WS
    <3> QED BY <1>4, <2>2, <2>3, <3>1, RenderStep DEF ApplyList, TypeOK
  <2>4. ASSUME NEW next \in j.list \cup {None}, next = None <=> j.list = {},
               Render([ws EXCEPT !.orgs = j.list, !.current = next, !.loaded = TRUE], rest)
        PROVE  TypeOK' /\ ActiveOrgListed'
    <3> DEFINE w == [ws EXCEPT !.orgs = j.list, !.current = next, !.loaded = TRUE]
    <3>1. w \in WS /\ w.orgs = j.list /\ w.current = next
      BY <1>t, <2>1 DEF WS
    <3> HIDE DEF w
    <3>2. Render(w, rest)
      BY <2>4 DEF w
    <3>3. next \in Orgs \cup {None}
      BY <2>1
    <3> QED BY <1>4, <2>2, <2>4, <3>1, <3>2, <3>3, RenderStep DEF ApplyList, TypeOK
  <2> QED BY <1>4, <2>3, <2>4 DEF ApplyList, rest
<1>5. ASSUME NEW j \in jobs, ApplyDetail(j) PROVE TypeOK' /\ ActiveOrgListed'
  <2>1. j.sub \in Sub /\ j.role \in Role
    BY <1>t DEF Job
  <2>2. /\ [ws EXCEPT !.sub = j.sub, !.role = j.role] \in WS
        /\ [ws EXCEPT !.sub = j.sub, !.role = j.role].orgs = ws.orgs
        /\ [ws EXCEPT !.sub = j.sub, !.role = j.role].current = ws.current
    BY <1>t, <2>1 DEF WS
  <2>3. ws' \in WS /\ ws'.orgs = ws.orgs /\ ws'.current = ws.current
    BY <1>5, <2>2 DEF ApplyDetail
  <2> QED BY <1>5, <2>3 DEF ApplyDetail, TypeOK, ActiveOrgListed
<1>6. ASSUME NEW j \in jobs, ApplyCreate(j) PROVE TypeOK' /\ ActiveOrgListed'
  <2>1. CASE jobs' = jobs \ {j} /\ UNCHANGED <<ws, saved>>
    BY <1>6, <2>1, <1>t, <1>q DEF ApplyCreate
  <2>2. ASSUME NEW org \in j.list,
               Render([ws EXCEPT !.orgs = @ \cup {org}, !.current = org,
                                 !.wizard = IF j.kind = "setup" /\ @ # 0 THEN 2 ELSE @], jobs \ {j})
        PROVE  TypeOK' /\ ActiveOrgListed'
    <3> DEFINE w == [ws EXCEPT !.orgs = @ \cup {org}, !.current = org,
                               !.wizard = IF j.kind = "setup" /\ @ # 0 THEN 2 ELSE @]
    <3>1. org \in Orgs
      BY <1>t DEF Job
    <3>2. w \in WS /\ w.orgs = ws.orgs \cup {org} /\ w.current = org
      <4> DEFINE step == IF j.kind = "setup" /\ ws.wizard # 0 THEN 2 ELSE ws.wizard
      <4>1. step \in 0..3
        BY <1>t DEF WS
      <4> HIDE DEF step
      <4>2. ws.orgs \cup {org} \in SUBSET Orgs
        BY <1>t, <3>1 DEF WS
      <4>3. [ws EXCEPT !.orgs = ws.orgs \cup {org}, !.current = org, !.wizard = step] \in WS
        BY <1>t, <3>1, <4>1, <4>2 DEF WS
      <4> QED BY <1>t, <4>3 DEF WS, step
    <3>3. Render(w, jobs \ {j})
      BY <2>2 DEF w
    <3> HIDE DEF w
    <3>4. jobs \ {j} \in SUBSET Job
      BY <1>t
    <3> QED BY <1>6, <3>1, <3>2, <3>3, <3>4, RenderStep DEF ApplyCreate, TypeOK
  <2> QED BY <1>6, <2>1, <2>2 DEF ApplyCreate
<1>7. ASSUME NEW j \in jobs, ApplyOther(j) PROVE TypeOK' /\ ActiveOrgListed'
  <2>1. j.org \in Orgs \cup {None}
    BY <1>t DEF Job
  <2>2. jobs' \subseteq Job
    BY <1>7, <1>t, <1>f, <2>1, AskType DEF ApplyOther
  <2>3. ws' \in WS /\ ws'.orgs = ws.orgs /\ ws'.current = ws.current
    BY <1>7, <1>t DEF ApplyOther, WS
  <2> QED BY <1>7, <2>2, <2>3 DEF ApplyOther, TypeOK, ActiveOrgListed
<1>8. ASSUME NEW j \in jobs, ApplyRedirect(j) PROVE TypeOK' /\ ActiveOrgListed'
  <2>1. CASE j.st = "failed" /\ jobs' = jobs \ {j} /\ UNCHANGED <<billed, ws>>
    BY <1>8, <2>1, <1>t, <1>q DEF ApplyRedirect
  <2>2. CASE /\ ws' = Blank /\ jobs' = {Ask("list", None)}
             /\ billed' \in {billed, IF j.kind = "checkout" THEN billed \cup {j.org}
                                                          ELSE billed \ {j.org}}
    <3>1. j.kind = "checkout" => j.org \in Orgs
      BY <1>t DEF Job
    <3>2. billed' \subseteq Orgs
      BY <2>2, <3>1 DEF TypeOK
    <3>3. jobs' \subseteq Job /\ ws' \in WS
      BY <2>2, AskTypes, BlankType
    <3>4. ws'.orgs = {} /\ ws'.current = None
      BY <2>2 DEF Blank
    <3> QED BY <1>8, <3>2, <3>3, <3>4 DEF ApplyRedirect, TypeOK, ActiveOrgListed
  <2> QED BY <1>8, <2>1, <2>2 DEF ApplyRedirect
<1>9. ASSUME NEW org \in Orgs, SelectOrg(org) PROVE TypeOK' /\ ActiveOrgListed'
  <2> DEFINE w == [ws EXCEPT !.current = org, !.sub = "unknown", !.role = "unknown"]
  <2>1. w \in WS /\ w.orgs = ws.orgs /\ w.current = org
    BY <1>t DEF WS, Sub, Role
  <2> HIDE DEF w
  <2>2. Render(w, jobs) /\ org \in ws.orgs
    BY <1>9 DEF SelectOrg, w
  <2> QED BY <1>9, <1>t, <2>1, <2>2, RenderStep DEF SelectOrg, TypeOK
<1>10. CASE CreateOrg \/ Rename \/ DeleteOrg \/ ChangePlan \/ ManageBilling
  <2>1. ws.orgs \subseteq Orgs
    BY <1>t DEF WS
  <2> QED BY <1>10, <1>t, <1>f, <1>k, <1>q, <2>1 DEF CreateOrg, Rename, DeleteOrg, ChangePlan, ManageBilling
<1>11. CASE Setup
  <2>1. jobs' \subseteq Job
    BY <1>11, <1>t, <1>f, <1>k DEF Setup
  <2>2. ws' \in WS /\ ws'.orgs = ws.orgs /\ ws'.current = ws.current
    BY <1>11, <1>t DEF Setup, WS
  <2> QED BY <1>11, <2>1, <2>2 DEF Setup, TypeOK, ActiveOrgListed
<1>12. ASSUME NEW j \in jobs, ApplyDelete(j) PROVE TypeOK' /\ ActiveOrgListed'
  <2>1. CASE jobs' = jobs \ {j} /\ UNCHANGED ws
    BY <1>12, <2>1, <1>t, <1>q DEF ApplyDelete
  <2>2. CASE ws' = Blank /\ jobs' = {Ask("list", None)}
    <3>1. jobs' \subseteq Job /\ ws' \in WS
      BY <2>2, AskTypes, BlankType
    <3>2. ws'.orgs = {} /\ ws'.current = None
      BY <2>2 DEF Blank
    <3> QED BY <1>12, <3>1, <3>2 DEF ApplyDelete, TypeOK, ActiveOrgListed
  <2> QED BY <1>12, <2>1, <2>2 DEF ApplyDelete
<1>13. CASE UNCHANGED vars
  BY <1>13 DEF vars, TypeOK, ActiveOrgListed
<1> QED BY <1>1, <1>2, <1>3, <1>4, <1>5, <1>6, <1>7, <1>8, <1>9, <1>10, <1>11, <1>12, <1>13
        DEF Next, Apply

LEMMA InvHolds == Spec => [](TypeOK /\ ActiveOrgListed)
  BY InitInv, Step, PTL DEF Spec

\* Every variable of the workspace stays within its type.
THEOREM TypesHold == Spec => []TypeOK
  BY InvHolds, PTL

\* The active organization is a listed one, and the one a reload comes back to.
THEOREM ActiveOrg == Spec => []ActiveOrgListed
  BY InvHolds, PTL

-----------------------------------------------------------------------------
(* The wizard.                                                             *)

\* At the first step of the wizard at most one organization is being made for it,
\* and at no other; a knowledge base is being made after that step only; and a
\* wizard that is shown was noted, so that it is not shown again.
WizardWaits ==
  /\ \A j \in jobs : j.kind = "setup" => ws.wizard = 1
  /\ \A i, j \in jobs : i.kind = "setup" /\ j.kind = "setup" => i = j
  /\ \A j \in jobs : j.kind = "base" => ws.wizard # 1 /\ ws.seen
  /\ ws.wizard # 0 => ws.seen

\* What may happen to the wizard of a page that stays.
WizardStep ==
  \/ ws'.wizard = ws.wizard
  \/ ws.wizard \in {1, 2} /\ ws'.wizard = ws.wizard + 1
  \/ ws.wizard = 3 /\ ws'.wizard = 0

LEMMA InitWaits == Init => WizardWaits
  BY DEF Init, WizardWaits, Ask, Blank

\* Render leaves a wizard that was noted as it is, and starts one that was not.
LEMMA RenderKeeps ==
  ASSUME WizardWaits, NEW w \in WS, NEW rest, Render(w, rest), w.seen = ws.seen
  PROVE  /\ \A j \in jobs' : j.kind \in {"setup", "base"} => j \in rest
         /\ ws.seen => ws'.wizard = w.wizard /\ ws'.seen
         /\ ~ws.seen => (ws'.wizard = w.wizard /\ ~ws'.seen) \/ (ws'.wizard = 1 /\ ws'.seen)
<1>1. \A org : Ask("detail", org).kind = "detail"
  BY DEF Ask
<1>2. \A j \in jobs' : j.kind \in {"setup", "base"} => j \in rest
  BY <1>1 DEF Render
<1>3. /\ [w EXCEPT !.seen = TRUE, !.wizard = 1].wizard = 1
      /\ [w EXCEPT !.seen = TRUE, !.wizard = 1].seen
  BY DEF WS
<1>4. ws' = w \/ (~w.seen /\ ws' = [w EXCEPT !.seen = TRUE, !.wizard = 1])
  <2> HIDE DEF WizardWaits
  <2>1. CASE w.loaded /\ w.orgs = {} /\ ~w.seen
    BY <2>1 DEF Render
  <2>2. CASE ~(w.loaded /\ w.orgs = {} /\ ~w.seen)
    BY <2>2 DEF Render
  <2> QED BY <2>1, <2>2
<1>5. w.seen \in BOOLEAN
  BY DEF WS
<1> QED BY <1>2, <1>3, <1>4, <1>5

LEMMA WizardGoesOn ==
  ASSUME TypeOK, WizardWaits, [Next]_vars
  PROVE  WizardWaits' /\ (ws'.loaded /\ ws.seen => WizardStep)
<1> USE DEF WizardWaits, WizardStep
<1>t. ws \in WS /\ jobs \subseteq Job
  BY DEF TypeOK
<1>k. \A kind, org : Ask(kind, org).kind = kind
  BY DEF Ask
<1>b. ASSUME ws' = Blank, jobs' = {Ask("list", None)}
      PROVE  WizardWaits' /\ (ws'.loaded /\ ws.seen => WizardStep)
  BY <1>b, <1>k DEF Blank
<1>j. ASSUME ws' = ws, \A j \in jobs' : j.kind \in {"setup", "base"} => j \in jobs
      PROVE  WizardWaits' /\ (ws'.loaded /\ ws.seen => WizardStep)
  BY <1>j
<1>1. CASE Load
  BY <1>1, <1>b DEF Load
<1>2. CASE UserChanges
  <2>1. ws'.wizard = ws.wizard /\ ws'.seen = ws.seen
    BY <1>2, <1>t DEF UserChanges, WS
  <2>2. \A j \in jobs' : j.kind \in {"setup", "base"} => j \in jobs
    BY <1>2, <1>k DEF UserChanges
  <2> QED BY <2>1, <2>2
<1>3. ASSUME NEW j \in jobs, Serve(j) PROVE WizardWaits' /\ (ws'.loaded /\ ws.seen => WizardStep)
  <2>1. j \in Job
    BY <1>t
  <2>2. \A l, s, r, st : /\ [j EXCEPT !.st = st].kind = j.kind
                         /\ [j EXCEPT !.st = st, !.list = l].kind = j.kind
                         /\ [j EXCEPT !.st = st, !.sub = s, !.role = r].kind = j.kind
    BY <2>1 DEF Job
  <2>3. \E k : k.kind = j.kind /\ jobs' = (jobs \ {j}) \cup {k}
    <3>1. CASE \E l : jobs' = (jobs \ {j}) \cup {[j EXCEPT !.st = "ok", !.list = l]}
      BY <3>1, <2>2
    <3>2. CASE \E s, r : jobs' = (jobs \ {j}) \cup {[j EXCEPT !.st = "ok", !.sub = s, !.role = r]}
      <4>1. PICK s, r : jobs' = (jobs \ {j}) \cup {[j EXCEPT !.st = "ok", !.sub = s, !.role = r]}
        BY <3>2
      <4>2. [j EXCEPT !.st = "ok", !.sub = s, !.role = r].kind = j.kind
        BY <2>2
      <4> QED BY <4>1, <4>2, Zenon
    <3>3. CASE \E st : jobs' = (jobs \ {j}) \cup {[j EXCEPT !.st = st]}
      BY <3>3, <2>2
    <3> QED BY <1>3, <3>1, <3>2, <3>3 DEF Serve
  <2>4. ws' = ws
    BY <1>3 DEF Serve
  <2> QED BY <2>3, <2>4
<1>4. ASSUME NEW j \in jobs, ApplyList(j) PROVE WizardWaits' /\ (ws'.loaded /\ ws.seen => WizardStep)
  <2> DEFINE rest == (jobs \ {j}) \cup (IF j.org = None THEN {} ELSE {Ask("detail", j.org)})
  <2>1. j \in Job /\ j.list \subseteq Orgs
    BY <1>t DEF Job
  <2>2. \A k \in rest : k.kind \in {"setup", "base"} => k \in jobs
    BY <1>k
  <2> HIDE DEF rest
  <2>3. ASSUME NEW w \in WS, w.wizard = ws.wizard, w.seen = ws.seen, Render(w, rest)
        PROVE  WizardWaits' /\ (ws'.loaded /\ ws.seen => WizardStep)
    <3>1. /\ \A k \in jobs' : k.kind \in {"setup", "base"} => k \in jobs
          /\ ws.seen => ws'.wizard = ws.wizard /\ ws'.seen
          /\ ~ws.seen => (ws'.wizard = ws.wizard /\ ~ws'.seen) \/ (ws'.wizard = 1 /\ ws'.seen)
      BY <2>2, <2>3, RenderKeeps
    <3>2. CASE ws.seen
      BY <3>1, <3>2
    <3>3. CASE ~ws.seen
      \* No wizard was shown, so it made no request.
      <4>1. ws.wizard = 0 /\ \A k \in jobs : k.kind \notin {"setup", "base"}
        BY <3>3
      <4> QED BY <3>1, <3>3, <4>1
    <3> QED BY <3>2, <3>3
  <2>4. CASE Render([ws EXCEPT !.orgs = {}, !.loaded = TRUE], rest)
    <3> DEFINE w == [ws EXCEPT !.orgs = {}, !.loaded = TRUE]
    <3>1. w \in WS /\ w.wizard = ws.wizard /\ w.seen = ws.seen
      BY <1>t DEF WS
    <3> QED BY <2>3, <2>4, <3>1
  <2>5. ASSUME NEW next \in j.list \cup {None},
               Render([ws EXCEPT !.orgs = j.list, !.current = next, !.loaded = TRUE], rest)
        PROVE  WizardWaits' /\ (ws'.loaded /\ ws.seen => WizardStep)
    <3> DEFINE w == [ws EXCEPT !.orgs = j.list, !.current = next, !.loaded = TRUE]
    <3>1. w \in WS /\ w.wizard = ws.wizard /\ w.seen = ws.seen
      BY <1>t, <2>1 DEF WS
    <3> QED BY <2>3, <2>5, <3>1
  <2> QED BY <1>4, <2>4, <2>5 DEF ApplyList, rest
<1>5. ASSUME NEW j \in jobs, ApplyDetail(j) PROVE WizardWaits' /\ (ws'.loaded /\ ws.seen => WizardStep)
  <2>1. ws'.wizard = ws.wizard /\ ws'.seen = ws.seen /\ jobs' \subseteq jobs
    BY <1>5, <1>t DEF ApplyDetail, WS
  <2> QED BY <2>1
<1>6. ASSUME NEW j \in jobs, ApplyCreate(j) PROVE WizardWaits' /\ (ws'.loaded /\ ws.seen => WizardStep)
  <2>1. CASE jobs' = jobs \ {j} /\ UNCHANGED <<ws, saved>>
    BY <2>1, <1>j
  <2>2. ASSUME NEW org \in j.list,
               Render([ws EXCEPT !.orgs = @ \cup {org}, !.current = org,
                                 !.wizard = IF j.kind = "setup" /\ @ # 0 THEN 2 ELSE @], jobs \ {j})
        PROVE  WizardWaits' /\ (ws'.loaded /\ ws.seen => WizardStep)
    <3> DEFINE w == [ws EXCEPT !.orgs = @ \cup {org}, !.current = org,
                               !.wizard = IF j.kind = "setup" /\ @ # 0 THEN 2 ELSE @]
    <3>1. org \in Orgs
      BY <1>t DEF Job
    <3>2. /\ w.orgs = ws.orgs \cup {org} /\ w.seen = ws.seen
          /\ w.wizard = IF j.kind = "setup" THEN 2 ELSE ws.wizard
      BY <1>t DEF WS
    <3>3. ws' = w
      <4>1. w.orgs # {}
        BY <3>2
      <4> HIDE DEF w
      <4>2. Render(w, jobs \ {j})
        BY <2>2 DEF w
      <4> QED BY <4>1, <4>2 DEF Render
    <3>4. \A k \in jobs' : k.kind \in {"setup", "base"} => k \in jobs \ {j}
      <4> HIDE DEF w
      <4>1. Render(w, jobs \ {j})
        BY <2>2 DEF w
      <4> QED BY <4>1, <1>k DEF Render
    <3> HIDE DEF w
    <3>5. CASE j.kind = "setup"
      <4>1. ws.wizard = 1 /\ ws.seen /\ ws'.wizard = 2 /\ ws'.seen
        BY <3>2, <3>3, <3>5
      <4>2. \A k \in jobs' : k.kind # "setup"
        BY <3>4, <3>5
      <4> QED BY <3>4, <4>1, <4>2
    <3>6. CASE j.kind # "setup"
      BY <3>2, <3>3, <3>4, <3>6
    <3> QED BY <3>5, <3>6
  <2> QED BY <1>6, <2>1, <2>2 DEF ApplyCreate
<1>7. ASSUME NEW j \in jobs, ApplyOther(j) PROVE WizardWaits' /\ (ws'.loaded /\ ws.seen => WizardStep)
  <2>1. \A k \in jobs' : k.kind \in {"setup", "base"} => k \in jobs \ {j}
    BY <1>7, <1>k DEF ApplyOther
  <2>2. CASE j.kind = "base" /\ ws.wizard # 0 /\ ws' = [ws EXCEPT !.wizard = 3]
    <3>1. ws'.wizard = 3 /\ ws'.seen = ws.seen /\ ws.wizard \in {2, 3} /\ ws.seen
      BY <2>2, <1>t DEF WS
    <3> QED BY <2>1, <3>1
  <2>3. CASE ws' = ws
    BY <2>1, <2>3
  <2> QED BY <1>7, <2>2, <2>3 DEF ApplyOther
<1>8. ASSUME NEW j \in jobs, ApplyDelete(j) \/ ApplyRedirect(j)
      PROVE  WizardWaits' /\ (ws'.loaded /\ ws.seen => WizardStep)
  BY <1>8, <1>b, <1>j DEF ApplyDelete, ApplyRedirect
<1>9. ASSUME NEW org \in Orgs, SelectOrg(org) PROVE WizardWaits' /\ (ws'.loaded /\ ws.seen => WizardStep)
  <2> DEFINE w == [ws EXCEPT !.current = org, !.sub = "unknown", !.role = "unknown"]
  <2>1. w \in WS /\ w.orgs = ws.orgs /\ w.wizard = ws.wizard /\ w.seen = ws.seen
    BY <1>t DEF WS, Sub, Role
  <2> HIDE DEF w
  <2>2. Render(w, jobs) /\ org \in ws.orgs
    BY <1>9 DEF SelectOrg, w
  <2>3. ws' = w
    BY <2>1, <2>2 DEF Render
  <2>4. \A k \in jobs' : k.kind \in {"setup", "base"} => k \in jobs
    BY <2>2, <1>k DEF Render
  <2> QED BY <2>1, <2>3, <2>4
<1>10. CASE CreateOrg \/ Rename \/ DeleteOrg \/ ChangePlan \/ ManageBilling
  BY <1>10, <1>k, <1>j DEF CreateOrg, Rename, DeleteOrg, ChangePlan, ManageBilling
<1>11. CASE Setup
  <2>1. CASE ws.wizard = 1 /\ ~Pending("setup") /\ jobs' = jobs \cup {Ask("setup", None)} /\ ws' = ws
    BY <2>1, <1>k DEF Pending
  <2>2. CASE ws.wizard = 2 /\ jobs' = jobs \cup {Ask("base", None)} /\ ws' = ws
    BY <2>2, <1>k
  <2>3. CASE ws.wizard = 2 /\ ws' = [ws EXCEPT !.wizard = 3] /\ jobs' = jobs
    <3>1. ws'.wizard = 3 /\ ws'.seen = ws.seen
      BY <2>3, <1>t DEF WS
    <3> QED BY <2>3, <3>1
  <2>4. CASE ws.wizard = 3 /\ ws' = [ws EXCEPT !.wizard = 0] /\ jobs' = jobs
    <3>1. ws'.wizard = 0 /\ ws'.seen = ws.seen
      BY <2>4, <1>t DEF WS
    <3> QED BY <2>4, <3>1
  <2> QED BY <1>11, <2>1, <2>2, <2>3, <2>4 DEF Setup
<1>12. CASE UNCHANGED vars
  BY <1>12, <1>j DEF vars
<1> QED BY <1>1, <1>2, <1>3, <1>4, <1>5, <1>6, <1>7, <1>8, <1>9, <1>10, <1>11, <1>12
        DEF Next, Apply

\* However many requests are under way, and in whatever order they are answered:
\* the wizard comes up once per page and never goes back.
THEOREM WizardOnce == Spec => WizardRunsOnce
<1>1. TypeOK /\ WizardWaits /\ [Next]_vars => WizardWaits'
  BY WizardGoesOn
<1>2. TypeOK /\ WizardWaits /\ [Next]_vars
        => [ws'.loaded /\ ws.seen =>
              \/ ws'.wizard = ws.wizard
              \/ ws.wizard \in {1, 2} /\ ws'.wizard = ws.wizard + 1
              \/ ws.wizard = 3 /\ ws'.wizard = 0]_vars
  BY WizardGoesOn DEF WizardStep
<1> QED BY TypesHold, InitWaits, <1>1, <1>2, PTL DEF Spec, WizardRunsOnce
=============================================================================
