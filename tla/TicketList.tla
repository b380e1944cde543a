----------------------------- MODULE TicketList -----------------------------
(***************************************************************************)
(* The escalations page: the first page of a filtered list, kept by        *)
(* useResource under organization and filter, and the further pages that   *)
(* "Load more" accumulates under the filter alone.  The list is ordered by *)
(* age and read by cursor; tickets are numbered in the order in which they *)
(* are opened.  The filter is that of the priority: those of the status    *)
(* and the search differ only in that no check changes what they select.   *)
(***************************************************************************)
EXTENDS Naturals, Sequences, FiniteSets, FiniteSetsExt

CONSTANTS Orgs,      \* organizations of the viewer
          Top,       \* priorities are 1..Top (LOW to URGENT)
          NTickets,  \* bound on the tickets opened
          OrgOf,     \* of each ticket
          PageSize,  \* rows on a page (25)
          MaxPages,  \* bound on the pages accumulated
          MaxMoves   \* bound on the tickets deleted or given another priority

Tickets == 1..NTickets

ASSUME TicketListAssumption ==
  /\ Top \in Nat \ {0} /\ NTickets \in Nat /\ MaxPages \in Nat /\ MaxMoves \in Nat
  /\ PageSize \in Nat \ {0} /\ OrgOf \in [Tickets -> Orgs]

VARIABLES
  opened,  \* backend: number of tickets opened so far
  prio,    \* backend: the priority of each
  gone,    \* backend: those deleted
  query,   \* the organization and the filter now
  first,   \* useResource: the snapshot of the first page
  ask,     \* its fetch under way for the query now (an older one is cancelled)
  acc,     \* accumulated: the pages after the first, the query they are of
  more,    \* the request of loadMore
  stray,   \* history: a cursor was used with a query that did not produce it
  moves,   \* history: how often a ticket left a list
  slid     \* history: after that a first page was read again under further ones

backVars == <<opened, prio, gone, moves>>
listVars == <<backVars, query, first, ask, acc, more, stray, slid>>

Prio   == 1..Top
\* The filter is a priority, or 0.
Query  == [org: Orgs, prio: 0..Top]
\* The tickets of a page, each with the priority it is shown with.
Page   == UNION {[rows -> Prio] : rows \in SUBSET Tickets}
Empty  == [t \in {} |-> 1]
\* A cursor is the last ticket of a page, 0 when there are no more.
Answer == [rows: Page, cursor: 0..NTickets]
Nil    == [rows |-> Empty, cursor |-> 0]
Asked  == [st |-> "asked", is |-> Nil]
Idle   == [st |-> "none", is |-> Nil]
NoMore == [st |-> "none", q |-> [org |-> CHOOSE org \in Orgs : TRUE, prio |-> 0],
           from |-> 0, is |-> Nil]

\* list_for_organization_paginated: the first PageSize tickets after the cursor.
Matches(q, t) == OrgOf[t] = q.org /\ t \notin gone /\ q.prio \in {0, prio[t]}
\* Mutant: the cursor is compared with <=.
List_Inclusive(q, before) ==
  LET all  == {t \in 1..opened : Matches(q, t) /\ t <= before}
      rows == {t \in all : Cardinality({u \in all : u > t}) < PageSize}
  IN [rows |-> rows, cursor |-> IF rows = all THEN 0 ELSE Min(rows)]
List(q, before) ==
  LET all  == {t \in 1..opened : Matches(q, t) /\ t < before}
      rows == {t \in all : Cardinality({u \in all : u > t}) < PageSize}
  IN [rows |-> rows, cursor |-> IF rows = all THEN 0 ELSE Min(rows)]

\* list_tickets_paginated: _check_sla raises those of the rows that are overdue,
\* after they passed the filter, and the answer shows what they became.  The clock
\* and the status decide which; a raise is committed though the answer be lost.
Check(rows) ==
  \E overdue \in SUBSET {t \in rows : prio[t] < Top} :
    /\ moves + Cardinality(overdue) <= MaxMoves
    /\ moves' = moves + Cardinality(overdue)
    /\ prio' = [t \in Tickets |-> IF t \in overdue THEN prio[t] + 1 ELSE prio[t]]
    /\ UNCHANGED <<opened, gone>>

AsChecked(list) == [rows |-> [t \in list.rows |-> prio'[t]], cursor |-> list.cursor]

ListInit ==
  /\ opened \in 0..NTickets /\ prio \in [Tickets -> Prio] /\ gone = {}
  /\ \A t \in Tickets : t > opened => prio[t] = 1
  /\ query \in [org: Orgs, prio: {0}]
  /\ first = [st |-> "null", q |-> query, is |-> Nil]
  /\ ask = Asked
  /\ acc = [q |-> query, pages |-> <<>>, cursor |-> 0, on |-> FALSE]
  /\ more = NoMore
  /\ stray = FALSE /\ moves = 0 /\ slid = FALSE

\* A ticket is opened meanwhile, by the AI or by an agent.
Open ==
  /\ opened < NTickets /\ opened' = opened + 1
  /\ \E p \in Prio : prio' = [prio EXCEPT ![opened + 1] = p]
  /\ UNCHANGED <<gone, query, first, ask, acc, more, stray, moves, slid>>

\* Someone else changes one, or has it listed when it is overdue; or deletes it.
Reprioritise(t, p) ==
  /\ t <= opened /\ t \notin gone /\ p # prio[t] /\ moves < MaxMoves
  /\ prio' = [prio EXCEPT ![t] = p] /\ moves' = moves + 1
  /\ UNCHANGED <<opened, gone, query, first, ask, acc, more, stray, slid>>

Delete(t) ==
  /\ t <= opened /\ t \notin gone /\ moves < MaxMoves
  /\ gone' = gone \cup {t} /\ moves' = moves + 1
  /\ UNCHANGED <<opened, prio, query, first, ask, acc, more, stray, slid>>

\* Another filter (a search once it has rested for 300 ms), or another organization.
Choose(q) ==
  /\ q # query /\ query' = q /\ ask' = Asked
  /\ UNCHANGED <<backVars, first, acc, more, stray, slid>>

\* "Try again" of the ErrorState.
RetryList ==
  /\ first.st = "error" /\ first.q = query /\ ask = Idle
  /\ ask' = Asked /\ first' = [first EXCEPT !.st = "null"]
  /\ UNCHANGED <<backVars, query, acc, more, stray, slid>>

ServeList ==
  /\ ask.st = "asked"
  /\ LET list == List(query, NTickets + 1) IN
       \/ Check(list.rows) /\ ask' = [st |-> "ok", is |-> AsChecked(list)]
       \/ Check(list.rows) /\ ask' = [st |-> "failed", is |-> Nil]
  /\ UNCHANGED <<query, first, acc, more, stray, slid>>

ArriveList ==
  /\ ask.st \in {"ok", "failed"} /\ ask' = Idle
  /\ first' = [st |-> IF ask.st = "ok" THEN "data" ELSE "error", q |-> query, is |-> ask.is]
  /\ slid' = (slid \/ (ask.st = "ok" /\ moves # 0 /\ (acc.on \/ more.st # "none")))
  /\ UNCHANGED <<backVars, query, acc, more, stray>>

\* The accumulated pages count when they are of the filter now.
CurrentPages == acc.on /\ acc.q.prio = query.prio

\* `current?.cursor ?? page.data?.next_cursor`, and the query it comes from.
Cursor == IF CurrentPages /\ acc.cursor # 0 THEN acc.cursor ELSE first.is.cursor
Source == IF CurrentPages /\ acc.cursor # 0 THEN acc.q ELSE first.q
HasMore == IF CurrentPages THEN acc.cursor # 0 ELSE first.is.cursor # 0
ListLoading == first.st = "null" \/ first.q # query

\* The button is there unless the page shows an error; it is disabled while a
\* request for more is under way, not while the list is loading.
LoadMore ==
  /\ more.st = "none" /\ Cursor # 0 /\ HasMore
  /\ ListLoading \/ first.st # "error"
  /\ Len(acc.pages) < MaxPages
  /\ more' = [st |-> "asked", q |-> query, from |-> Cursor, is |-> Nil]
  /\ stray' = (stray \/ Source # query)
  /\ UNCHANGED <<backVars, query, first, ask, acc, slid>>

ServeMore ==
  /\ more.st = "asked"
  /\ LET list == List(more.q, more.from) IN
       \/ Check(list.rows) /\ more' = [more EXCEPT !.st = "ok", !.is = AsChecked(list)]
       \/ Check(list.rows) /\ more' = [more EXCEPT !.st = "failed"]
  /\ UNCHANGED <<query, first, ask, acc, stray, slid>>

\* setAccumulated: appended to what is there for the same filter.
\* Mutant: appended to whatever is there.
Added_ToAny == acc.pages
Added == IF acc.on /\ acc.q.prio = more.q.prio THEN acc.pages ELSE <<>>

ArriveMore ==
  /\ more.st \in {"ok", "failed"} /\ more' = NoMore
  /\ acc' = IF more.st = "failed" THEN acc
            ELSE [q |-> more.q, pages |-> Append(Added, more.is.rows),
                  cursor |-> more.is.cursor, on |-> TRUE]
  /\ UNCHANGED <<backVars, query, first, ask, stray, slid>>

ListNext ==
  \/ \E t \in Tickets : Delete(t) \/ \E p \in Prio : Reprioritise(t, p)
  \/ Open \/ RetryList \/ ServeList \/ ArriveList \/ LoadMore \/ ServeMore \/ ArriveMore
  \/ \E q \in Query : Choose(q)

-----------------------------------------------------------------------------
ListTypeOK ==
  /\ opened \in 0..NTickets /\ prio \in [Tickets -> Prio] /\ gone \subseteq Tickets
  /\ query \in Query /\ stray \in BOOLEAN /\ moves \in 0..MaxMoves /\ slid \in BOOLEAN
  /\ first \in [st: {"null", "data", "error"}, q: Query, is: Answer]
  /\ ask \in [st: {"none", "asked", "ok", "failed"}, is: Answer]
  /\ acc \in [q: Query, pages: Seq(Page), cursor: 0..NTickets, on: BOOLEAN]
  /\ more \in [st: {"none", "asked", "ok", "failed"}, q: Query, from: 0..NTickets, is: Answer]

\* The pages on the screen.
Further == IF CurrentPages THEN acc.pages ELSE <<>>
Screen  == <<first.is.rows>> \o Further

\* Every row has the priority of the filter or, raised by the very check that
\* answered, the one above it.
Passes(page) == \A t \in DOMAIN page : query.prio \in {0, page[t], page[t] - 1}
OfOrg(org, page) == \A t \in DOMAIN page : OrgOf[t] = org

\* Whatever the order in which filters are chosen, tickets changed and deleted,
\* pages asked for and answers received, the rows of a list that is not loading
\* pass its filter, and the first page is of the organization.  The further ones
\* are of one organization, unless a page was asked for with another list's cursor;
\* but, kept under the filter alone, they stay when the organization changes.
RowsPassTheFilter ==
  ~ListLoading =>
    /\ \A i \in DOMAIN Screen : Passes(Screen[i])
    /\ OfOrg(query.org, first.is.rows)
    /\ ~stray => \A i \in DOMAIN Further : OfOrg(acc.q.org, Further[i])

\* The further pages go on from each other, whatever happens to the tickets, and
\* none repeats a row of the first, also when that one is read again with new
\* tickets on top of it; with fewer, it slides down into the next.
NoRowTwice ==
  ~stray /\ ~ListLoading =>
    \A i, j \in DOMAIN Screen :
      i # j /\ (~slid \/ (i # 1 /\ j # 1)) => DOMAIN Screen[i] \cap DOMAIN Screen[j] = {}

\* The pages listed so far are one list under one filter.
ListIsSound == RowsPassTheFilter /\ NoRowTwice
=============================================================================
