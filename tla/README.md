# Verification of the support platform

This directory holds TLA+ models of the support platform, TLC configurations
that check them on small instances, and TLAPS proofs of the properties that
matter most for every instance. The models cover three programs that meet in
one database: the concurrent core of the backend (`src/app`), the dashboard
that agents and owners work in (`src/frontend/src`), and the chat widget on a
customer's web page (`src/app/static/widget.js`).

Paths are relative to the repository's `src`. `services/x.py` stands for
`app/services/x.py`, and likewise for `repositories/`, `models/`, `workers/`
and `core/`; a `.ts` or `.tsx` file without a leading directory is under
`frontend/src`.

* `tlc -config Tickets.cfg MCTicketLifecycle.tla` checks one run (the table in
  section 5 names the module of each configuration);
* `tlapm TicketLifecycleProofs.tla` checks the proofs of one module;
* `PROJECT.json` maps every definition to the lines it models and lists runs,
  mutants, findings, hazards and theorems.

## 1. The system

A FastAPI process serves a multi-tenant support desk. Requests are coroutines
on one or several event loops; every request gets its own SQLAlchemy session
(`app/db/dependencies.py`), which commits explicitly inside the services and
rolls back when it is closed. PostgreSQL runs at READ COMMITTED. Redis caches
rows and holds rate-limit windows and one-time codes. Celery workers (mail,
webhook dispatch, memory compression, document processing) take tasks from
RabbitMQ (`workers/celery_app.py`). OpenAI and Gemini answer, Stripe bills.

Nothing in the services takes a lock or uses SELECT FOR UPDATE: correctness
under concurrency rests on unique and foreign keys, on the row locks that an
UPDATE takes by itself, on a few atomic `UPDATE ... SET x = x + 1`, and on the
order of commit, cache eviction, task queueing and webhook.

The dashboard is a Next.js client. It keeps no copy of the database that the
backend maintains: every page fetches lists, patches them after its own calls,
and derives figures, notifications and the audit log from them. Nothing is
pushed to it; nothing orders its answers. What its tabs share is
`localStorage`. The widget is one script with one conversation, a stream and a
poll, which tells news from old by a count of messages.

So the question is the same everywhere: what may have changed between the read
and the use of it, and what does the code do then?

### Inventory

| Component | State | Operations | Hard behaviour | Correct when | Module |
|---|---|---|---|---|---|
| Membership and authorization (`services/base.py`, `organization_service.py`) | `organization_members`, `cache:member:*` in Redis (TTL 1 h) | the three guards, invite, update role, remove | cache filled from a row read one await earlier; eviction before commit; checks without locks | founder stays owner; cached roles were real; staleness ends | `Membership`, `Roster` |
| Chat turns (`chat_services.py`, `escalation_service.py`, `api/v1/chat.py`, `widget.py`) | the coroutine, `messages` | answer, stream, escalate | two turns in one conversation; several commits per turn; disconnects | handoffs are backed by tickets; turns end | `ChatTurn` |
| AI usage (`usage_service.py`) | `organization_usage` | check, create row, record | check and charge are far apart | overrun bounded; each committed answer charged once | `ChatTurn`, `LateMeter` |
| Ticket creation (`ticket_service.py` `create_ticket`, `email_service.py`) | `tickets`, mail queue | create, mail, delete | unique index with waiting inserts; tasks queued before the commit | one ticket per conversation; none unannounced | `ChatTurn` |
| Ticket life cycle (`ticket_service.py`) | one row of `tickets`, `ticket_events` | list, get (with SLA escalation), status, priority, assign, reply, delete | reads that write; stale loaded row; row locks; delete against uncommitted children | audit trail, announcements, no lost column, no deadlock | `TicketLifecycle`, `AtomicTicket` |
| Conversation memory (`agents/memory.py`, `conversation_services.py`, `workers/tasks.py`) | `messages`, `message_feedbacks`, task queue | say, read history, compress, retry, rate | long LLM call between read and delete; order by transaction start; foreign key | nothing said is lost; compression happens | `ConversationMemory` |
| API client and sessions (`lib/api/client.ts`, `context/AuthContext.tsx`, `AuthGuard`, `auth_service.py` refresh) | tokens in `localStorage`, the queue of waiting calls, `user_sessions` | call, 401, exchange, retry, sign in and out, load a page | several 401s at once; two tabs with one refresh token; page loads half way; tokens past their date | one exchange for all who wait; a dead refresh token does not stay stored and in use; calls settle | `Session` |
| Organization context, onboarding, billing page (`context/OrganizationContext.tsx`, `AppShell`, `OrganizationSetup`, `OrgSwitcher`) | organizations, the active one, its subscription, the wizard | load, select, create, rename, delete, checkout, portal | lists and details late and out of order; failures that look like data | the active organization is listed; the wizard runs once; loading ends; nobody is billed twice | `Workspace` |
| Console pages (`lib/hooks/useResource.ts`, `useAsyncAction.ts`; members, keys, webhooks, bases, documents) | the hook's snapshot and request key, the page's own patches | fetch, reload, poll, patch, mutate | switches, cancelled fetches, patches of another list, polls that cancel | rows of the active organization; deleted stays deleted; never older; polls end | `Console` |
| Support desk (escalations page, `EscalationControls`, threads, inbox) | paged list, ticket, thread, joined lists with own changes | filter, load more, change, escalate, reply, note, delete | cursors of another list; whole-ticket answers out of order; double sends | list sound; screen is the ticket; own changes stay | `TicketList`, `TicketPane`, `Inbox` |
| Settings forms (settings page, agents page, `organization_settings`) | inputs, the row | edit, save, switch | a form filled by the data that arrives last, saved as a whole | settings do not leak between organizations | `SettingsForm` |
| Notifications (`lib/derived/notifications.ts`) | read marks in `localStorage` | derive, mark, mark all | cap of 500; two tabs with a set each | what was read stays read | `Feed` |
| Figures (`lib/derived/analytics.ts`; overview, analytics, agents pages) | - (derived) | bucket, trend, rate, queue, workload | local days keyed by UTC dates; lists fetched apart | each item on its own day; rates are shares | `Metrics`, `Board` |
| Audit log (`lib/derived/auditLog.ts`) | - (derived) | one request per ticket, merge | requests that fail; a switch under them; retry | the organization's own events, all of them | `Audit` |
| Password reset (`ForgotPasswordDialog.tsx`, `otp_services.py`) | the dialog, Redis codes | send, verify, set, close, clear | delayed clearing; late answers | the password goes to the address shown | `PasswordReset` |
| Chat widget (`app/static/widget.js`) | conversation, box, count, badge | ask, stream, recover, poll, reload, toggle | polls under a stream; breaks half way; deletion and compression | never counts ahead; forgets only the gone; shows everything | `Widget` |
| Billing (`subscription_service.py`) | `subscriptions`, usage period | Stripe events | duplicated and reordered events; two commits per event | plan follows the newest event | planned |
| Webhook delivery (`webhook_dispatcher.py`, `utils/webhook_dispatch.py`; `Webhooks.tsx`) | `webhook_endpoints`, `webhook_deliveries`, task queue; the delivery dialog | register, switch, delete, fire, dispatch, retry, disable; read the log | read-modify-write failure counter; deletion during a dispatch; retried batches; one request hook for every row | disabled only after that many failures; every endpoint tried; the log of the row that is open | `WebhookDelivery`, `Deliveries` |
| Documents and storage (`document_service.py`, `processing/`) | files, vectors, storage counter | upload, process, delete | file and row are not atomic; crash | no row without file | planned; its page is in `Console` |
| Rate limiting (`core/rate_limiter.py`) | Redis windows | check | separate Redis commands | admitted per window | planned |
| Knowledge bases | rows and cache | CRUD | cache eviction order | cache settles | planned; its pages are in `Console` |
| Retrieval, parsers, prompts, providers, HTTP shell, migrations, landing page and presentation components | none, or one component's own | pure, external, wiring or drawing | - | - | not modelled |

`PROJECT.json` lists the hazards of this code line by line, with the properties
that cover each; a note says which part of it none does, and why. Several
properties hold "unless a history flag is up" (section 2): what such a flag
records is what the code lets happen, so the property shows that nothing else
does, and the hazard itself is listed as not covered.

## 2. How the models cut the code

### The backend

* **A request is a process**, `pc[r]`, cut at each await at which shared state
  (database, Redis, task queue, webhook stream) is read or written. Between
  two awaits a coroutine is atomic; between two requests everything
  interleaves. Awaits that only read what no property speaks about are merged
  or left out.
* **A session** is what the request has loaded (`seen`, `job`, `loaded`,
  `picked`) plus its uncommitted writes. Only a COMMIT action changes the
  committed state; `Finish` is the rollback when the session closes.
* **Failure.** `Abort` is enabled at every step of every request: provider or
  database error, client disconnect, process restart. It drops the session and
  nothing else: what was committed, queued or announced stays.
* **Database.** A unique index makes a second INSERT wait for the first open
  transaction and then fail or proceed (`InsertTicket`). An UPDATE waits for
  the row's lock (`Free`); a child INSERT waits for a DELETE of its parent, and
  the DELETE for uncommitted children (`Erasing`, `Erase`). SQLAlchemy emits an
  UPDATE only for columns that differ from the loaded value (`CommitChange`,
  `Write` against `WriteNothing`). `expire_on_commit` is off
  (`app/db/session.py`), so loaded objects stay as they were after a commit.
* **Redis commands and queueing a Celery task** are atomic one by one. Celery tasks are sets or
  counters: order between tasks is not promised, and workers compete.

### The browser

* **JavaScript runs to the next await**, and so does an action. A request is
  *asked*, then *answered* by the backend or failed, then *handled* by the code
  behind the await. Requests of one page are answered and handled in any order.
  What the closure of a request captured (an organization, a cursor, a draft)
  travels with it.
* **Renders and effects** that follow a state change are part of the action
  that changes the state (`Render` in `Workspace`): React runs them before the
  next event. Where an effect starts a request, the action starts it.
* **`useResource`** keys a request by its dependencies and a reload count,
  ignores the answer of a cancelled one, keeps the last data while it reloads,
  and lets a page patch what it holds (`setData`). `Console` has the hook whole;
  the other modules have the part of it that their page uses.
* **The backend of a page** is the rows its requests read and write. Each call is
  atomic there; what happens inside one is the business of the modules above.
* **`localStorage`** is one variable for all tabs; a page load drops everything
  else.
* **History variables** (`crossed`, `strayed`, `stray`, `tangled`, `blind`,
  `late`, `moved`, `shrunk`, `left`, `slid`, `behind`, `lost`, `mine`, `since`,
  `changed`, `marked`) record that
  something happened; no guard of the code reads them. Where a property holds
  only unless something happened, the flag is how it says so, and the comment
  tells what it is in the code. They name the known weak spots of these pages:
  two changes of one ticket at once, a cursor used with another filter, Save
  before the data has come, marks from two open tabs, and so on.

## 3. Modules

### Roster, Membership

`Membership` follows one request through the guard (`LookupHit`, `LookupMiss`,
`ReadActor`, `StoreActor`: GET, SELECT, SET) and the operation behind it
(`CountSeats`, `CheckInvitee`, `InsertMember`; `ReadTarget`, `EvictTarget`,
`CommitChange`, `CommitRemove`). `role` is the table, `cache` the Redis keys,
`seen` the row a request has loaded, `held` a history of committed roles.
`Expire` is the TTL. `"view"`, `"administer"` and `"own"` stand for all other
guarded calls of the application. `Roster` is the abstract promise: only the
table, changed one row at a time, and the founder's row never; `Membership`
implements it with `Table == INSTANCE Roster`.

### LateMeter, ChatTurn

`ChatTurn` follows a turn (or an agent's manual `POST /tickets`) through
message, quota, escalation verdict, `create_ticket` (look up, insert, queue
mail, announce, commit), reply and charge. A ticket id that a turn has inserted
but not committed is its `draft`. The mail worker and ticket deletion are
environment actions. The first and last awaits of the usage row are
`CheckQuota`, `CreateUsage` and `Record`. `LateMeter` is the abstract quota
(checked at admission, charged at the end); `ChatTurn` implements it with
`pending` the number of admitted turns.

### ConversationMemory

A message is a `created_at` and the set of utterances it covers: itself, or,
for a summary, those of the rows it replaced. `clock` counts transactions, as
`created_at` is the start of the transaction that inserts the row
(`models/mixins.py`). A turn opens a transaction, commits its question, reads
the history (and may queue a compression), may start a new transaction on the
way (`Renew`), and commits its answer; an agent's reply commits one message.
A worker picks the oldest batch, is away for the LLM call, and replaces what it
read; rated rows make the DELETE fail and the task is queued again with one run
less (`autoretry_for`).

### AtomicTicket, TicketLifecycle

One ticket after creation. Every request loads it (`Load`) and runs the SLA
check (`InTime`, or `Escalate` and `CommitEscalation`); reads then end, and
updates write a column (`Write`, or `WriteNothing` when it already has the
value), insert the event and fire the webhooks (`LogAndAnnounce`), and
`Commit`. `delete` reads the events the cascade must remove (`ReadEvents`),
deletes (`Erase`) and commits. `lock` is the row lock, `fresh` tells whether a
deleting request knows all events, `trail` is the content of `ticket_events`,
`fired` what subscribers were sent. `Tick` passes a deadline.

`AtomicTicket` is what the committed row, its trail and its webhooks promise
whoever reads them: a column changes alone, together with its event and, for a
status, after its announcement (`Change`); an event that changes nothing
repeats a value the column has had (`Repeat`); webhooks may precede a commit
that never comes (`Announce`); nothing follows `Delete`. It knows no requests,
sessions or locks. `TicketLifecycle` implements it with
`Atomic == INSTANCE AtomicTicket`.

### Session

`store` is `localStorage` (both tokens and the cached profile), `live` the
refresh tokens with a row in `user_sessions`, `tab` the memory of a tab and
`call` its requests. The n-th pair of tokens the backend issues is the number n.
A call goes out with the token stored then (`Start`), is answered or refused
(`Serve`), and its 401 either leads an exchange or waits for the one under way
(`Denied`); `Exchange` is the backend's `refresh`, `Renewed` and `Refused` what
the interceptor does with the outcome, flushing the queue either way. `Guard`
is AuthGuard's effect, `Load` a page load, `Logout` the sign-out, which clears
`localStorage` and loads the sign-in page. Both empty the tab's memory
(`Leave`); an exchange it had posted is carried out all the same (`Orphan`),
with nobody there to store the new pair. `Expire` ages the access tokens. A
refresh token past its date (`Age`) is refused and its row deleted (`Lookup`), or
the row goes with `Cleanup`, the hourly task. `Lookup` and `Exchange` are two
steps, since two tabs may both find the row and both replace it.

A session can be lost without a page load: of two tabs that post one token the
later is refused, and `Refused` clears the pair the earlier has just stored. The
model has this, and no property denies it.

At this commit two methods of `UserSessionRepository` have no body, so every
exchange ends in an error. `RowsFound` says whether they find what was stored:
FALSE is this commit, TRUE the service as it is written, whose behaviours
include those of FALSE since an exchange may fail for other reasons too. The
theorems take it as it comes; the runs set TRUE.

### Workspace

`ws` is the state of `OrganizationProvider`, `AppShell` and the wizard; `jobs`
the requests under way; `mine` and `billed` what the backend and Stripe have;
`saved` the organization in `localStorage`. `Load` is the mount, `SelectOrg` a
choice in `OrgSwitcher`, the `Apply...` actions what follows each await. Those
that change the list or the active organization end in `Render`: the effect
that saves the active organization and asks for its details, and AppShell's
latch that keeps the wizard on the screen once `needsOnboarding` was seen.
Deleting an organization leaves Stripe as it was, as in the code.

### Console

One page at a time of five that list rows of an organization. A row is `"off"`
or `"on"`, whatever that means on its page (a role, an active key or endpoint,
an indexed document). `snap` and `fetches` are the hook, with the time `asof` at
which the backend read the rows; `acts` the mutations. The fifteen actions from
`Invite` to `DeleteDocument` are the buttons of the pages: `Finish` patches the
list or reloads it, whichever that page does. `Tick` is the poll of the
documents page, `Indexed` the worker.

### Screens: TicketList, TicketPane, Inbox, SettingsForm, Feed, Metrics, Board, Audit, PasswordReset, Deliveries

Ten modules of one working screen each (two in `TicketPane`), which share
nothing but the backend. `Screens` extends them all; a behaviour is a *visit* to
one of them, and leaves the variables of the others as they started.

* `TicketList`: `first` is the page kept by `useResource` under organization and
  filter, `acc` the further pages under the filter alone, `more` the request of
  "Load more" with the cursor it was made from; tickets are numbered by age. While
  the list is read they are opened, change their priority and are deleted, and
  every answer is checked for the SLA after it was filtered, which may raise the
  priority of what is in it (`AsChecked`): a HIGH list can hold an URGENT row, and
  `Matches` is the filter's, `Passes` what a row on the screen can be.
* `TicketPane`: `ups` are changes of one ticket that answer with the whole of
  it, `pendingField` disables only its own control, and `Elsewhere` is what the AI,
  colleagues and the SLA check do to the ticket meanwhile; and a thread to write
  to in three places, whose forms clear and append each in its own way. A call
  is carried out and answered, carried out and its answer lost, or neither.
* `Inbox`: conversations and tickets are fetched apart and joined with
  `ticketOverrides`, the tickets this page changed itself.
* `SettingsForm`: a value is known by the organization it belongs to. The form
  is refilled in render whenever the data is another object.
* `Feed`: a mark is an id; each tab has a set of its own and writes it whole.
* `Metrics`: a viewer has an offset that summer time changes, days have
  `DayLen` instants, and the ISO date of an instant is its UTC day.
* `Board`: three lists fetched apart, and rates, queue and workload from them.
* `Audit`: `trail` is `ticket_events`, `log` the requests for the events of the
  newest tickets and what they gave.
* `PasswordReset`: the dialog's three calls, the codes in Redis with separate
  read and delete, and its ways to close. Closing the native dialog sends a
  `close` event whose handler starts a timer that clears the dialog 200 ms later
  (`CloseEvent`, `Reset`); Escape, the cross and the backdrop have run the
  handler once before (`CloseDialog`: two timers), "Cancel" and "Back to sign in"
  have not (`Cancel`: one). A dialog opened again meanwhile is shut by the event
  and cleared by the timers all the same.
* `Deliveries` extends `WebhookDelivery`. `dispatch` has a task for each event:
  queued by `FireEvent`, it reads the endpoints and their counters once
  (`LoadEndpoints`), then `PostTo` posts to the newest one left and commits the
  delivery and the counter computed from what was *loaded*. An exception
  (`DispatchRaises`, or the record of an endpoint deleted meanwhile) queues the
  whole task again or drops it (`AfterError`); `WorkerDies` loses it. On top,
  `entries` is the snapshot of the one `useResource` that serves the dialog of
  every row, `enquiries` its requests, cancelled ones included.

### Widget

`saved` are the messages the backend has of each conversation, `screen` those in
the box, `known` the widget's count, `stream` the question under way, `syncs`
the polls. The backend saves question and answer in two steps (`SaveQuestion`,
`SaveAnswer`) and the stream may break before, between or after them (`Break`).
A question to a conversation that is gone is asked again without one
(`Recover`); a poll that meets a 404 forgets it (`Forget`). A poll that finds
more messages than counted redraws the box, and adds to the badge when the
chat is closed. `AgentReplies`, `Compress` and `Delete` are the rest of the system.

### What is composed

`ChatTurn` composes chat, metering, ticket creation and the mail worker.
`Session` composes the client with the backend's exchange, `PasswordReset` the
dialog with the one-time codes, `Deliveries` the log dialog with the dispatcher,
`Widget` the script with the backend's turn.
`Membership` and the rest meet only in the guard, a read that may refuse; the
other models take the guard as passed. `ConversationMemory` takes quota and
generation as steps that may fail. `TicketLifecycle` starts where `ChatTurn`'s
`CommitTicket` ends. `Workspace` and `Console` meet in the active organization,
which `Console` lets change at any moment.

## 4. Properties

Each is stated with its reason where it is defined. In short:

* **Membership**: `FounderStaysOwner` (every unlocked check-then-write keeps
  the organization owned), `PrivilegesWereHeld` (late, never invented),
  `RosterSpec`, `CacheSettles` (liveness).
* **ChatTurn**: `AnswersAreCounted`, `MeterSpec`,
  `OneTicketPerConversation`, `HandoffIsBacked`, `TicketsAreAnnounced`,
  `TurnsEnd`.
* **ConversationMemory**: `NothingForgotten` (an equality: nothing lost and
  nothing invented), `LongHistoriesAreCompressed`.
* **TicketLifecycle**: `ColumnsAreAudited`, `StatusIsAnnounced`,
  `AtomicTicketSpec` (the refinement), `RequestsEnd`.
* **Session**: `WaitersHaveALeader` (no 401 starts a second exchange beside the
  first, and the queue forgets nobody), `DeadTokensAreAccounted` (a stored refresh
  token the backend would not honour is past its date, was left in mid-exchange
  by a page, or is about to be replaced or cleared by the tab that holds its
  outcome; no race of tabs is a fourth reason), `NoDeadTokenStays` (and calls do
  not go on meeting 401 with one), `CallsSettle`.
* **Workspace**: `ActiveOrgListed`, `WizardRunsOnce`, `LoadingEnds`, and
  `CheckoutOnlyStarts`, which the code violates.
* **Console**: `SettledRowsAreHome`, `DeletedStaysDeleted`, `NeverOlder`,
  `IndexingIsSeenToEnd`.
* **Screens**: `ListIsSound` (rows pass the filter or were raised above it, the
  first page is the organization's, none is listed twice unless a cursor strayed
  or rows slid under pages read before), `ScreenIsTheTicket` (with single changes
  an answer always brings the screen up to the ticket; it is behind only while
  the last change of the ticket was not answered here), `InboxThreadIsWhole`
  (each reply as often as it was posted, less the lost answers), `OwnChangesStay`,
  `SettingsStayHome`, `LatestMarksAreKept`, `FiguresAreTrue` (charts by day, and
  figures of the board), `LogsAreTheirOwn` (the audit log and the deliveries),
  `PasswordsGoToTheAddress`, `DeliveriesAreTried` (no endpoint is disabled
  without `FailureLimit` failures, and none is passed over by a dispatch that
  ends).
* **Widget**: `NeverOvercounts` (a count that runs ahead hides news for good),
  `ForgetsOnlyTheGone`, `MessagesAreShown`.

Type invariants are theorems where there is a proof module; the runs do not list
them again. Some properties are proved or discussed and not listed in a run
either: `ResponsesBounded`, `SeatsBounded`, `TokensBounded`, `CacheCoherent` and
`OwnersKeepTheirRole` (both for one request at a time), `RatedMessagesRemain` and `RetriesChangeTheToken` are theorems; so is
`OneColumnAtATime`, which `AtomicTicketSpec` implies. The definitions named in
section 8 state what the code does not do.

Every property of a passing run has a mutant: an operator beside the one it
replaces (`CheckQuotaOffByOne`, `WriteWholeRow`, `Render_Live`, ...) that carries
a plausible bug and makes the run fail.

## 5. Runs

| Run | Configuration, module | Instance | Shows |
|---|---|---|---|
| membership_concurrent | `MembershipConcurrent`, `MCMembership` | 2 users, 2 requests, roles OWNER and SUPPORT, 2 seats | safety, refinement and `CacheSettles` with requests interleaving |
| chat_tickets | `ChatTickets`, `MCChatTurn` | 2 turns, 2 conversations, 2 ticket ids, stream and manual | ticket races, webhooks, termination |
| chat_quota | `ChatQuota`, `MCChatTurn` | 3 turns, quota 2 responses and 1 token, answers cost 0 or 1 | every committed answer charged once; implements `LateMeter` |
| memory_concurrent | `MemoryConcurrent`, `MCConversationMemory` | 2 turns, 2 workers, batch 2, 2 attempts, clock 4, 1 rating, 1 outage | rival compressions, late commits, retries |
| tickets | `Tickets`, `MCTicketLifecycle` | 2 requests, 1 agent, created HIGH, one deadline | escalation against updates and deletion, lock waits; implements `AtomicTicket` |
| session | `Session`, `MCSession` | 2 tabs, 2 calls and the profile's, 2 pairs of tokens of which one passes its date, 2 calls open, pages left for /login and the dashboard | 401s under several calls, tabs that race, sign-outs, page loads and clean-up |
| session_calls | `SessionCalls`, `MCSession` | the same without refresh dates, page loads of the dashboard | under fairness, calls settle and no dead token stays stored and in use |
| workspace | `Workspace`, `MCWorkspace` | 2 organizations, one of them owned, 2 requests under way | late lists and details, onboarding, deletion, billing |
| workspace_double_billing | `WorkspaceDoubleBilling`, `MCWorkspace` | violation | section 8 |
| console | `Console`, `MCConsole` | 5 pages, 2 organizations, 1 row, 2 fetches, 2 mutations, 2 writes | switches, reloads, polls and late patches |
| screens | `Screens`, `MCScreens` | one visit to each of eleven screens; 3 tickets of 2 organizations, pages of 1, one of which leaves its list; 2 changes of a ticket under way, 3 replies; 2 endpoints, an event for both and one for the first, 1 retry, disabled after 2 failures, 2 requests for a log | the properties of the ten modules |
| widget | `Widget`, `MCWidget` | 2 conversations, 5 messages, 2 polls | broken streams, polls, reloads, deletion, compression |

### Bounds, and why they are enough

* Two requests (turns, workers, tabs, calls, fetches, mutations, polls) are the
  least that can race; every race here is between a reader and one writer, or
  two writers of one row. The quota run has three turns, so that its bounds
  differ from "one too many". The theorems of section 7 remove these bounds for
  every safety property the runs check.
* `Tickets` bounds ids ever inserted, and `CanMint` keeps a turn from starting
  towards an INSERT without an id left, so that the bound refuses work at the
  door and never blocks a turn half way. `MaxTokens`, `MaxJobs`, `MaxFetches`,
  `MaxActs`, `MaxUps`, `MaxCalls`, `MaxOpen`, `MaxSyncs` and `MaxAsked` are of the same
  kind: a person or a timer starts nothing more while so many are under way.
* `MaxClock`, `MaxRated`, `MaxOutages`, `MaxLost`, `MaxAge`, `MaxWrites`,
  `MaxDrafts`, `MaxPosts`, `MaxPages`, `NTickets`, `MaxChanges`, `MaxMarks`,
  `MaxTalks`, `MaxEvents`, `MaxMoves`, `MaxAged`, `MaxCodes`, `MaxCloses`, `MaxConvs`, `MaxIds` and
  `Horizon` bound counters; they guard environment actions (a turn starts,
  something is written, read, marked or fails, time passes).
* Constants of the code shrink to the smallest value that has a boundary:
  `Batch` is 2 for 10, `Attempts` 2 for 4, `PageSize` 1 for 25 (so three tickets
  make three pages), `Cap` 2 for 500, `LogCap` 1 for 40, `QueueLength` 1 for 6,
  `FailureLimit` 2 for 50, `Retries` 1 for 3,
  `DayLen` 4 instants for 24 hours with offsets of -1, 0 and 1.
* `Console.cfg` has one row, of the first organization: two mutations of one row
  race, rows meet nowhere but in the list that holds them, and the second
  organization must stay empty. Two organizations are the least one can be
  switched between.
* `SessionCalls.cfg` sets `MaxAged` to 0 and `Landings` to the dashboard: a token
  past its date is refused like one whose row another tab replaced, and the
  sign-in page makes no calls that could wait. `Session.cfg` has both.
* In `Tickets.cfg` one deadline makes the ticket overdue at HIGH; requests ask
  for RESOLVED, HIGH (again, after an escalation) or the agent.
* `Telling` in `Screens.cfg` is a state constraint: it stops where a history flag
  (`crossed`, `tangled`, `strayed`, `blind`, `late`, `moved`, `slid`, and `stray` once
  the page it was asked for has come) has gone up. Each is never lowered, and
  what the property of that visit says is all or mostly "unless the flag is up";
  what `ListIsSound` says beyond that, the theorem has for every state. Where no
  ticket leaves its list, priorities are as opened (the second ticket high, the
  others low). `Telling` also keeps the two halves of the webhooks visit apart:
  while delivery logs are being read, one event is sent once and answered, and no
  endpoint is switched off or deleted; with the dialog closed all of it is
  explored. What the dialog shows depends on the length of the logs alone.
* `CHECK_DEADLOCK FALSE` appears in `MemoryConcurrent` and `Screens`: the clock
  of the one stops and the conversation is over, the visits of the other end
  when their bounded number of events has happened. Everywhere else a deadlock
  would be an error.

Only `ChatQuota` uses the symmetry its MC module declares: the other runs check
liveness, where symmetry is unsound, or are small.

## 6. Fairness

`Spec` has none; safety is checked and proved without it. `FairSpec` adds:

* weak fairness of each started request's own steps: the event loop resumes
  every coroutine whose await has completed, and provider calls end or time
  out. Arrival of requests, aborts, ratings, outages and time are not fair;
* weak fairness of Redis expiry (`Membership`): every key is stored with `ex`;
* weak fairness of the workers (`SendMail`, `TaskStep`, `Indexed`): Celery
  workers take tasks while they run. Liveness is not claimed for a stopped one;
* strong fairness of steps that wait for a row lock (`TicketLifecycle`):
  PostgreSQL queues waiters for a row in order, so a waiter is served although
  others keep taking the row. Weak fairness would let later requests overtake
  it for ever, which the database does not do;
* in the browser, weak fairness of what the event loop does by itself: a
  request of each kind is answered or fails and its continuation runs
  (`Settle`, `Renew`, `Settles`, `ServeFetch` and `Arrive`, `ServeAct` and
  `Finish`, `ArriveSync`), effects and timers run (`Guard`, `Tick`, `Poll`), a
  stream ends. Nobody has to click, switch, reload or sign in;
* strong fairness of one poll of the widget being answered (`ServeSync`): any
  single poll may be lost, but not every poll for ever.

What people could do for ever to keep a page from finishing is a premise of the
formula and not a fairness condition: `PagesStay` and `Settles` (somebody
reloads for ever), `Stays` (switches organizations for ever), and
`AnswersBeatTheTimer`: the documents page cancels the request under way at every
tick, so it shows nothing new when every answer takes longer than four seconds.

## 7. Proofs

Every component is proved about for every value of its constants, under the
assumptions named in the modules (finite sets where cardinalities are counted,
positive plan limits, values that are distinguishable, clocks that are not
changed by more than a day). TLC evaluates those assumptions in every run. The
bounds of section 5 are constants too: the theorems hold for any of them.

* **`MembershipProofs`**. `Typed` adds to `TypeOK` what a request's position
  says about its arguments (`RequestShape`). `FounderUntouched` adds to
  `FounderStaysOwner` that no request past the target check aims at the founder:
  the row it reads is always OWNER. `EveryRoleWasHeld` carries the history
  through `seen`. `SeatsPromised` counts requests between the seat count and
  the INSERT as promises: members plus promises never exceed the bound, an
  insert turns a promise into a member. `ImplementsRoster` maps each commit to
  one action of `Roster` and every other step to a stutter. Under `OneRequest`,
  `CoherentSteps` says what the request under way has read or evicted at each of
  its steps; without it neither `CacheCoherent` nor `OwnersKeepTheirRole` holds
  (section 8), so it is an assumption of these two theorems and no constant of
  the module. They tell that overlap is the only cause, and no run repeats them.
* **`ChatTurnProofs`**. `TurnShape` plays the same part. `MeterStep` shows that
  each step admits, charges, abandons or leaves the meter alone; `Promised`
  (used plus turns in flight, and tokens plus the most they may still cost) is
  inductive and gives both bounds and the refinement; `MeterSuffices` draws the
  bound on responses from `LateMeter` alone. `AnswersCounted` is
  inductive with `Typed`. `TicketShape` relates drafts, minted ids, the holder
  of a conversation's uncommitted ticket and announcements; it gives
  `OneTicket`, `HandoffBacked` and `TicketsAnnounced`.
* **`ConversationProofs`**, of a conversation at its two ends. In the backend,
  `Remembered` is `NothingForgotten` together with "what a worker has picked
  covers only what was said": deleting rows that another worker has compressed
  meanwhile is then harmless, since the new summary covers them again. In the
  widget, `OneRequestAtATime` says that until requests cross there is one poll or
  one stream and it is about the conversation at hand, and that a poll answered
  404 asked for a conversation that is gone for good; this alone gives
  `ForgetsOnlyTheGone`. `CountLeavesRoom` says, while nothing was compressed,
  that the count leaves room for what was saved of the turn under way, by the
  step at which its stream is or broke; `NeverOvercounts` is not inductive
  without it, since the end of a stream adds two to the count whatever was saved.
  `WidgetTypes` adds to the widget's types that a question under way and its
  answer have ids of their own; it needs that what a compression keeps exists
  (`GreatestExists`) and that the badge grows by what the count grows by.
* **`TicketLifecycleProofs`**. `OpenTransaction` says that the lock is held by
  one transaction and that the ticket it holds differs from the committed row
  in its own column only; `Announced` that a status about to be committed has
  been fired. `CommitEffect` draws from them what a commit does, and the
  audit trail, the announcements and `OneColumnAtATime` follow. The refinement
  needs two more facts. `DeleteAlone`: once a session has deleted the row, no
  other one is between its flush and its commit, so nothing is committed for a
  ticket that is gone. `ValuesWereHad`: a request that wrote nothing because its
  column had the value already records a value from the trail or from the
  creation. `StepIsAtomic` then maps each commit to one
  action of `AtomicTicket` and every other step to an announcement or a stutter
  (`ImplementsAtomicTicket`). `AtomicTicketSuffices` says why the abstraction is
  worth having: the audit trail, the announcements and one column at a time
  follow from it alone.
* **`SessionProofs`**. `TokensInv` adds to the types that pairs are issued once
  (`Issued`) and that a pair an exchange has obtained and its tab has not stored
  yet is known to nobody else (`Private`): not stored, not led by another tab,
  not carried by a call. So a retried call carries another token than the one
  refused. `DeadTokensAreAccounted` is inductive with it: a stored token dies by
  its date, by the exchange of a page that is gone, which is in `left`, or by one
  whose tab has found the row or holds the outcome; and when that tab has stored
  or cleared, the dead token is no longer the stored one. `WaitersHaveALeader`
  is inductive by itself beside the types.
* **`WorkspaceProofs`**. `ActiveOrgListed` is inductive beside `TypeOK`: every
  step that changes the list or the active organization goes through `Render`,
  and one lemma about `Render` serves them all. `WizardWaits` ties the wizard's
  step to the calls under way for it: one organization is being made at the
  first step and at no other, so a late answer cannot move a later step.
* **`ConsoleProofs`**. The rows on the page and those on their way are copies of
  the table. A copy is good when it holds its own organization's rows and
  nothing that was gone when it was read; patching keeps a good copy good
  (`CopiesAreGood`, `OnlyTheGone`). `LastRun`: one fetch may still store, and it
  was read after what is stored.
* **`ScreensProofs`**, of `Screens`. Each screen has an inductive invariant over
  its own variables; `StepsAreLocal` shows that a step of `Screens` is, for each
  screen, a step of that screen or none, and `ScreensIInv` is their conjunction.
  - `ListIInv`: every page, shown or on its way, has rows of its own query or
    raised above it (`PagesMatch`); and unless a cursor was used for another list,
    what is below a cursor is on no first page of its query, not even one read
    later, when tickets were opened meanwhile (`CursorsAreSound`), and the pages
    that were added go down and do not meet (`PagesGoDown`). Once a ticket has
    left a list this is said of the first page there is only, until it is read
    again (`Fresh`). A page ends at the least number of a set, whose existence is proved from the well-foundedness of
    finite subsets, as induction is not at hand.
  - `ControlsIInv`: unless changes crossed or the ticket changed with no answer to
    this screen, the page shows the ticket there is, or the one change under way
    was answered with it. `ThreadIInv` counts, for each draft, what is shown, what
    is answered and not shown yet, and what was stored and its answer lost
    against what was posted.
  - `InboxIInv`: until two changes of a conversation tangled, one is under way at
    a time and its answer is later than all that this page was answered before
    (`AnswersComeLater`), so the override is the latest.
  - `SettingsIInv`: what is stored came from a save, what a save carries from a
    settled form, and a settled form from data of the organization shown (`Home`).
  - `FeedIInv`: the marks of a tab that is open and what is stored end alike; the
    lemmas are about the last `Cap` elements of a sequence.
  - `MetricsIInv` says that fresh charts are `Buckets`; the work is
    `BucketIsDay`, that without a change of the clocks in the window the UTC
    date of a bucket's first instant agrees with that of an instant's local
    midnight exactly when the local days agree, from lemmas about quotients.
  - `BoardIInv`: no conversation has two tickets, and lists read while nothing
    moved are those of one moment; so one length subtracted from the other counts
    the conversations without a ticket (a bijection of tickets and the rest).
  - Sums and sorting need no induction on data here. A fold over a finite set
    takes one element off at a time (`Pick`), and so does the count of what falls
    under the set (`CountsAdd`); the subsets on which the two differ would have a
    least one, so there is none (`SumCounts`, `TotalCounts`). This gives the
    arrow (`ArrowSays`: it compares the items of the two halves of the window)
    and the workload (`WorkloadAdds`: rows and remainder are all that is
    assigned). For the queue, the place of an open ticket is one more than the
    number of those before it; places grow with the order and none is past the
    number of open tickets, so every place up to that is taken
    (`PlacesAreTaken`), and the ticket at each place of the queue exists and is
    unique (`QueueIsUrgent`). `FiguresHold` puts the four parts together.
  - `AuditIInv`: the rows are events of tickets that were asked for
    (`RowsAreAskedFor`), those are the tickets last listed, once both lists are
    in, and a list that was answered is the team's; of each of the newest the
    events are awaited, lost or shown (`NewestAreRead`).
  - `ResetIInv`: until an answer came late, a call that is current belongs to the
    step the dialog is at and carries the address it shows (`StepsAgree`), and so
    does a new password (`SubmitsAgree`).
  - `DeliveryIInv`: an endpoint is off only after `FailureLimit` logged failures
    (`OffForFailures`, from `CountersAreLogged`) or by its owner, and one that is
    owed an event is ahead of the dispatch or was tried (`OwedIsAhead`).
    `DialogIInv`: a request that was not cancelled is the open dialog's, and the
    dialog waits for one or has its answer (`WaitsOrHasAnswer`).
  - `TypesHold` adds what the type invariants say beyond these (`RestOfTypes`):
    calls, overrides and versions of the inbox within their bound, charts of
    numbers (each bucket counts a finite set), two close events and timers at most
    for each closing of the dialog, dispatches that owe to subscribers only.

Only model-checked:

* the liveness properties (`CacheSettles`, `TurnsEnd`,
  `LongHistoriesAreCompressed`, `RequestsEnd`, `CallsSettle`, `NoDeadTokenStays`, `LoadingEnds`,
  `IndexingIsSeenToEnd`, `MessagesAreShown`): fairness is beyond the prover;
* the counterexample of section 8.

## 8. Findings

One disagreement has a run of its own. The billing page says that checkout can
only ever start a subscription and that sending a subscriber there bills them
twice (`app/dashboard/settings/billing/page.tsx:162`), and decides by
`subscription`; `loadOrgDetail` makes that `null` when the request for it fails
(`context/OrganizationContext.tsx:98`). The run `workspace_double_billing` walks
an owner whose organization pays to the checkout.

Six more are stated as definitions of the backend's modules. TLC refutes each
with the constants of a run: the first with those of `MembershipConcurrent`, the
second and fourth with `ChatQuota`, the third with `ChatTickets`, the last two
with `MemoryConcurrent` (the sixth as a property of `FairSpec`):

1. `RemovedMemberIsNotCached`: `remove_member` says its eviction keeps a removed
   member out; a guard that runs between eviction and commit caches the role
   again, for up to an hour (`services/organization_service.py:255`).
2. `QuotaIsReserved`: the README draws `check_and_increment` for the AI quota;
   the code checks at the start and increments at the end, so concurrent turns
   overrun it. The overrun is below the number of turns in flight
   (`ResponsesSafe`).
3. `UrgentTicketsAreMailed`: the email of an urgent ticket is queued before the
   commit; a worker that finds no row returns without an error and the email is
   never sent.
4. `AnswersReachTheCaller`: `POST /chat` returns `result.answer`, which only
   escalations set: an answered turn is stored, charged, and fails in the
   response model.
5. `SummaryOnTop`: the summary is not at the top of the prompt: its `created_at`
   is the start of the worker's transaction, after messages already stored.
6. `CompressionIsGuaranteed`: the token limit is not "mathematically" out of
   reach: one rated message among the oldest makes every compression fail on
   its foreign key.

With two requests `OwnersKeepTheirRole` (an action property) fails too: a user promoted to OWNER can
still be demoted by a request that read the old role.

Seen while reading, and the subject of no run:

* An SLA escalation computes the priority from the one loaded, so it lowers a
  priority that an agent raised meanwhile (`services/ticket_service.py:63`; the
  model allows it). `answer` flushes a title that nothing commits
  (`services/chat_services.py:222`). A first usage row inserted by two turns at
  once fails one of them. `TICKET_CREATED` may announce a ticket that rolls
  back.
* Of two tabs that exchange one refresh token the loser signs both out: it clears
  the pair that the winner has stored (`lib/api/client.ts:128`). `bootstrap()` does
  the same on any error of the profile request, a failed network included
  (`context/AuthContext.tsx:62`).
* The list of escalations says that changing a filter discards the further pages
  (`app/dashboard/escalations/page.tsx:45`); they are only set aside, and are there
  again when the filter is chosen again. The organization is not part of their
  key, so after a switch those of the organization before stay on the screen.
* Deleting an organization leaves its subscription with Stripe
  (`services/organization_service.py:77`).
* "Try again" on the audit log reads the lists again and not the events that
  failed; an actor who has left, or whose list failed, is shown as Support-AI.
* The fallback figures of a failed list look like data until the error shows:
  while "Try again" is under way every conversation counts as handled.
* Enter in the name field of a new knowledge base, or in the email field of an
  invitation, submits the form again while the first call is still under way:
  only the button waits (`components/knowledge/KnowledgeBaseDialogs.tsx:79`).
* An endpoint's failures need not be consecutive: a counter loaded before another
  dispatch's success is written back after it, and two failures at once count as
  one (`repositories/webhook_repository.py:85`; the model allows both).
  Switching a disabled endpoint on keeps its counter, so the next failure
  switches it off again. A retried task posts again, under a new event id, to
  endpoints that had been reached, and every attempt is logged as the first,
  although the dialog has a label for later ones
  (`components/developers/Webhooks.tsx:407`). Test pings are not logged, although
  the empty log asks for one (`components/developers/Webhooks.tsx:391`).
* The deliveries and the chunks of the row opened before are shown under the
  title of the next one until its request is answered
  (`components/knowledge/ChunkInspector.tsx:51`).
* Each tab writes its own set of read notifications over that of the others.

## 9. Not modelled

Names, texts, prompts, tokens of the stream, embeddings and retrieval results:
no property depends on them. In the backend: ticket notes, the conversation
title and its cache, feedback beyond the rating that pins a message. In the
dashboard: the retrieval tester (it only reads), the dialogs that show a secret
once, keyboard navigation and search, the customers pages (fixed sample
data), the drawing of charts, the landing page and the presentation components
(layout and animation, one component's state each). In the widget: theme,
greeting, suggestions, citations, rich text. The components marked "planned" in
section 1. Password hashing, JWT signing, the OpenAI, Gemini, Google, Stripe and
SMTP clients: external, taken as answers or failures.

## 10. Plan

Done, in this order: `Roster` and `Membership` (every request passes through
it), `LateMeter` and `ChatTurn` (the core of the product), `ConversationMemory`,
`TicketLifecycle` with `AtomicTicket`, `Session`, `Workspace`, `Console`, the
modules of `Screens`, `Widget`; all of them with proofs of what section 7 lists.
Every invariant and every safety property of a step that a passing run checks
is a theorem, and so are the three refinements.

Next:

1. `Billing`: Stripe events delivered twice, late and reordered, the two
   commits of a renewal, overlapping usage periods; abstract spec: the plan of
   the newest event. Theorems: no period is charged twice, at most one current
   period where the code ensures it.
2. `Documents`: upload, processing states, crash, deletion, storage quota as a
   second instance of `LateMeter`; composed with the documents page of
   `Console`.
3. `RateLimit` (sliding and fixed window against a reference window), the
   knowledge base cache as a second instance of the protocol of `Membership`.
4. Composition of `Membership` with `TicketLifecycle` (assignee demoted between
   check and commit), on top of `AtomicTicket`.
5. Proofs: an abstract client (one signed-in store for all tabs) that
   `Session` implements.
