------------------------------ MODULE Session ------------------------------
(***************************************************************************)
(* The signed-in session of the dashboard: the axios client with its       *)
(* refresh-on-401 interceptor (lib/api/client.ts), AuthContext, AuthGuard  *)
(* and the sign-in pages, over the session rows of the backend.            *)
(*                                                                         *)
(* Browser tabs share one localStorage ("store"); everything else is the   *)
(* memory of a tab and is lost with a page load.  The n-th pair of tokens  *)
(* the backend issues is the number n, and 0 is "no token".                *)
(*                                                                         *)
(* UserSessionRepository has two methods without a body at this commit, so *)
(* the exchange of a refresh token always ends in an error.  RowsFound     *)
(* says whether the repository finds rows: FALSE is this commit, TRUE (a   *)
(* superset of its behaviours) the service as it is written.               *)
(*                                                                         *)
(* A row the backend writes and nobody is told of (the answer is lost, or  *)
(* its page was left) has no number: no step can ever name it.             *)
(***************************************************************************)
EXTENDS Naturals, FiniteSets

CONSTANTS Tabs,       \* open browser tabs
          Calls,      \* ordinary API calls a tab can have under way
          Bootstrap,  \* the GET /users/me of bootstrap()
          Adopt,      \* the GET /users/me of adoptSession()
          Watched,    \* the tabs CallsSettle is about: all are alike, so one will do
          Landings,   \* the pages people load by hand
          MaxTokens,  \* bound on the pairs of tokens the backend issues
          MaxOpen,    \* bound on the calls open at a time in all tabs
          MaxAged,    \* bound on the refresh tokens that grow too old
          RowsFound   \* does the session repository find the rows it stored?

ASSUME SessionAssumption ==
  /\ MaxTokens \in Nat \ {0} /\ MaxAged \in Nat /\ RowsFound \in BOOLEAN
  /\ Watched \subseteq Tabs /\ Landings \subseteq {"login", "app"}
  /\ Bootstrap \notin Calls /\ Adopt \notin Calls /\ Bootstrap # Adopt

VARIABLES
  store,    \* localStorage: the access and the refresh token, the cached profile
  live,     \* refresh tokens that have a row in user_sessions
  expired,  \* the first so many access tokens have expired: they all live equally long
  aged,     \* and the first so many refresh tokens are past their rows' expires_at
  left,     \* refresh tokens whose page was left while it exchanged them
  issued,   \* pairs issued so far
  tab,      \* per tab: page, AuthContext's state, the exchange under way
  call      \* per tab and call: its state, the token it carried, its _retry mark

vars == <<store, live, expired, aged, left, issued, tab, call>>

Token   == 1..MaxTokens
Maybe   == 0..MaxTokens
Profiles == {Bootstrap, Adopt}
Request  == Calls \cup Profiles

\* "sent": no answer yet; "ok", "denied" (401): the backend has answered and
\* the tab has not handled it yet; "leading": its 401 started the exchange; "queued".
CallState == {"idle", "sent", "ok", "denied", "leading", "queued"}

Store == [access: Maybe, refresh: Maybe, profile: BOOLEAN]
Tab   == [page: {"login", "app"}, user: BOOLEAN, boot: BOOLEAN,
          phase: {"none", "posted", "found", "renewed", "refused"}, lead: Maybe, reply: Maybe]
Call  == [st: CallState, tok: Maybe, retried: BOOLEAN]

Cleared == [access |-> 0, refresh |-> 0, profile |-> FALSE]
Idle    == [st |-> "idle", tok |-> 0, retried |-> FALSE]
Fresh(page) == [page |-> page, user |-> FALSE, boot |-> FALSE,
                phase |-> "none", lead |-> 0, reply |-> 0]

SetTokens(k) == [store EXCEPT !.access = k, !.refresh = k]
Sent(k)      == [st |-> "sent", tok |-> k, retried |-> FALSE]

\* The bound on the calls open at a time; page loads may go beyond it.
RoomForACall ==
  Cardinality({p \in Tabs \X Request : call[p[1]][p[2]].st # "idle"}) < MaxOpen

Init ==
  /\ store = Cleared
  /\ live = {} /\ expired = 0 /\ aged = 0 /\ left = {} /\ issued = 0
  /\ tab = [t \in Tabs |-> Fresh("login")]
  /\ call = [t \in Tabs |-> [c \in Request |-> Idle]]

-----------------------------------------------------------------------------
(* Page loads, the guard, signing in and out.                              *)

\* The memory of a tab goes.  What it had posted is on its way all the same.
Leave(t) == left' = left \cup (IF tab[t].phase = "none" THEN {} ELSE {tab[t].lead})

\* A page load: AuthProvider's bootstrap() runs.
Load(t, page) ==
  LET booting == store.access # 0
  IN /\ Leave(t)
     /\ tab' = [tab EXCEPT ![t] = [Fresh(page) EXCEPT !.boot = booting,
                                      !.user = booting /\ store.profile]]
     /\ call' = [call EXCEPT ![t] = [c \in Request |->
                    IF c = Bootstrap /\ booting THEN Sent(store.access) ELSE Idle]]
     /\ UNCHANGED <<store, live, expired, aged, issued>>

\* AuthGuard: the dashboard sends a visitor without a session to /login.
Guard(t) ==
  /\ tab[t].page = "app" /\ ~tab[t].boot /\ ~tab[t].user
  /\ tab' = [tab EXCEPT ![t].page = "login"]
  /\ UNCHANGED <<store, live, expired, aged, left, issued, call>>

\* login(), googleLogin() and the login that ends register(), with bootstrap()
\* over or not: new tokens are stored, then adoptSession() asks for the profile.
SignIn(t) ==
  /\ tab[t].page = "login" /\ call[t][Adopt].st = "idle"
  /\ issued < MaxTokens /\ RoomForACall
  /\ issued' = issued + 1
  /\ live' = live \cup {issued + 1}
  /\ store' = SetTokens(issued + 1)
  /\ call' = [call EXCEPT ![t][Adopt] = Sent(issued + 1)]
  /\ UNCHANGED <<expired, aged, left, tab>>

\* A sign-in that is refused: 401 from an /auth/ address clears the tokens.
WrongPassword(t) ==
  /\ tab[t].page = "login" /\ call[t][Adopt].st = "idle"
  /\ store' = Cleared
  /\ UNCHANGED <<live, expired, aged, left, issued, tab, call>>

\* logout(): the tokens go, then a full page load of /login.
Logout(t) ==
  /\ tab[t].page = "app" /\ tab[t].user
  /\ Leave(t)
  /\ store' = Cleared
  /\ tab' = [tab EXCEPT ![t] = Fresh("login")]
  /\ call' = [call EXCEPT ![t] = [c \in Request |-> Idle]]
  /\ UNCHANGED <<live, expired, aged, issued>>

-----------------------------------------------------------------------------
(* Calls and the backend.                                                  *)

\* A page behind the guard calls the API with the token stored at this moment.
Start(t, c) ==
  /\ tab[t].page = "app" /\ tab[t].user /\ ~tab[t].boot
  /\ call[t][c].st = "idle"
  /\ RoomForACall
  /\ call' = [call EXCEPT ![t][c] = Sent(store.access)]
  /\ UNCHANGED <<store, live, expired, aged, left, issued, tab>>

\* get_current_user decides on the token the call carries.  What an ordinary
\* call brings back is the page's own; the profile is handled by Profile.
Serve(t, c) ==
  /\ call[t][c].st = "sent"
  /\ \/ /\ call[t][c].tok <= expired
        /\ call' = [call EXCEPT ![t][c].st = "denied"]
     \/ /\ call[t][c].tok > expired /\ c \in Profiles
        /\ call' = [call EXCEPT ![t][c].st = "ok"]
     \/ /\ call[t][c].tok > expired /\ c \in Calls
        /\ call' = [call EXCEPT ![t][c] = Idle]
  /\ UNCHANGED <<store, live, expired, aged, left, issued, tab>>

Expire ==
  /\ expired < issued
  /\ expired' = expired + 1
  /\ UNCHANGED <<store, live, aged, left, issued, tab, call>>

Age ==
  /\ aged < issued /\ aged < MaxAged
  /\ aged' = aged + 1
  /\ UNCHANGED <<store, live, expired, left, issued, tab, call>>

\* cleanup_expired_sessions_task, every hour.
Cleanup ==
  /\ live' = live \ (1..aged)
  /\ UNCHANGED <<store, expired, aged, left, issued, tab, call>>

\* AuthService.refresh looks for the row.  One past its date is deleted; that,
\* an unknown token and an unavailable backend end in an error at the client.
Lookup(t) ==
  /\ tab[t].phase = "posted"
  /\ \/ /\ RowsFound /\ tab[t].lead \in live /\ tab[t].lead > aged
        /\ tab' = [tab EXCEPT ![t].phase = "found"]
        /\ live' = live
     \/ /\ tab' = [tab EXCEPT ![t].phase = "refused"]
        /\ live' = IF RowsFound /\ tab[t].lead <= aged THEN live \ {tab[t].lead} ELSE live
     \/ /\ tab' = [tab EXCEPT ![t].phase = "refused"]
        /\ live' = live
  /\ UNCHANGED <<store, expired, aged, left, issued, call>>

\* Mutant: the old row goes, the new one is not stored.
Exchange_NoRow(t) ==
  /\ tab[t].phase = "found"
  /\ \/ /\ issued < MaxTokens
        /\ issued' = issued + 1
        /\ live' = live \ {tab[t].lead}
        /\ tab' = [tab EXCEPT ![t].phase = "renewed", ![t].reply = issued + 1]
     \/ /\ live' \in {live, live \ {tab[t].lead}}
        /\ tab' = [tab EXCEPT ![t].phase = "refused"]
        /\ issued' = issued
  /\ UNCHANGED <<store, expired, aged, left, call>>

\* The rest of refresh(): the row is replaced by a new one, also when another
\* exchange replaced it since.  An error leaves it, a lost answer does not.
Exchange(t) ==
  /\ tab[t].phase = "found"
  /\ \/ /\ issued < MaxTokens
        /\ issued' = issued + 1
        /\ live' = (live \ {tab[t].lead}) \cup {issued + 1}
        /\ tab' = [tab EXCEPT ![t].phase = "renewed", ![t].reply = issued + 1]
     \/ /\ live' \in {live, live \ {tab[t].lead}}
        /\ tab' = [tab EXCEPT ![t].phase = "refused"]
        /\ issued' = issued
  /\ UNCHANGED <<store, expired, aged, left, call>>

\* The backend comes to the exchange of a page that is gone: the row is
\* deleted, and whoever might have stored its successor is not there.
Orphan(k) ==
  /\ RowsFound /\ k \in left \cap live
  /\ live' = live \ {k}
  /\ UNCHANGED <<store, expired, aged, left, issued, tab, call>>

-----------------------------------------------------------------------------
(* The tab handles an answer.                                              *)

\* The profile arrived: bootstrap() and adoptSession() both keep it, and a
\* sign-in goes on to the dashboard.
Profile(t, c) ==
  /\ c \in Profiles /\ call[t][c].st = "ok"
  /\ store' = [store EXCEPT !.profile = TRUE]
  /\ tab' = IF c = Bootstrap THEN [tab EXCEPT ![t].user = TRUE, ![t].boot = FALSE]
                             ELSE [tab EXCEPT ![t].user = TRUE, ![t].page = "app"]
  /\ call' = [call EXCEPT ![t][c] = Idle]
  /\ UNCHANGED <<live, expired, aged, left, issued>>

\* Mutant: bootstrap() leaves isLoading set when the profile cannot be read.
Reject_Booting(t, c, gone) ==
  /\ store' = IF gone \/ c = Bootstrap THEN Cleared ELSE store
  /\ tab' = IF c = Bootstrap THEN [tab EXCEPT ![t].user = FALSE] ELSE tab
  /\ call' = [call EXCEPT ![t][c] = Idle]
  /\ UNCHANGED <<live, expired, aged, left, issued>>

\* The caller sees the error.  bootstrap() takes any error for the end of the
\* session; everyone else only reports it.  "gone": the interceptor cleared.
Reject(t, c, gone) ==
  /\ store' = IF gone \/ c = Bootstrap THEN Cleared ELSE store
  /\ tab' = IF c = Bootstrap
            THEN [tab EXCEPT ![t].user = FALSE, ![t].boot = FALSE] ELSE tab
  /\ call' = [call EXCEPT ![t][c] = Idle]
  /\ UNCHANGED <<live, expired, aged, left, issued>>

\* Any call can fail for another reason than its token.
Fail(t, c) == call[t][c].st = "sent" /\ Reject(t, c, FALSE)

\* Mutant: no isRefreshing, every 401 starts its own exchange.
Denied_Alone(t, c) ==
  /\ call[t][c].st = "denied"
  /\ \/ call[t][c].retried /\ Reject(t, c, FALSE)
     \/ ~call[t][c].retried /\ store.refresh = 0 /\ Reject(t, c, TRUE)
     \/ /\ ~call[t][c].retried /\ store.refresh # 0
        /\ call' = [call EXCEPT ![t][c].st = "leading", ![t][c].retried = TRUE]
        /\ tab' = [tab EXCEPT ![t].phase = "posted", ![t].lead = store.refresh]
        /\ UNCHANGED <<store, live, expired, aged, left, issued>>

\* The 401 branch of the response interceptor.
Denied(t, c) ==
  /\ call[t][c].st = "denied"
  /\ \/ call[t][c].retried /\ Reject(t, c, FALSE)
     \/ ~call[t][c].retried /\ store.refresh = 0 /\ Reject(t, c, TRUE)
     \/ /\ ~call[t][c].retried /\ store.refresh # 0 /\ tab[t].phase # "none"
        /\ call' = [call EXCEPT ![t][c].st = "queued"]
        /\ UNCHANGED <<store, live, expired, aged, left, issued, tab>>
     \/ /\ ~call[t][c].retried /\ store.refresh # 0 /\ tab[t].phase = "none"
        /\ call' = [call EXCEPT ![t][c].st = "leading", ![t][c].retried = TRUE]
        /\ tab' = [tab EXCEPT ![t].phase = "posted", ![t].lead = store.refresh]
        /\ UNCHANGED <<store, live, expired, aged, left, issued>>

Ended(t) == [tab EXCEPT ![t].phase = "none", ![t].lead = 0, ![t].reply = 0]
Waiting(t, c) == call[t][c].st \in {"leading", "queued"}

\* setTokens, flushQueue(null, token), api(original): every waiting call goes
\* out again; the request interceptor gives it the token stored now.
Renewed(t) ==
  /\ tab[t].phase = "renewed"
  /\ store' = SetTokens(tab[t].reply)
  /\ tab' = Ended(t)
  /\ call' = [call EXCEPT ![t] = [c \in Request |->
                IF Waiting(t, c) THEN [@[c] EXCEPT !.st = "sent", !.tok = store'.access]
                                 ELSE @[c]]]
  /\ UNCHANGED <<live, expired, aged, left, issued>>

\* Mutant: the queue is rejected, the tokens stay.
Refused_Keeps(t) ==
  /\ tab[t].phase = "refused"
  /\ tab' = Ended(t)
  /\ call' = [call EXCEPT ![t] = [c \in Request |-> IF Waiting(t, c) THEN Idle ELSE @[c]]]
  /\ UNCHANGED <<store, live, expired, aged, left, issued>>

\* The exchange failed: the queue is rejected, the tokens are cleared and,
\* unless the tab is on /login already, /login?expired=1 is loaded.
Refused(t) ==
  /\ tab[t].phase = "refused"
  /\ store' = Cleared
  /\ tab' = IF tab[t].page = "app" THEN [tab EXCEPT ![t] = Fresh("login")]
            ELSE IF Waiting(t, Bootstrap)
            THEN [Ended(t) EXCEPT ![t].boot = FALSE, ![t].user = FALSE] ELSE Ended(t)
  /\ call' = [call EXCEPT ![t] = [c \in Request |->
                IF tab[t].page = "app" \/ Waiting(t, c) THEN Idle ELSE @[c]]]
  /\ UNCHANGED <<live, expired, aged, left, issued>>

-----------------------------------------------------------------------------
\* A call is answered and the answer handled; an exchange ends.
Settle(t, c) == Serve(t, c) \/ Denied(t, c) \/ Profile(t, c)
Renew(t) == Lookup(t) \/ Exchange(t) \/ Renewed(t) \/ Refused(t)

Next ==
  \/ \E t \in Tabs :
       \/ \E page \in Landings : Load(t, page)
       \/ Guard(t) \/ SignIn(t) \/ WrongPassword(t) \/ Logout(t)
       \/ \E c \in Calls : Start(t, c)
       \/ \E c \in Request : Fail(t, c) \/ Settle(t, c)
       \/ Renew(t)
  \/ Expire \/ Age \/ Cleanup
  \/ \E k \in left : Orphan(k)

Spec == Init /\ [][Next]_vars

\* The backend answers and the event loop of a tab handles what has arrived;
\* AuthGuard's effect runs.  People and the clock owe nothing.
Fairness ==
  \A t \in Tabs : /\ WF_vars(Renew(t)) /\ WF_vars(Guard(t))
                  /\ \A c \in Request : WF_vars(Settle(t, c))

FairSpec == Spec /\ Fairness

-----------------------------------------------------------------------------
(* Properties.                                                             *)

\* Every variable stays within its type.
TypeOK ==
  /\ store \in Store
  /\ live \subseteq Token /\ left \subseteq Maybe
  /\ expired \in Maybe /\ aged \in Maybe /\ issued \in Maybe
  /\ tab \in [Tabs -> Tab]
  /\ call \in [Tabs -> [Request -> Call]]

\* A call that waits for new tokens has an exchange to wait for, and exactly
\* one call of the tab runs it: no 401 starts a second exchange beside the
\* first, and flushing the queue forgets nobody.
WaitersHaveALeader ==
  \A t \in Tabs :
    /\ \A c \in Request : Waiting(t, c) => tab[t].phase # "none"
    /\ tab[t].phase # "none" => \E c \in Request : call[t][c].st = "leading"
    /\ \A c, d \in Request :
         call[t][c].st = "leading" /\ call[t][d].st = "leading" => c = d

\* A stored refresh token that the backend would not honour has one of three
\* reasons: it is past its date, its page was left while exchanging it, or a tab
\* holds the outcome of its exchange and is about to store it.  No race of two
\* tabs with one token, lost answer, failed exchange or new sign-in is a fourth.
\* (That the session survives is not said: the tab that loses a race clears it.)
DeadTokensAreAccounted ==
  store.refresh # 0 /\ store.refresh \notin live =>
    \/ store.refresh <= aged
    \/ store.refresh \in left
    \/ \E t \in Tabs : /\ tab[t].lead = store.refresh
                       /\ tab[t].phase \in {"renewed", "refused"}

\* Whatever the tabs did to localStorage meanwhile, a call that waited for an
\* exchange goes out again, and never with the very token that was refused.
RetriesChangeTheToken ==
  [][\A t \in Tabs : \A c \in Request :
       Renewed(t) /\ Waiting(t, c) =>
         call'[t][c].st = "sent" /\ call'[t][c].tok # call[t][c].tok]_vars

\* Someone who reloads for ever never sees an answer; everyone else does.
PagesStay == <>[][\A t \in Tabs : \A page \in Landings : ~Load(t, page)]_vars

\* No dead token stays stored and in use: calls do not go on meeting 401 with
\* it for ever, because the first to do so has it exchanged, found dead and
\* cleared, unless another tab stores new ones.
UsedWhileDead(k) ==
  /\ store.refresh = k /\ k \notin live
  /\ \E t \in Tabs, c \in Request : call[t][c].st = "denied" /\ ~call[t][c].retried

NoDeadTokenStays == PagesStay => \A k \in Token : <>[]~UsedWhileDead(k)

\* Every call settles, and AuthGuard's "Checking your session" screen with the
\* call of bootstrap(): waiting behind an exchange is never for ever.
Open(t, c) == call[t][c].st # "idle" \/ (c = Bootstrap /\ tab[t].boot)

CallsSettle ==
  PagesStay => \A t \in Watched : \A c \in Request : Open(t, c) ~> ~Open(t, c)
=============================================================================
