------------------------------- MODULE Browser ------------------------------
(***************************************************************************)
(* One tab of the frontend against the server: the user store, the router, *)
(* the cache of queries, the payment page, and every request between them. *)
(* A request is sent with the cookie of that moment, served in any order,  *)
(* and its answer is delivered in any order or lost; meanwhile the user    *)
(* goes on.  One request of a kind is in flight at a time.                 *)
(***************************************************************************)
EXTENDS Integers, FiniteSets

CONSTANTS
  Account,          \* the accounts that sign in and out in this tab
  Payer,            \* the account the payment of the payment page belongs to
  NoUser, NoToken,
  MaxTokens,        \* bound on the sessions that are opened
  MaxClicks,        \* bound on what the user does
  MaxTrouble,       \* bound on network errors, changes by others and further page loads
  MaxInFlight,      \* bound on the requests the user starts at the same time
  ReconcileWindow   \* polls in the minute of targeted reconciliation

Status == {"active", "paused", "blocked"}
\* Changes by others, activations, the credit.
Version == 0..(MaxTrouble + MaxClicks + 1)
Token == [owner: Account, n: 1..MaxTokens]
User == [owner: Account, version: Version, status: Status]

\* The payer may have a session from before.
ASSUME BrowserAssumption ==
  /\ Payer \in Account
  /\ MaxTokens \in Nat \ {0} /\ MaxClicks \in Nat /\ MaxTrouble \in Nat
  /\ MaxInFlight \in Nat /\ ReconcileWindow \in Nat
  /\ NoUser \notin User /\ NoToken \notin Token

VARIABLES
  account,    \* server: the row of each account, its version counts the changes
  sessions,   \* server: the tokens that are valid
  issued,     \* server: how many tokens there were
  payment,    \* server: the payment and the version of the payer's row it made
  cookie,     \* browser: the session cookie
  store,      \* browser: useUserStore
  page,       \* browser: the route
  cache,      \* browser: the QueryClient
  result,     \* browser: PaymentResultPage and its query
  net,        \* the request of each kind that is in flight
  budget,     \* what the bounds count
  crossed     \* history: a request of an older session outlived a sign-in or a sign-out

server == <<account, sessions, issued, payment>>
vars == <<account, sessions, issued, payment, cookie, store, page, cache, result, net,
          budget, crossed>>

\* The queries of an account are kept under keys that do not name it: the day's charge
\* stands for the VPN access too, which is observed at the same time.
Key == {"daily-charge"}
Mutation == {"activate", "password", "refresh"}
Kind == {"initialize", "login", "logout", "poll"} \cup Mutation \cup Key

Idle == [phase |-> "idle"]
Sent(t, a) == [phase |-> "sent", cookie |-> t, account |-> a]
\* What comes back: the body, and the cookie it sets, if any (NoToken clears it).
Answer(ok, user, paid, setCookie) ==
  [phase |-> "answered", ok |-> ok, user |-> user, paid |-> paid, setCookie |-> setCookie]
Success(user) == Answer(TRUE, user, "none", {})
\* An ApiError of the server; a lost connection gives one as well (status 0).
Failure == Answer(FALSE, NoUser, "none", {})
\* get_session_user refuses the token: 401, and the cookie is cleared.
Unauthenticated == Answer(FALSE, NoUser, "none", {NoToken})

Request ==
  [phase: {"idle"}]
  \cup [phase: {"sent"}, cookie: Token \cup {NoToken}, account: Account \cup {NoUser}]
  \cup [phase: {"answered"}, ok: BOOLEAN, user: User \cup {NoUser},
        paid: {"none", "pending", "succeeded"}, setCookie: SUBSET (Token \cup {NoToken})]

InFlight(k) == net[k].phase # "idle"
Quiet == \A k \in Kind : ~InFlight(k)
MayStart == Cardinality({k \in Kind \ Key : InFlight(k)}) < MaxInFlight

NoEntry == [data |-> NoUser, fresh |-> FALSE, failed |-> FALSE]
NoResult == [data |-> "none", failed |-> FALSE, polls |-> 0, refreshed |-> FALSE]
SignedOut == [status |-> "unauthenticated", user |-> NoUser]
SignedIn(user) == [status |-> "authenticated", user |-> user]

-----------------------------------------------------------------------------
(* The browser: rendering and the cache. *)

\* useQuery of a mounted component, enabled for an active account on the overview.
Observed(st, pg) ==
  st.status = "authenticated" /\ pg = "overview" /\ st.user.status = "active"

\* The routes: without a user there is only the login page, with one there is none.
Route(st, pg) ==
  IF st.status = "unauthenticated" THEN "login"
  ELSE IF st.status = "authenticated" /\ pg = "login" THEN "overview" ELSE pg

\* A mistake in the place of the next: only a change of the route begins an observation.
BeginsOnNewPage(st, pg, ch, k) ==
  /\ Observed(st, pg)
  /\ pg # page
  /\ ch[k].data = NoUser \/ ~ch[k].fresh

\* A query is fetched when a component begins to observe it and it is not fresh.
Begins(st, pg, ch, k) ==
  /\ Observed(st, pg)
  /\ ~Observed(store, page)
  /\ ch[k].data = NoUser \/ ~ch[k].fresh

\* The refresh of the payment page has just failed: its mark is taken back.
RefreshFailed == InFlight("refresh") /\ net'["refresh"] = Idle /\ ~net["refresh"].ok

\* The new state of the tab: what is rendered, what is fetched because of that.
Render(st, pg, ch, nt) ==
  LET to == Route(st, pg) IN
  /\ store' = st
  /\ page' = to
  /\ cache' = ch
  /\ net' = [k \in Kind |->
       IF k \in Key /\ nt[k].phase = "idle" /\ Begins(st, to, ch, k)
         THEN Sent(cookie', NoUser) ELSE nt[k]]
  /\ result' = IF to # "payment" THEN NoResult
               ELSE [result EXCEPT !.refreshed = @ /\ ~RefreshFailed]

\* invalidateQueries: stale, and fetched anew where it is observed; a fetch that
\* already runs is replaced unless it is the first one of its key.
Invalidated(ch, k) == [ch EXCEPT ![k].fresh = FALSE]
Refetched(nt, k) ==
  IF Observed(store, page) /\ (nt[k].phase = "idle" \/ cache[k].data # NoUser)
    THEN [nt EXCEPT ![k] = Sent(cookie', NoUser)] ELSE nt

\* The answer of k has arrived: its Set-Cookie counts whatever the program does with it.
Arrives(k) ==
  /\ net[k].phase = "answered"
  /\ cookie' = IF net[k].setCookie = {} THEN cookie ELSE CHOOSE t \in net[k].setCookie : TRUE
Settled(k) == [net EXCEPT ![k] = Idle]

-----------------------------------------------------------------------------
(* The server, as the requests of the tab see it. *)

Init ==
  /\ account \in [Account -> [version: {0}, status: {"active", "paused"}]]
  /\ \A a \in Account \ {Payer} : account[a].status = "active"
  /\ issued = 1
  /\ sessions = {[owner |-> Payer, n |-> 1]}
  /\ cookie \in sessions \cup {NoToken}
  /\ payment = [status |-> "pending", version |-> 0]
  /\ store = [status |-> "checking", user |-> NoUser]
  /\ page \in {"overview", "payment"}
  /\ cache = [k \in Key |-> NoEntry]
  /\ result = NoResult
  /\ net = [[k \in Kind |-> Idle] EXCEPT !["initialize"] = Sent(cookie, NoUser)]
  /\ budget = [clicks |-> 0, trouble |-> 0]
  /\ crossed = FALSE

Read(a) == [owner |-> a, version |-> account[a].version, status |-> account[a].status]
Changed(a, s) == [account EXCEPT ![a] = [version |-> @.version + 1, status |-> s]]

Troubles == /\ budget.trouble < MaxTrouble
            /\ budget' = [budget EXCEPT !.trouble = @ + 1]

Answers(k, ans) ==
  /\ net[k].phase = "sent"
  /\ net' = [net EXCEPT ![k] = ans]
  /\ UNCHANGED <<cookie, store, page, cache, result, budget, crossed>>

Fresh(a) == [owner |-> a, n |-> issued + 1]
Issues(a, t, others) ==
  /\ issued < MaxTokens
  /\ issued' = issued + 1
  /\ sessions' = others \cup {t}

ServeLogin ==
  LET a == net["login"].account
      t == Fresh(a) IN
  \/ /\ net["login"].phase = "sent"
     /\ Issues(a, t, sessions)
     /\ Answers("login", Answer(TRUE, Read(a), "none", {t}))
     /\ UNCHANGED <<account, payment>>
  \/ Answers("login", Failure) /\ UNCHANGED server

ServeLogout ==
  /\ Answers("logout", Answer(TRUE, NoUser, "none", {NoToken}))
  /\ sessions' = sessions \ {net["logout"].cookie}
  /\ UNCHANGED <<account, issued, payment>>

\* A request of kind k that needs a session, and has one.
Valid(k) == net[k].phase = "sent" /\ net[k].cookie \in sessions

Refuse(k) ==
  /\ k \notin {"login", "logout"}
  /\ net[k].phase = "sent" /\ net[k].cookie \notin sessions
  /\ Answers(k, Unauthenticated)
  /\ UNCHANGED server

\* The reads: the user for the store, the data of a query.
ServeRead(k) ==
  /\ k \in {"initialize", "refresh"} \cup Key
  /\ Valid(k)
  /\ Answers(k, Success(Read(net[k].cookie.owner)))
  /\ UNCHANGED server

ServeActivate ==
  /\ Valid("activate")
  /\ LET a == net["activate"].cookie.owner IN
     \/ /\ account[a].status = "paused"
        /\ account' = Changed(a, "active")
        /\ Answers("activate", Success([Read(a) EXCEPT !.version = @ + 1, !.status = "active"]))
        /\ UNCHANGED <<sessions, issued, payment>>
     \/ Answers("activate", Failure) /\ UNCHANGED server

\* All sessions of the user are replaced by one, whose token the answer sets.
ServePassword ==
  /\ Valid("password")
  /\ LET a == net["password"].cookie.owner
         t == Fresh(a) IN
     \/ /\ Issues(a, t, {s \in sessions : s.owner # a})
        /\ Answers("password", Answer(TRUE, Read(a), "none", {t}))
        /\ UNCHANGED <<account, payment>>
     \/ Answers("password", Failure) /\ UNCHANGED server

\* The balance is credited once; a block by billing is lifted.
Credit ==
  /\ payment.status = "transferred"
  /\ account' = Changed(Payer, IF account[Payer].status = "blocked" THEN "active" ELSE account[Payer].status)
  /\ payment' = [status |-> "succeeded", version |-> account[Payer].version + 1]

\* Within the window the server asks YooMoney first; a foreign payment is not found.
ServePoll ==
  /\ Valid("poll")
  /\ IF net["poll"].cookie.owner # Payer THEN Answers("poll", Failure) /\ UNCHANGED server
     ELSE \/ /\ net["poll"].account = Payer      \* a reconciliation
             /\ Credit
             /\ Answers("poll", Answer(TRUE, NoUser, "succeeded", {}))
             /\ UNCHANGED <<sessions, issued>>
          \/ /\ Answers("poll", Answer(TRUE, NoUser,
                  IF payment.status = "succeeded" THEN "succeeded" ELSE "pending", {}))
             /\ UNCHANGED server

Serve ==
  \/ ServeLogin \/ ServeLogout \/ ServeActivate \/ ServePassword \/ ServePoll
  \/ \E k \in Kind : Refuse(k) \/ ServeRead(k)

\* The request or its answer does not arrive: ky gives up after its timeout.
Lose(k) ==
  /\ InFlight(k) /\ net[k] # Failure
  /\ Troubles
  /\ net' = [net EXCEPT ![k] = Failure]
  /\ UNCHANGED <<account, sessions, issued, payment, cookie, store, page, cache, result, crossed>>

\* Others: billing, administrators, a transfer, its settlement by webhook or scheduler,
\* a password changed on another device.
tab == <<cookie, store, page, cache, result, net, crossed>>
Elsewhere(a) ==
  /\ Troubles
  /\ \/ /\ \E s \in Status : account' = Changed(a, s)
        /\ UNCHANGED <<sessions, issued, payment>>
     \/ /\ sessions' = {s \in sessions : s.owner # a} /\ sessions' # sessions
        /\ UNCHANGED <<account, issued, payment>>
  /\ UNCHANGED tab
Transfer ==
  /\ payment.status = "pending"
  /\ payment' = [payment EXCEPT !.status = "transferred"]
  /\ UNCHANGED <<account, sessions, issued, budget>> /\ UNCHANGED tab
Settle == Credit /\ UNCHANGED <<sessions, issued, budget>> /\ UNCHANGED tab

-----------------------------------------------------------------------------
(* The browser: the requests and what follows from their answers. *)

Clicks == /\ budget.clicks < MaxClicks
          /\ budget' = [budget EXCEPT !.clicks = @ + 1]
\* A request of the user, sent with the present cookie.
Sends(k, a) ==
  /\ ~InFlight(k) /\ MayStart /\ Clicks
  /\ net' = [net EXCEPT ![k] = Sent(cookie, a)]
  /\ UNCHANGED <<account, sessions, issued, payment, cookie, store, page, cache, result, crossed>>

\* The program starts anew: nothing of the tab survives but the cookie.
Load(path) ==
  /\ Troubles
  /\ store' = [status |-> "checking", user |-> NoUser]
  /\ page' = path
  /\ cache' = [k \in Key |-> NoEntry]
  /\ result' = NoResult
  /\ net' = [[k \in Kind |-> Idle] EXCEPT !["initialize"] = Sent(cookie, NoUser)]
  /\ crossed' = FALSE
  /\ UNCHANGED <<server, cookie>>

Others == UNCHANGED <<server, budget>>
\* The session of the tab changes while a request of an older one is in flight.
Crosses == crossed' = (crossed \/ \E k \in Mutation : InFlight(k))

Initialized ==
  /\ Arrives("initialize")
  /\ Render(IF net["initialize"].ok THEN SignedIn(net["initialize"].user) ELSE SignedOut,
            page, cache, Settled("initialize"))
  /\ UNCHANGED crossed /\ Others

\* A mistake in the place of the next: the form is there before the session was checked.
SubmitLoginAtOnce(a) == store.status # "authenticated" /\ Sends("login", a)

SubmitLogin(a) == store.status = "unauthenticated" /\ Sends("login", a)
\* An error is shown by the form and changes nothing.
LoggedIn ==
  /\ Arrives("login")
  /\ Render(IF net["login"].ok THEN SignedIn(net["login"].user) ELSE store,
            page, cache, Settled("login"))
  /\ IF net["login"].ok THEN Crosses ELSE UNCHANGED crossed
  /\ Others

Logout == store.status = "authenticated" /\ Sends("logout", NoUser)

\* A mistake in the place of the next: without finally, an error ends before the sign-out.
LoggedOutIfAnswered ==
  /\ Arrives("logout")
  /\ Render(IF net["logout"].ok THEN SignedOut ELSE store, page, cache, Settled("logout"))
  /\ Crosses /\ Others

\* finally: signed out also when the request failed.
LoggedOut ==
  /\ Arrives("logout")
  /\ Render(SignedOut, page, cache, Settled("logout"))
  /\ Crosses /\ Others

\* setUser asks for nothing: the answer signs in whoever it names.
SetUser(k, ch, nt) ==
  Render(IF net[k].ok THEN SignedIn(net[k].user) ELSE store, page, ch, nt)

Activate ==
  /\ store.status = "authenticated" /\ page = "overview" /\ store.user.status = "paused"
  /\ Sends("activate", NoUser)
Activated ==
  /\ Arrives("activate")
  /\ IF net["activate"].ok
       THEN SetUser("activate", Invalidated(cache, "daily-charge"),
                    Refetched(Settled("activate"), "daily-charge"))
       ELSE SetUser("activate", cache, Settled("activate"))
  /\ UNCHANGED crossed /\ Others

ChangePassword == store.status = "authenticated" /\ Sends("password", NoUser)

\* A mistake in the place of the next: the answer is not asked whether it is an error.
PasswordAnswered ==
  /\ Arrives("password")
  /\ Render(SignedIn(net["password"].user), page, cache, Settled("password"))
  /\ UNCHANGED crossed /\ Others

PasswordChanged ==
  /\ Arrives("password")
  /\ SetUser("password", cache, Settled("password"))
  /\ UNCHANGED crossed /\ Others

\* The answer of a query: its data is fresh; an error keeps the data there was.
Fetched(k) ==
  /\ k \in Key /\ Arrives(k)
  /\ Render(store, page,
       [cache EXCEPT ![k] = IF net[k].ok THEN [data |-> net[k].user, fresh |-> TRUE, failed |-> FALSE]
                            ELSE [@ EXCEPT !.failed = TRUE]],
       Settled(k))
  /\ UNCHANGED crossed /\ Others

\* staleTime has passed.
Expire(k) ==
  /\ cache[k].fresh
  /\ cache' = [cache EXCEPT ![k].fresh = FALSE]
  /\ UNCHANGED <<server, cookie, store, page, result, net, budget, crossed>>
\* The window gets the focus, or the user retries: what is observed and stale is fetched.
Focus(k) ==
  /\ Observed(store, page) /\ ~cache[k].fresh /\ ~InFlight(k)
  /\ net' = [net EXCEPT ![k] = Sent(cookie, NoUser)]
  /\ UNCHANGED <<server, cookie, store, page, cache, result, budget, crossed>>

\* The button of the payment page.
GoHome ==
  /\ store.status = "authenticated" /\ page = "payment"
  /\ UNCHANGED cookie
  /\ Render(store, "overview", cache, net)
  /\ Clicks /\ UNCHANGED <<server, crossed>>

\* A mistake in the place of the next: an error ends the polling.
PollingUntilError == ~result.failed /\ result.data # "succeeded"

\* The query of the payment page: at once, and every ten seconds while it is pending.
\* The account of the request says whether the window of the reconciliation is open.
Polling ==
  \/ result.data = "none" /\ ~result.failed
  \/ result.data = "pending"
Poll ==
  /\ store.status = "authenticated" /\ page = "payment"
  /\ ~InFlight("poll") /\ Polling
  /\ net' = [net EXCEPT !["poll"] =
               Sent(cookie, IF result.polls < ReconcileWindow THEN Payer ELSE NoUser)]
  /\ result' = [result EXCEPT !.polls = IF @ < ReconcileWindow THEN @ + 1 ELSE @]
  /\ UNCHANGED <<server, cookie, store, page, cache, budget, crossed>>

\* A mistake in the place of the next: the user is read again after the first answer.
PolledOnce ==
  /\ Arrives("poll")
  /\ LET ans == net["poll"]
         here == page = "payment"
         refresh == here /\ ans.ok /\ ~result.refreshed IN
     /\ net' = IF refresh THEN [Settled("poll") EXCEPT !["refresh"] = Sent(cookie', NoUser)]
               ELSE Settled("poll")
     /\ result' = IF ~here THEN result
                  ELSE IF ans.ok THEN [result EXCEPT !.data = ans.paid, !.failed = FALSE,
                                                     !.refreshed = @ \/ refresh]
                  ELSE [result EXCEPT !.failed = TRUE]
  /\ UNCHANGED <<store, page, cache, crossed>> /\ Others

\* The effect of the page: the user is read again once the payment has succeeded.
Polled ==
  /\ Arrives("poll")
  /\ LET ans == net["poll"]
         here == page = "payment"
         refresh == here /\ ans.ok /\ ans.paid = "succeeded" /\ ~result.refreshed IN
     /\ net' = IF refresh THEN [Settled("poll") EXCEPT !["refresh"] = Sent(cookie', NoUser)]
               ELSE Settled("poll")
     /\ result' = IF ~here THEN result
                  ELSE IF ans.ok THEN [result EXCEPT !.data = ans.paid, !.failed = FALSE,
                                                     !.refreshed = @ \/ refresh]
                  ELSE [result EXCEPT !.failed = TRUE]
  /\ UNCHANGED <<store, page, cache, crossed>> /\ Others
\* A failure only takes the mark back: the effect runs again when the data changes.
Refreshed ==
  /\ Arrives("refresh")
  /\ SetUser("refresh", cache, Settled("refresh"))
  /\ UNCHANGED crossed /\ Others

Deliver ==
  \/ Initialized \/ LoggedIn \/ LoggedOut \/ Activated \/ PasswordChanged \/ Polled \/ Refreshed
  \/ \E k \in Key : Fetched(k)

Next ==
  \/ Serve \/ Deliver \/ Transfer \/ Settle
  \/ \E a \in Account : Elsewhere(a) \/ SubmitLogin(a)
  \/ Logout \/ Activate \/ ChangePassword \/ GoHome \/ Poll
  \/ \E k \in Key : Expire(k) \/ Focus(k)
  \/ \E k \in Kind : Lose(k)
  \/ \E path \in {"overview", "payment"} : Load(path)

Spec == Init /\ [][Next]_vars

(***************************************************************************)
(* The server answers or ky times out; what has arrived is processed; the  *)
(* interval of the payment page runs; the backend settles a transfer.      *)
(***************************************************************************)
FairSpec ==
  /\ Spec
  /\ WF_vars(ServeLogin) /\ WF_vars(ServeLogout) /\ WF_vars(ServeActivate)
  /\ WF_vars(ServePassword) /\ WF_vars(ServePoll)
  /\ \A k \in Kind : WF_vars(Refuse(k)) /\ WF_vars(ServeRead(k))
  /\ WF_vars(Initialized) /\ WF_vars(LoggedIn) /\ WF_vars(LoggedOut) /\ WF_vars(Activated)
  /\ WF_vars(PasswordChanged) /\ WF_vars(Polled) /\ WF_vars(Refreshed)
  /\ \A k \in Key : WF_vars(Fetched(k))
  /\ WF_vars(Poll) /\ WF_vars(Settle)

-----------------------------------------------------------------------------
(* Properties. *)

\* Types; a user is in the store exactly while the tab is signed in, and the login page
\* is shown exactly while it is signed out (pages/index.tsx).
TypeOK ==
  /\ account \in [Account -> [version: Version, status: Status]]
  /\ sessions \subseteq Token /\ issued \in 0..MaxTokens
  /\ payment \in [status: {"pending", "transferred", "succeeded"}, version: Version]
  /\ cookie \in Token \cup {NoToken}
  /\ store \in [status: {"checking", "unauthenticated"}, user: {NoUser}]
              \cup [status: {"authenticated"}, user: User]
  /\ page \in {"overview", "payment", "login"}
  /\ (page = "login") = (store.status = "unauthenticated")
  /\ cache \in [Key -> [data: User \cup {NoUser}, fresh: BOOLEAN, failed: BOOLEAN]]
  /\ result \in [data: {"none", "pending", "succeeded"}, failed: BOOLEAN,
                 polls: 0..ReconcileWindow, refreshed: BOOLEAN]
  /\ net \in [Kind -> Request] /\ crossed \in BOOLEAN
  /\ budget \in [clicks: 0..MaxClicks, trouble: 0..MaxTrouble]

\* The panel of an active account does not show its skeleton for ever: what is observed
\* has data, or has failed with a button to retry, or is being fetched.
NoIdleSkeleton ==
  \A k \in Key : Observed(store, page) =>
    cache[k].data # NoUser \/ cache[k].failed \/ InFlight(k)

\* When nothing is in flight, whoever is shown as signed in is the owner of the session
\* the next request will use - unless a request of an older session came in late.
SignedInAsShown ==
  Quiet /\ ~crossed /\ store.status = "authenticated" /\ cookie \in sessions
    => store.user.owner = cookie.owner

\* Who signs out is signed out, although the request may fail.
LogoutTakesEffect == InFlight("logout") ~> store.status # "authenticated"

\* A payment page that stays open learns of the credit although polls fail.
WaitingFor(a) ==
  /\ store.status = "authenticated" /\ page = "payment" /\ result.data = "pending"
  /\ cookie \in sessions /\ cookie.owner = a
PaymentSeen ==
  WaitingFor(Payer) /\ payment.status # "pending" ~> result.data = "succeeded" \/ ~WaitingFor(Payer)

\* Once the payment page has seen the success, the balance of the store includes it,
\* unless reading the user failed or the user has left the page.
SuccessReachesStore ==
  result.data = "succeeded" ~>
    \/ store.status = "authenticated" /\ store.user.owner = Payer /\ store.user.version >= payment.version
    \/ ~result.refreshed
    \/ store.status # "authenticated" \/ store.user.owner # Payer \/ page # "payment"
=============================================================================
