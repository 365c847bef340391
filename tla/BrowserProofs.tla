---------------------------- MODULE BrowserProofs ---------------------------
(***************************************************************************)
(* Theorems of Browser, for any accounts and any bounds: its states are    *)
(* well typed, the panel of an active account never shows its skeleton for *)
(* nothing, and whoever is shown as signed in owns the session the next    *)
(* request will use, unless a request of an older session came in late.    *)
(***************************************************************************)
EXTENDS Browser, TLAPS

-----------------------------------------------------------------------------
(* The invariant. *)

\* Each change of a row is paid for by a click, by trouble or by the payment; the
\* activation that is under way has its click already.
ChangesCounted ==
  \A a \in Account :
    account[a].version + (IF net["activate"].phase = "sent" THEN 1 ELSE 0)
      <= budget.trouble + budget.clicks + (IF payment.status = "succeeded" THEN 1 ELSE 0)

ServerSound ==
  /\ account \in [Account -> [version: Version, status: Status]]
  /\ sessions \subseteq Token /\ issued \in 1..MaxTokens
  /\ payment \in [status: {"pending", "transferred", "succeeded"}, version: Version]
  /\ budget \in [clicks: 0..MaxClicks, trouble: 0..MaxTrouble]

StoreState ==
  [status: {"checking", "unauthenticated"}, user: {NoUser}]
  \cup [status: {"authenticated"}, user: User]
CacheState == [Key -> [data: User \cup {NoUser}, fresh: BOOLEAN, failed: BOOLEAN]]
ResultState == [data: {"none", "pending", "succeeded"}, failed: BOOLEAN,
                polls: 0..ReconcileWindow, refreshed: BOOLEAN]

TabSound ==
  /\ cookie \in Token \cup {NoToken}
  /\ store \in StoreState
  /\ page \in {"overview", "payment", "login"}
  /\ (page = "login") = (store.status = "unauthenticated")
  /\ cache \in CacheState /\ result \in ResultState
  /\ net \in [Kind -> Request] /\ crossed \in BOOLEAN

\* What is in flight: a sign-in names an account, an answer names a user, and the token
\* an answer sets belongs to the user it names.
SetsToken(r) == r.ok /\ \E t \in Token : r.setCookie = {t} /\ r.user \in User /\ t.owner = r.user.owner
RequestSound(k, r) ==
  /\ r.phase = "sent" /\ k = "login" => r.account \in Account
  /\ r.phase = "answered" =>
       /\ r.ok /\ k \notin {"logout", "poll"} => r.user \in User
       /\ \/ r.setCookie = {} /\ ~(k = "login" /\ r.ok)
          \/ r.setCookie = {NoToken} /\ k # "login" /\ (r.ok => k = "logout")
          \/ k \in {"login", "password"} /\ SetsToken(r)
NetSound == \A k \in Kind : RequestSound(k, net[k])

\* While the session is checked nothing else is in flight, and the cookie is the one the
\* check was sent with.
CheckSound ==
  /\ InFlight("initialize") => store.status = "checking"
  /\ store.status = "checking" =>
       /\ \A k \in Kind \ {"initialize"} : ~InFlight(k)
       /\ net["initialize"].phase = "sent" => net["initialize"].cookie = cookie
       /\ net["initialize"].phase = "answered" /\ net["initialize"].ok =>
            cookie \in Token /\ net["initialize"].user.owner = cookie.owner

\* A request of the account that is shown, and an answer to it.
RequestOf(r, a) ==
  /\ r.phase = "sent" /\ r.cookie \in Token => r.cookie.owner = a
  /\ r.phase = "answered" /\ r.ok => r.user.owner = a
SessionsFollow ==
  ~crossed =>
    /\ store.status = "authenticated" /\ cookie \in Token => store.user.owner = cookie.owner
    /\ \A k \in Mutation : InFlight(k) =>
         store.status = "authenticated" /\ RequestOf(net[k], store.user.owner)

Inv == ServerSound /\ TabSound /\ ChangesCounted /\ NetSound /\ CheckSound /\ SessionsFollow
       /\ NoIdleSkeleton

\* The parts that concern the tab alone.
TabInv == TabSound /\ NetSound /\ CheckSound /\ SessionsFollow /\ NoIdleSkeleton

-----------------------------------------------------------------------------
(* Requests. *)

LEMMA Kinds ==
  /\ Mutation \subseteq Kind /\ Key \subseteq Kind /\ Mutation \cap Key = {}
  /\ \A k \in {"initialize", "login", "logout", "poll"} : k \in Kind /\ k \notin Key /\ k \notin Mutation
  /\ \A k \in Kind \ {"initialize", "login", "logout", "poll"} : k \in Mutation \/ k \in Key
BY DEF Kind, Mutation, Key

LEMMA RequestCases ==
  ASSUME NEW r \in Request
  PROVE  /\ r.phase \in {"idle", "sent", "answered"}
         /\ r.phase = "idle" => r = Idle
         /\ r.phase = "sent" => r.cookie \in Token \cup {NoToken} /\ r.account \in Account \cup {NoUser}
         /\ r.phase = "answered" =>
              /\ r.ok \in BOOLEAN /\ r.user \in User \cup {NoUser}
              /\ r.paid \in {"none", "pending", "succeeded"}
              /\ r.setCookie \in SUBSET (Token \cup {NoToken})
BY DEF Request, Idle

LEMMA RequestTypes ==
  /\ Idle \in Request /\ Idle.phase = "idle"
  /\ \A t \in Token \cup {NoToken}, a \in Account \cup {NoUser} :
       /\ Sent(t, a) \in Request /\ Sent(t, a).phase = "sent"
       /\ Sent(t, a).cookie = t /\ Sent(t, a).account = a
<1>1. Idle \in Request /\ Idle.phase = "idle"
  BY DEF Idle, Request
<1>2. ASSUME NEW t \in Token \cup {NoToken}, NEW a \in Account \cup {NoUser}
      PROVE  /\ Sent(t, a) \in Request /\ Sent(t, a).phase = "sent"
             /\ Sent(t, a).cookie = t /\ Sent(t, a).account = a
  BY DEF Sent, Request
<1> QED
  BY <1>1, <1>2

LEMMA AnswerType ==
  ASSUME NEW ok \in BOOLEAN, NEW u \in User \cup {NoUser},
         NEW p \in {"none", "pending", "succeeded"}, NEW s \in SUBSET (Token \cup {NoToken})
  PROVE  /\ Answer(ok, u, p, s) \in Request /\ Answer(ok, u, p, s).phase = "answered"
         /\ Answer(ok, u, p, s).ok = ok /\ Answer(ok, u, p, s).user = u
         /\ Answer(ok, u, p, s).paid = p /\ Answer(ok, u, p, s).setCookie = s
BY DEF Answer, Request

\* The answers without a user and without a token of their own.
LEMMA PlainAnswers ==
  /\ \A r \in {Failure, Unauthenticated} : r \in Request /\ r.phase = "answered" /\ ~r.ok
  /\ \A k \in Kind : RequestSound(k, Failure) /\ (k # "login" => RequestSound(k, Unauthenticated))
<1>1. /\ Failure \in Request /\ Failure.phase = "answered" /\ Failure.ok = FALSE
      /\ Failure.setCookie = {}
  BY DEF Failure, Answer, Request
<1>2. /\ Unauthenticated \in Request /\ Unauthenticated.phase = "answered"
      /\ Unauthenticated.ok = FALSE /\ Unauthenticated.setCookie = {NoToken}
  BY DEF Unauthenticated, Answer, Request
<1> QED
  BY <1>1, <1>2 DEF RequestSound

\* What is sent is sound when a sign-in names its account, whoever it is of.
LEMMA SentIsSound ==
  ASSUME NEW k \in Kind, NEW t \in Token \cup {NoToken}, NEW a \in Account \cup {NoUser},
         k = "login" => a \in Account
  PROVE  RequestSound(k, Sent(t, a)) /\ RequestSound(k, Idle)
BY RequestTypes DEF RequestSound

\* What an answer does to the cookie.
LEMMA CookieSet ==
  ASSUME TabSound, NetSound, NEW k \in Kind, Arrives(k)
  PROVE  /\ cookie' \in Token \cup {NoToken}
         /\ \/ cookie' = cookie /\ net[k].setCookie = {}
            \/ cookie' = NoToken /\ k # "login" /\ (net[k].ok => k = "logout")
            \/ /\ k \in {"login", "password"} /\ net[k].ok /\ cookie' \in Token
               /\ net[k].user \in User /\ cookie'.owner = net[k].user.owner
<1>1. RequestSound(k, net[k]) /\ net[k].phase = "answered"
  BY DEF NetSound, Arrives
<1>2. CASE net[k].setCookie = {}
  BY <1>2 DEF Arrives, TabSound
<1>3. CASE net[k].setCookie = {NoToken} /\ k # "login" /\ (net[k].ok => k = "logout")
  BY <1>3 DEF Arrives
<1>4. CASE k \in {"login", "password"} /\ SetsToken(net[k])
  <2>1. PICK t \in Token : /\ net[k].ok /\ net[k].setCookie = {t} /\ net[k].user \in User
                           /\ t.owner = net[k].user.owner
    BY <1>4 DEF SetsToken
  <2>2. cookie' = t
    BY <2>1 DEF Arrives
  <2> QED
    BY <1>4, <2>1, <2>2
<1> QED
  BY <1>1, <1>2, <1>3, <1>4 DEF RequestSound

-----------------------------------------------------------------------------
(* The steps of the tab. *)

\* A request is answered, or given up: nothing else of the tab moves.
LEMMA AnsweredKeepsTab ==
  ASSUME TabInv, NEW k \in Kind, InFlight(k), NEW r \in Request, r.phase = "answered",
         RequestSound(k, r),
         r.ok /\ k \in {"initialize"} \cup Mutation =>
           /\ net[k].phase = "sent" /\ net[k].cookie \in Token
           /\ r.user.owner = net[k].cookie.owner,
         net' = [net EXCEPT ![k] = r],
         UNCHANGED <<cookie, store, page, cache, result, crossed>>
  PROVE  TabInv'
<1>1. net \in [Kind -> Request]
  BY DEF TabInv, TabSound
<1>2. /\ net' \in [Kind -> Request] /\ net'[k] = r
      /\ \A j \in Kind : j # k => net'[j] = net[j]
  BY <1>1
<1>3. \A j \in Kind : net'[j].phase # "idle" <=> net[j].phase # "idle"
  BY <1>2 DEF InFlight
<1>4. TabSound'
  BY <1>2 DEF TabInv, TabSound
<1>5. NetSound'
  BY <1>2 DEF TabInv, NetSound
<1>6. CheckSound'
  <2>1. ASSUME store.status = "checking"
        PROVE  \A j \in Kind \ {"initialize"} : net'[j].phase = "idle"
    BY <1>3, <2>1 DEF TabInv, CheckSound, InFlight
  <2>2. ASSUME store.status = "checking", net'["initialize"].phase = "sent"
        PROVE  net'["initialize"].cookie = cookie'
    BY <1>2, <2>2, Kinds DEF TabInv, CheckSound
  <2>3. ASSUME store.status = "checking", net'["initialize"].phase = "answered",
               net'["initialize"].ok
        PROVE  cookie' \in Token /\ net'["initialize"].user.owner = cookie'.owner
    BY <1>2, <2>3, Kinds DEF TabInv, CheckSound
  <2>4. net'["initialize"].phase # "idle" => store.status = "checking"
    BY <1>3, Kinds DEF TabInv, CheckSound, InFlight
  <2> QED
    BY <2>1, <2>2, <2>3, <2>4 DEF CheckSound, InFlight
<1>7. SessionsFollow'
  <2> SUFFICES ASSUME ~crossed
               PROVE  /\ store.status = "authenticated" /\ cookie \in Token
                           => store.user.owner = cookie.owner
                      /\ \A j \in Mutation : net'[j].phase # "idle" =>
                           store.status = "authenticated" /\ RequestOf(net'[j], store.user.owner)
    BY DEF SessionsFollow, InFlight
  <2>1. store.status = "authenticated" /\ cookie \in Token => store.user.owner = cookie.owner
    BY DEF TabInv, SessionsFollow
  <2>2. ASSUME NEW j \in Mutation, net'[j].phase # "idle"
        PROVE  store.status = "authenticated" /\ RequestOf(net'[j], store.user.owner)
    <3>1. store.status = "authenticated" /\ RequestOf(net[j], store.user.owner)
      BY <1>3, <2>2, Kinds DEF TabInv, SessionsFollow, InFlight
    <3>2. CASE j = k
      BY <1>2, <3>1, <3>2 DEF RequestOf
    <3>3. CASE j # k
      BY <1>2, <3>1, <3>3, Kinds
    <3> QED
      BY <3>2, <3>3
  <2> QED
    BY <2>1, <2>2
<1>8. NoIdleSkeleton'
  BY <1>3, Kinds DEF TabInv, NoIdleSkeleton, Observed, InFlight
<1> QED
  BY <1>4, <1>5, <1>6, <1>7, <1>8 DEF TabInv

\* A request is sent with the present cookie by a tab that has checked its session, and
\* a request that changes the store by one that is signed in.
LEMMA SentKeepsTab ==
  ASSUME TabInv, NEW k \in Kind \ {"initialize"}, NEW a \in Account \cup {NoUser},
         k = "login" => a \in Account,
         store.status # "checking", k \in Mutation => store.status = "authenticated",
         net' = [net EXCEPT ![k] = Sent(cookie, a)], result' \in ResultState,
         UNCHANGED <<cookie, store, page, cache, crossed>>
  PROVE  TabInv'
<1>1. net \in [Kind -> Request] /\ cookie \in Token \cup {NoToken}
  BY DEF TabInv, TabSound
<1>2. /\ Sent(cookie, a) \in Request /\ Sent(cookie, a).phase = "sent"
      /\ Sent(cookie, a).cookie = cookie /\ RequestSound(k, Sent(cookie, a))
  BY <1>1, RequestTypes, SentIsSound
<1>3. /\ net' \in [Kind -> Request] /\ net'[k] = Sent(cookie, a)
      /\ \A j \in Kind : j # k => net'[j] = net[j]
  BY <1>1, <1>2
<1>4. TabSound'
  BY <1>3 DEF TabInv, TabSound
<1>5. NetSound'
  BY <1>2, <1>3 DEF TabInv, NetSound
<1>6. CheckSound'
  BY <1>3, Kinds DEF TabInv, CheckSound, InFlight
<1>7. SessionsFollow'
  <2> SUFFICES ASSUME ~crossed
               PROVE  /\ store.status = "authenticated" /\ cookie \in Token
                           => store.user.owner = cookie.owner
                      /\ \A j \in Mutation : net'[j].phase # "idle" =>
                           store.status = "authenticated" /\ RequestOf(net'[j], store.user.owner)
    BY DEF SessionsFollow, InFlight
  <2>1. store.status = "authenticated" /\ cookie \in Token => store.user.owner = cookie.owner
    BY DEF TabInv, SessionsFollow
  <2>2. ASSUME NEW j \in Mutation, net'[j].phase # "idle"
        PROVE  store.status = "authenticated" /\ RequestOf(net'[j], store.user.owner)
    <3>1. CASE j = k
      BY <1>2, <1>3, <2>1, <3>1 DEF RequestOf
    <3>2. CASE j # k
      BY <1>3, <2>2, <3>2, Kinds DEF TabInv, SessionsFollow, InFlight
    <3> QED
      BY <3>1, <3>2
  <2> QED
    BY <2>1, <2>2
<1>8. NoIdleSkeleton'
  <2>1. \A j \in Kind : net[j].phase # "idle" => net'[j].phase # "idle"
    BY <1>2, <1>3
  <2> QED
    BY <2>1, Kinds DEF TabInv, NoIdleSkeleton, Observed, InFlight
<1> QED
  BY <1>4, <1>5, <1>6, <1>7, <1>8 DEF TabInv

\* Rendering a new state of a tab that has checked its session.
LEMMA RenderKeepsTab ==
  ASSUME TabInv, cookie' \in Token \cup {NoToken}, crossed' \in BOOLEAN,
         NEW st \in StoreState, NEW pg \in {"overview", "payment", "login"},
         NEW ch \in CacheState, NEW nt \in [Kind -> Request],
         Render(st, pg, ch, nt), st.status # "checking",
         \A k \in Kind : RequestSound(k, nt[k]),
         nt["initialize"].phase = "idle",
         \A k \in Key : Observed(store, page) =>
           ch[k].data # NoUser \/ ch[k].failed \/ nt[k].phase # "idle",
         crossed' \/ /\ st.status = "authenticated" /\ cookie' \in Token
                         => st.user.owner = cookie'.owner
                     /\ \A k \in Mutation : nt[k].phase # "idle" =>
                          st.status = "authenticated" /\ RequestOf(nt[k], st.user.owner)
  PROVE  TabInv' /\ \A k \in Kind \ Key : net'[k] = nt[k]
<1> DEFINE to == Route(st, pg)
<1>1. st.status \in {"unauthenticated", "authenticated"}
  BY DEF StoreState
<1>2. /\ to \in {"overview", "payment", "login"}
      /\ (to = "login") = (st.status = "unauthenticated")
  BY <1>1 DEF Route
<1>3. /\ store' = st /\ page' = to /\ cache' = ch
      /\ net' = [k \in Kind |->
           IF k \in Key /\ nt[k].phase = "idle" /\ Begins(st, to, ch, k)
             THEN Sent(cookie', NoUser) ELSE nt[k]]
      /\ result' = IF to # "payment" THEN NoResult
                   ELSE [result EXCEPT !.refreshed = @ /\ ~RefreshFailed]
  BY DEF Render
<1> HIDE DEF to
<1>4. /\ Sent(cookie', NoUser) \in Request /\ Sent(cookie', NoUser).phase = "sent"
      /\ \A k \in Key : RequestSound(k, Sent(cookie', NoUser))
  BY RequestTypes, SentIsSound, Kinds
<1>5. net' \in [Kind -> Request]
  BY <1>3, <1>4
<1>6. \A k \in Kind \ Key : net'[k] = nt[k]
  BY <1>3
<1>7. \A k \in Key : \/ net'[k] = nt[k] /\ ~(nt[k].phase = "idle" /\ Begins(st, to, ch, k))
                     \/ net'[k] = Sent(cookie', NoUser)
  BY <1>3, Kinds
<1>8. TabSound'
  <2>1. NoResult \in ResultState
    BY BrowserAssumption DEF NoResult, ResultState
  <2>2. [result EXCEPT !.refreshed = @ /\ ~RefreshFailed] \in ResultState
    <3> DEFINE mark == result.refreshed /\ ~RefreshFailed
    <3>1. mark \in BOOLEAN /\ result \in ResultState
      BY DEF TabInv, TabSound
    <3> HIDE DEF mark
    <3>2. [result EXCEPT !.refreshed = mark] \in ResultState
      BY <3>1 DEF ResultState
    <3> QED
      BY <3>2 DEF mark
  <2>3. result' \in ResultState
    BY <1>3, <2>1, <2>2
  <2> QED
    BY <1>2, <1>3, <1>5, <2>3 DEF TabSound
<1>9. NetSound'
  BY <1>4, <1>6, <1>7 DEF NetSound
<1>10. CheckSound'
  BY <1>1, <1>3, <1>6, Kinds DEF CheckSound, InFlight
<1>11. SessionsFollow'
  BY <1>3, <1>6, Kinds DEF SessionsFollow, InFlight
<1>12. NoIdleSkeleton'
  <2> SUFFICES ASSUME NEW k \in Key, Observed(st, to)
               PROVE  ch[k].data # NoUser \/ ch[k].failed \/ net'[k].phase # "idle"
    BY <1>3 DEF NoIdleSkeleton, InFlight
  <2>1. CASE net'[k] = Sent(cookie', NoUser)
    BY <1>4, <2>1
  <2>2. CASE net'[k] = nt[k] /\ ~(nt[k].phase = "idle" /\ Begins(st, to, ch, k))
    BY <2>2 DEF Begins
  <2> QED
    BY <1>7, <2>1, <2>2
<1> QED
  BY <1>6, <1>8, <1>9, <1>10, <1>11, <1>12 DEF TabInv

\* Who is signed out and who is signed in is in the store as such.
LEMMA StoreStates ==
  /\ SignedOut \in StoreState /\ SignedOut.status = "unauthenticated"
  /\ \A u \in User : /\ SignedIn(u) \in StoreState /\ SignedIn(u).user = u
                     /\ SignedIn(u).status = "authenticated"
BY DEF SignedOut, SignedIn, StoreState

\* What is left of the requests when one of them has settled.
LEMMA SettledRequests ==
  ASSUME TabInv, NEW k \in Kind, InFlight(k)
  PROVE  /\ Settled(k) \in [Kind -> Request] /\ Settled(k)[k] = Idle
         /\ \A j \in Kind : j # k => Settled(k)[j] = net[j]
         /\ \A j \in Kind : RequestSound(j, Settled(k)[j])
         /\ k # "initialize" => Settled(k)["initialize"].phase = "idle" /\ store.status # "checking"
<1>1. net \in [Kind -> Request] /\ \A j \in Kind : RequestSound(j, net[j]) /\ RequestSound(j, Idle)
  BY SentIsSound, RequestTypes DEF TabInv, TabSound, NetSound, RequestSound
<1>2. /\ Settled(k) \in [Kind -> Request] /\ Settled(k)[k] = Idle
      /\ \A j \in Kind : j # k => Settled(k)[j] = net[j]
  BY <1>1, RequestTypes DEF Settled
<1>3. \A j \in Kind : RequestSound(j, Settled(k)[j])
  BY <1>1, <1>2
<1>4. ASSUME k # "initialize"
      PROVE  Settled(k)["initialize"].phase = "idle" /\ store.status # "checking"
  BY <1>2, <1>4, Kinds DEF TabInv, CheckSound, InFlight
<1> QED
  BY <1>2, <1>3, <1>4

\* The answer of a request that changes the store arrives.
LEMMA SetUserKeepsTab ==
  ASSUME TabInv, NEW k \in Mutation, Arrives(k), crossed' = crossed,
         NEW ch \in CacheState, NEW nt \in [Kind -> Request], SetUser(k, ch, nt),
         \A j \in Key : ch[j].data = cache[j].data /\ ch[j].failed = cache[j].failed,
         \A j \in Kind \ Key : nt[j] = Settled(k)[j],
         \A j \in Key : nt[j] = net[j] \/ nt[j] = Sent(cookie', NoUser)
  PROVE  TabInv' /\ \A j \in Kind \ Key : net'[j] = Settled(k)[j]
<1> DEFINE st == IF net[k].ok THEN SignedIn(net[k].user) ELSE store
<1>1. k \in Kind /\ k \notin Key /\ k \notin {"initialize", "login", "logout", "poll"}
  BY Kinds DEF Mutation
<1>2. InFlight(k) /\ net[k].phase = "answered"
  BY DEF Arrives, InFlight
<1>3. net[k].ok => net[k].user \in User
  BY <1>1, <1>2 DEF TabInv, NetSound, RequestSound
<1>4. /\ store \in StoreState /\ store.status # "checking" /\ crossed \in BOOLEAN
      /\ page \in {"overview", "payment", "login"}
  BY <1>1, <1>2, SettledRequests DEF TabInv, TabSound
<1>5. st \in StoreState /\ st.status # "checking"
  BY <1>3, <1>4, StoreStates
<1>6. Settled(k)["initialize"].phase = "idle" /\ \A j \in Kind : RequestSound(j, Settled(k)[j])
  BY <1>1, <1>2, SettledRequests
<1>7. cookie' \in Token \cup {NoToken}
  BY <1>1, CookieSet DEF TabInv
<1>8. /\ Sent(cookie', NoUser).phase = "sent"
      /\ \A j \in Key : RequestSound(j, Sent(cookie', NoUser))
  BY <1>7, RequestTypes, SentIsSound, Kinds
<1>9. \A j \in Kind : RequestSound(j, nt[j])
  BY <1>6, <1>8, Kinds DEF TabInv, NetSound
<1>10. nt["initialize"].phase = "idle"
  BY <1>6, Kinds
<1>11. \A j \in Key : Observed(store, page) =>
         ch[j].data # NoUser \/ ch[j].failed \/ nt[j].phase # "idle"
  BY <1>8 DEF TabInv, NoIdleSkeleton, InFlight
<1>12. ASSUME ~crossed
       PROVE  /\ st.status = "authenticated" /\ cookie' \in Token => st.user.owner = cookie'.owner
              /\ \A j \in Mutation : nt[j].phase # "idle" =>
                   st.status = "authenticated" /\ RequestOf(nt[j], st.user.owner)
  <2>1. /\ store.status = "authenticated"
        /\ \A j \in Mutation : InFlight(j) => RequestOf(net[j], store.user.owner)
        /\ cookie \in Token => store.user.owner = cookie.owner
    BY <1>2, <1>12 DEF TabInv, SessionsFollow
  <2>2. net[k].ok => net[k].user.owner = store.user.owner
    BY <1>2, <2>1 DEF RequestOf
  <2>3. /\ st.status = "authenticated" /\ st.user.owner = store.user.owner
        /\ net[k].ok => st.user = net[k].user
    BY <1>3, <2>1, <2>2, StoreStates
  <2>4. cookie' \in Token => st.user.owner = cookie'.owner
    BY <1>1, <2>1, <2>2, <2>3, CookieSet, BrowserAssumption DEF TabInv
  <2>5. ASSUME NEW j \in Mutation, nt[j].phase # "idle"
        PROVE  RequestOf(nt[j], st.user.owner)
    <3>1. nt[j] = net[j]
      BY <1>1, <1>2, <2>5, SettledRequests, RequestTypes, Kinds
    <3> QED
      BY <2>1, <2>3, <2>5, <3>1 DEF InFlight
  <2> QED
    BY <2>3, <2>4, <2>5
<1>13. Render(st, page, ch, nt)
  BY DEF SetUser
<1> HIDE DEF st
<1>14. TabInv' /\ \A j \in Kind \ Key : net'[j] = nt[j]
  BY <1>4, <1>5, <1>7, <1>9, <1>10, <1>11, <1>12, <1>13, RenderKeepsTab
<1> QED
  BY <1>14

LEMMA SettledType ==
  ASSUME TabInv, NEW k \in Kind, Arrives(k)
  PROVE  /\ InFlight(k) /\ net[k].phase = "answered" /\ RequestSound(k, net[k])
         /\ Settled(k) \in [Kind -> Request] /\ cookie' \in Token \cup {NoToken}
BY SettledRequests, CookieSet DEF TabInv, NetSound, Arrives, InFlight

\* Every answer that arrives leaves the tab sound, and no request but a query, or the
\* reading of the user, is sent because of it.
LEMMA DeliveriesKeepTab ==
  ASSUME TabInv, Deliver
  PROVE  TabInv' /\ (net'["activate"].phase = "sent" => net["activate"].phase = "sent")
<1> USE DEF TabInv
<1>s. ASSUME NEW k \in Kind, Arrives(k),
             \A j \in Kind \ (Key \cup {"refresh"}) : net'[j] = Settled(k)[j]
      PROVE  net'["activate"].phase = "sent" => net["activate"].phase = "sent"
  <2>1. "activate" \in Kind \ (Key \cup {"refresh"})
    BY DEF Kind, Key, Mutation
  <2>2. InFlight(k)
    BY <1>s, SettledType
  <2> QED
    BY <1>s, <2>1, <2>2, SettledRequests, RequestTypes
<1>1. CASE Initialized
  <2> DEFINE k == "initialize"
             st == IF net[k].ok THEN SignedIn(net[k].user) ELSE SignedOut
  <2>1. k \in Kind /\ k \notin Key /\ Arrives(k)
    BY <1>1, Kinds DEF Initialized
  <2>2. /\ InFlight(k) /\ net[k].phase = "answered" /\ RequestSound(k, net[k])
        /\ Settled(k) \in [Kind -> Request] /\ cookie' \in Token \cup {NoToken}
    BY <2>1, SettledType
  <2>3. net[k].ok => net[k].user \in User
    BY <2>2 DEF RequestSound
  <2>4. st \in StoreState /\ st.status # "checking"
    BY <2>3, StoreStates
  <2>5. /\ Settled(k)[k] = Idle /\ \A j \in Kind : RequestSound(j, Settled(k)[j])
        /\ \A j \in Kind : j # k => Settled(k)[j] = net[j]
    BY <2>1, <2>2, SettledRequests
  <2>6. store.status = "checking" /\ \A j \in Kind \ {k} : ~InFlight(j)
    BY <2>2 DEF CheckSound
  <2>7. \A j \in Mutation : Settled(k)[j].phase = "idle"
    BY <2>5, <2>6, Kinds DEF InFlight
  <2>8. st.status = "authenticated" /\ cookie' \in Token => st.user.owner = cookie'.owner
    <3>1. CASE net[k].ok
      <4>1. cookie' = cookie
        BY <2>1, <3>1, CookieSet
      <4> QED
        BY <2>2, <2>3, <2>6, <3>1, <4>1, StoreStates DEF CheckSound
    <3>2. CASE ~net[k].ok
      BY <3>2, StoreStates
    <3> QED
      BY <3>1, <3>2
  <2>9. \A j \in Key : ~Observed(store, page)
    BY <2>6 DEF Observed
  <2>10. Render(st, page, cache, Settled(k)) /\ crossed' = crossed
    BY <1>1 DEF Initialized
  <2>11. /\ crossed \in BOOLEAN /\ page \in {"overview", "payment", "login"}
         /\ cache \in CacheState
    BY DEF TabSound
  <2>12. Settled(k)["initialize"].phase = "idle"
    BY <2>5, RequestTypes
  <2> HIDE DEF st, k
  <2>13. TabInv' /\ \A j \in Kind \ Key : net'[j] = Settled(k)[j]
    BY <2>2, <2>4, <2>5, <2>7, <2>8, <2>9, <2>10, <2>11, <2>12, RenderKeepsTab
  <2> QED
    BY <1>s, <2>1, <2>13
<1>2. CASE LoggedIn
  <2> DEFINE k == "login"
             st == IF net[k].ok THEN SignedIn(net[k].user) ELSE store
  <2>1. k \in Kind /\ k \notin Key /\ k \notin Mutation /\ k # "initialize" /\ Arrives(k)
    BY <1>2, Kinds DEF LoggedIn, Mutation
  <2>2. /\ InFlight(k) /\ net[k].phase = "answered" /\ RequestSound(k, net[k])
        /\ Settled(k) \in [Kind -> Request] /\ cookie' \in Token \cup {NoToken}
    BY <2>1, SettledType
  <2>3. net[k].ok => net[k].user \in User
    BY <2>2 DEF RequestSound
  <2>4. /\ \A j \in Kind : RequestSound(j, Settled(k)[j])
        /\ \A j \in Kind : j # k => Settled(k)[j] = net[j]
        /\ Settled(k)["initialize"].phase = "idle" /\ store.status # "checking"
    BY <2>1, <2>2, SettledRequests
  <2>5. /\ crossed \in BOOLEAN /\ page \in {"overview", "payment", "login"}
        /\ cache \in CacheState /\ store \in StoreState
    BY DEF TabSound
  <2>6. st \in StoreState /\ st.status # "checking"
    BY <2>3, <2>4, <2>5, StoreStates
  <2>7. \A j \in Key : Observed(store, page) =>
          cache[j].data # NoUser \/ cache[j].failed \/ Settled(k)[j].phase # "idle"
    BY <2>1, <2>4, Kinds DEF NoIdleSkeleton, InFlight
  <2>8. /\ crossed' \in BOOLEAN /\ (crossed => crossed')
        /\ net[k].ok /\ ~crossed' => \A j \in Mutation : ~InFlight(j)
    BY <1>2, <2>5 DEF LoggedIn, Crosses
  <2>9. ASSUME ~crossed'
        PROVE  /\ st.status = "authenticated" /\ cookie' \in Token
                    => st.user.owner = cookie'.owner
               /\ \A j \in Mutation : Settled(k)[j].phase # "idle" =>
                    st.status = "authenticated" /\ RequestOf(Settled(k)[j], st.user.owner)
    <3>1. CASE net[k].ok
      <4>1. cookie' \in Token /\ cookie'.owner = net[k].user.owner
        <5>1. net[k].setCookie # {}
          BY <2>2, <3>1 DEF RequestSound, SetsToken
        <5>2. \/ cookie' = cookie /\ net[k].setCookie = {}
              \/ cookie' = NoToken /\ k # "login" /\ (net[k].ok => k = "logout")
              \/ /\ k \in {"login", "password"} /\ net[k].ok /\ cookie' \in Token
                 /\ net[k].user \in User /\ cookie'.owner = net[k].user.owner
          BY <2>1, CookieSet
        <5> QED
          BY <5>1, <5>2
      <4>2. st.user = net[k].user
        BY <2>3, <3>1, StoreStates
      <4>3. \A j \in Mutation : Settled(k)[j].phase = "idle"
        BY <2>1, <2>4, <2>8, <2>9, <3>1, Kinds DEF InFlight
      <4> QED
        BY <4>1, <4>2, <4>3
    <3>2. CASE ~net[k].ok
      <4>1. st = store /\ cookie' = cookie
        BY <2>1, <2>2, <3>2, CookieSet
      <4>2. \A j \in Mutation : Settled(k)[j] = net[j]
        BY <2>1, <2>4, Kinds
      <4>3. ~crossed
        BY <2>8, <2>9
      <4>4. /\ store.status = "authenticated" /\ cookie \in Token => store.user.owner = cookie.owner
            /\ \A j \in Mutation : net[j].phase # "idle" =>
                 store.status = "authenticated" /\ RequestOf(net[j], store.user.owner)
        BY <4>3 DEF SessionsFollow, InFlight
      <4> HIDE DEF st, k
      <4> QED
        BY <4>1, <4>2, <4>4
    <3> QED
      BY <2>5, <3>1, <3>2
  <2>10. Render(st, page, cache, Settled(k))
    BY <1>2 DEF LoggedIn
  <2> HIDE DEF st, k
  <2>11. TabInv' /\ \A j \in Kind \ Key : net'[j] = Settled(k)[j]
    BY <2>2, <2>4, <2>5, <2>6, <2>7, <2>8, <2>9, <2>10, RenderKeepsTab
  <2> QED
    BY <1>s, <2>1, <2>11
<1>3. CASE LoggedOut
  <2> DEFINE k == "logout"
  <2>1. k \in Kind /\ k \notin Key /\ k \notin Mutation /\ k # "initialize" /\ Arrives(k)
    BY <1>3, Kinds DEF LoggedOut, Mutation
  <2>2. /\ InFlight(k) /\ Settled(k) \in [Kind -> Request]
        /\ cookie' \in Token \cup {NoToken}
    BY <2>1, SettledType
  <2>3. /\ \A j \in Kind : RequestSound(j, Settled(k)[j])
        /\ \A j \in Kind : j # k => Settled(k)[j] = net[j]
        /\ Settled(k)["initialize"].phase = "idle"
    BY <2>1, <2>2, SettledRequests
  <2>4. /\ crossed \in BOOLEAN /\ page \in {"overview", "payment", "login"}
        /\ cache \in CacheState
    BY DEF TabSound
  <2>5. \A j \in Key : Observed(store, page) =>
          cache[j].data # NoUser \/ cache[j].failed \/ Settled(k)[j].phase # "idle"
    BY <2>1, <2>3, Kinds DEF NoIdleSkeleton, InFlight
  <2>6. crossed' \in BOOLEAN /\ (~crossed' => \A j \in Mutation : ~InFlight(j))
    BY <1>3, <2>4 DEF LoggedOut, Crosses
  <2>7. ~crossed' => \A j \in Mutation : Settled(k)[j].phase = "idle"
    BY <2>1, <2>3, <2>6, Kinds DEF InFlight
  <2>8. Render(SignedOut, page, cache, Settled(k))
    BY <1>3 DEF LoggedOut
  <2>9. SignedOut \in StoreState /\ SignedOut.status = "unauthenticated"
    BY StoreStates
  <2> HIDE DEF k
  <2>10. TabInv' /\ \A j \in Kind \ Key : net'[j] = Settled(k)[j]
    BY <2>2, <2>3, <2>4, <2>5, <2>6, <2>7, <2>8, <2>9, RenderKeepsTab
  <2> QED
    BY <1>s, <2>1, <2>10
<1>4. CASE Activated
  <2> DEFINE k == "activate"
             ch == Invalidated(cache, "daily-charge")
             nt == Refetched(Settled(k), "daily-charge")
  <2>1. k \in Mutation /\ k \in Kind /\ Arrives(k) /\ crossed' = crossed
    BY <1>4, Kinds DEF Activated, Mutation
  <2>2. /\ InFlight(k) /\ Settled(k) \in [Kind -> Request]
        /\ cookie' \in Token \cup {NoToken}
    BY <2>1, SettledType
  <2>3. \A j \in Kind : j # k => Settled(k)[j] = net[j]
    BY <2>1, <2>2, SettledRequests
  <2>4. cache \in CacheState
    BY DEF TabSound
  <2>5. \A j \in Key : Settled(k)[j] = net[j]
    BY <2>1, <2>3, Kinds
  <2>6. CASE net[k].ok
    <3>1. /\ ch \in CacheState
          /\ \A j \in Key : ch[j].data = cache[j].data /\ ch[j].failed = cache[j].failed
      BY <2>4 DEF Invalidated, CacheState, Key
    <3>2. Sent(cookie', NoUser) \in Request
      BY <2>2, RequestTypes
    <3>3. "daily-charge" \in Key /\ "daily-charge" \in Kind
      BY DEF Key, Kind
    <3>4. /\ nt \in [Kind -> Request]
          /\ \A j \in Kind \ Key : nt[j] = Settled(k)[j]
          /\ \A j \in Key : nt[j] = net[j] \/ nt[j] = Sent(cookie', NoUser)
      BY <2>2, <2>5, <3>2, <3>3 DEF Refetched
    <3>5. SetUser(k, ch, nt)
      BY <1>4, <2>6 DEF Activated
    <3> HIDE DEF ch, nt, k
    <3>6. TabInv' /\ \A j \in Kind \ Key : net'[j] = Settled(k)[j]
      BY <2>1, <3>1, <3>4, <3>5, SetUserKeepsTab
    <3> QED
      BY <1>s, <2>1, <3>6
  <2>7. CASE ~net[k].ok
    <3>1. SetUser(k, cache, Settled(k))
      BY <1>4, <2>7 DEF Activated
    <3> HIDE DEF ch, nt, k
    <3>2. TabInv' /\ \A j \in Kind \ Key : net'[j] = Settled(k)[j]
      BY <2>1, <2>2, <2>4, <2>5, <3>1, SetUserKeepsTab
    <3> QED
      BY <1>s, <2>1, <3>2
  <2> QED
    BY <2>6, <2>7
<1>5. ASSUME NEW k \in Mutation, Arrives(k), SetUser(k, cache, Settled(k)), crossed' = crossed
      PROVE  TabInv' /\ (net'["activate"].phase = "sent" => net["activate"].phase = "sent")
  <2>1. k \in Kind /\ k \notin Key
    BY Kinds
  <2>2. /\ Settled(k) \in [Kind -> Request] /\ InFlight(k)
        /\ \A j \in Key : Settled(k)[j] = net[j]
    BY <1>5, <2>1, SettledType, SettledRequests, Kinds
  <2>3. cache \in CacheState
    BY DEF TabSound
  <2>4. TabInv' /\ \A j \in Kind \ Key : net'[j] = Settled(k)[j]
    BY <1>5, <2>2, <2>3, SetUserKeepsTab
  <2> QED
    BY <1>5, <1>s, <2>1, <2>4
<1>6. CASE PasswordChanged \/ Refreshed
  <2>1. CASE PasswordChanged
    BY <1>5, <2>1 DEF PasswordChanged, Mutation
  <2>2. CASE Refreshed
    BY <1>5, <2>2 DEF Refreshed, Mutation
  <2> QED
    BY <1>6, <2>1, <2>2
<1>7. ASSUME NEW k \in Key, Fetched(k)
      PROVE  TabInv' /\ (net'["activate"].phase = "sent" => net["activate"].phase = "sent")
  <2> DEFINE entry == IF net[k].ok THEN [data |-> net[k].user, fresh |-> TRUE, failed |-> FALSE]
                      ELSE [cache[k] EXCEPT !.failed = TRUE]
             ch == [cache EXCEPT ![k] = entry]
  <2>1. /\ k \in Kind /\ k \notin Mutation /\ k \notin {"initialize", "login", "logout", "poll"}
        /\ Arrives(k)
    BY <1>7, Kinds DEF Fetched
  <2>2. /\ InFlight(k) /\ net[k].phase = "answered" /\ RequestSound(k, net[k])
        /\ Settled(k) \in [Kind -> Request] /\ cookie' \in Token \cup {NoToken}
        /\ net \in [Kind -> Request]
    BY <2>1, SettledType DEF TabSound
  <2>3. /\ \A j \in Kind : RequestSound(j, Settled(k)[j])
        /\ \A j \in Kind : j # k => Settled(k)[j] = net[j]
        /\ Settled(k)["initialize"].phase = "idle" /\ store.status # "checking"
    BY <2>1, <2>2, SettledRequests
  <2>4. /\ crossed \in BOOLEAN /\ page \in {"overview", "payment", "login"}
        /\ store \in StoreState /\ cache \in CacheState
    BY DEF TabSound
  <2>5. net[k].ok \in BOOLEAN /\ (net[k].ok => net[k].user \in User)
    BY <2>1, <2>2, RequestCases DEF RequestSound
  <2>6. /\ entry \in [data: User \cup {NoUser}, fresh: BOOLEAN, failed: BOOLEAN]
        /\ entry.data # NoUser \/ entry.failed
    <3>1. CASE net[k].ok
      BY <2>5, <3>1, BrowserAssumption
    <3>2. CASE ~net[k].ok
      <4>1. cache[k] \in [data: User \cup {NoUser}, fresh: BOOLEAN, failed: BOOLEAN]
        BY <2>4 DEF CacheState
      <4> QED
        BY <3>2, <4>1
    <3> QED
      BY <2>5, <3>1, <3>2
  <2> HIDE DEF entry
  <2>7. ch \in CacheState /\ ch[k] = entry /\ \A j \in Key : j # k => ch[j] = cache[j]
    BY <2>4, <2>6 DEF CacheState
  <2>8. Render(store, page, ch, Settled(k)) /\ crossed' = crossed
    BY <1>7 DEF Fetched, entry
  <2> HIDE DEF ch
  <2>9. \A j \in Key : Observed(store, page) =>
          ch[j].data # NoUser \/ ch[j].failed \/ Settled(k)[j].phase # "idle"
    BY <2>3, <2>6, <2>7, Kinds DEF NoIdleSkeleton, InFlight
  <2>10. ASSUME ~crossed
         PROVE  /\ store.status = "authenticated" /\ cookie' \in Token
                     => store.user.owner = cookie'.owner
                /\ \A j \in Mutation : Settled(k)[j].phase # "idle" =>
                     store.status = "authenticated" /\ RequestOf(Settled(k)[j], store.user.owner)
    <3>1. cookie' = cookie \/ cookie' \notin Token
      BY <2>1, CookieSet, BrowserAssumption DEF Mutation
    <3>2. \A j \in Mutation : Settled(k)[j] = net[j]
      BY <2>1, <2>3, Kinds
    <3> QED
      BY <2>10, <3>1, <3>2 DEF SessionsFollow, InFlight
  <2>11. TabInv' /\ \A j \in Kind \ Key : net'[j] = Settled(k)[j]
    BY <2>2, <2>3, <2>4, <2>7, <2>8, <2>9, <2>10, RenderKeepsTab
  <2> QED
    BY <1>s, <2>1, <2>11
<1>8. CASE Polled
  <2> DEFINE k == "poll"
             ans == net[k]
             here == page = "payment"
             refresh == here /\ ans.ok /\ ans.paid = "succeeded" /\ ~result.refreshed
             r == Sent(cookie', NoUser)
  <2>1. /\ k \in Kind /\ k \notin Key /\ k \notin Mutation /\ k # "initialize" /\ Arrives(k)
        /\ "refresh" \in Mutation
    BY <1>8, Kinds DEF Polled, Mutation
  <2>2. /\ InFlight(k) /\ ans.phase = "answered" /\ ans \in Request
        /\ Settled(k) \in [Kind -> Request] /\ cookie' \in Token \cup {NoToken}
    BY <2>1, SettledType DEF TabSound
  <2>3. /\ Settled(k)[k] = Idle /\ \A j \in Kind : RequestSound(j, Settled(k)[j])
        /\ \A j \in Kind : j # k => Settled(k)[j] = net[j]
        /\ Settled(k)["initialize"].phase = "idle" /\ store.status # "checking"
    BY <2>1, <2>2, SettledRequests
  <2>4. /\ r \in Request /\ r.phase = "sent" /\ r.cookie = cookie'
        /\ RequestSound("refresh", r)
    BY <2>1, <2>2, RequestTypes, SentIsSound, Kinds
  <2>5. /\ net' = IF refresh THEN [Settled(k) EXCEPT !["refresh"] = r] ELSE Settled(k)
        /\ result' = IF ~here THEN result
                     ELSE IF ans.ok THEN [result EXCEPT !.data = ans.paid, !.failed = FALSE,
                                                        !.refreshed = @ \/ refresh]
                     ELSE [result EXCEPT !.failed = TRUE]
        /\ UNCHANGED <<store, page, cache, crossed>>
    BY <1>8 DEF Polled
  <2>6. result' \in ResultState
    <3> DEFINE mark == result.refreshed \/ refresh
    <3>1. result \in ResultState /\ mark \in BOOLEAN
      BY DEF TabSound
    <3>2. ans.paid \in {"none", "pending", "succeeded"}
      BY <2>2, RequestCases
    <3>3. result' = IF ~here THEN result
                    ELSE IF ans.ok THEN [result EXCEPT !.data = ans.paid, !.failed = FALSE,
                                                       !.refreshed = mark]
                    ELSE [result EXCEPT !.failed = TRUE]
      BY <2>5
    <3> HIDE DEF mark, ans, here
    <3> QED
      BY <3>1, <3>2, <3>3 DEF ResultState
  <2> HIDE DEF r, ans
  <2>7. /\ net' \in [Kind -> Request]
        /\ \A j \in Kind \ {"refresh"} : net'[j] = Settled(k)[j]
        /\ net'["refresh"] = Settled(k)["refresh"] \/ (here /\ net'["refresh"] = r)
    BY <2>1, <2>2, <2>4, <2>5, Kinds
  <2> HIDE DEF refresh, k
  <2>8. TabSound'
    BY <2>2, <2>5, <2>6, <2>7 DEF TabSound
  <2>9. NetSound'
    BY <2>3, <2>4, <2>7 DEF NetSound
  <2>10. CheckSound'
    BY <2>1, <2>3, <2>5, <2>7, Kinds DEF CheckSound, InFlight
  <2>11. NoIdleSkeleton'
    <3>1. \A j \in Key : net'[j] = net[j]
      BY <2>1, <2>3, <2>7, Kinds
    <3> QED
      BY <2>5, <3>1 DEF NoIdleSkeleton, Observed, InFlight
  <2>12. SessionsFollow'
    <3> SUFFICES ASSUME ~crossed
                 PROVE  /\ store.status = "authenticated" /\ cookie' \in Token
                             => store.user.owner = cookie'.owner
                        /\ \A j \in Mutation : net'[j].phase # "idle" =>
                             store.status = "authenticated" /\ RequestOf(net'[j], store.user.owner)
      BY <2>5 DEF SessionsFollow, InFlight
    <3>1. cookie' = cookie \/ cookie' \notin Token
      BY <2>1, CookieSet, BrowserAssumption DEF k
    <3>2. store.status = "authenticated" /\ cookie' \in Token => store.user.owner = cookie'.owner
      BY <3>1 DEF SessionsFollow
    <3>3. ASSUME NEW j \in Mutation, net'[j].phase # "idle"
          PROVE  store.status = "authenticated" /\ RequestOf(net'[j], store.user.owner)
      <4>1. CASE net'[j] = net[j]
        BY <3>3, <4>1 DEF SessionsFollow, InFlight
      <4>2. CASE here /\ net'[j] = r
        <5>1. store.status = "authenticated"
          BY <2>3, <4>2 DEF TabSound, StoreState
        <5> QED
          BY <2>4, <3>2, <4>2, <5>1 DEF RequestOf
      <4> QED
        BY <2>1, <2>3, <2>7, <4>1, <4>2, Kinds
    <3> QED
      BY <3>2, <3>3
  <2>13. \A j \in Kind \ (Key \cup {"refresh"}) : net'[j] = Settled(k)[j]
    BY <2>7
  <2> QED
    BY <1>s, <2>1, <2>8, <2>9, <2>10, <2>11, <2>12, <2>13
<1> QED
  BY <1>1, <1>2, <1>3, <1>4, <1>6, <1>7, <1>8 DEF Deliver

-----------------------------------------------------------------------------
(* The steps of the server. *)

LEMMA CountsAreNumbers ==
  ASSUME ServerSound
  PROVE  /\ \A a \in Account : account[a].version \in Nat /\ account[a].status \in Status
         /\ budget.clicks \in 0..MaxClicks /\ budget.trouble \in 0..MaxTrouble
         /\ MaxClicks \in Nat /\ MaxTrouble \in Nat /\ MaxTokens \in Nat /\ issued \in Nat
BY BrowserAssumption DEF ServerSound, Version

\* What is left of a change that has been paid for.
LEMMA CountsHold ==
  ASSUME ServerSound, ChangesCounted, account' = account, payment'.status = payment.status,
         budget'.clicks \in Nat, budget'.trouble \in Nat,
         budget'.clicks + budget'.trouble >= budget.clicks + budget.trouble,
         net'["activate"].phase = "sent" =>
           \/ net["activate"].phase = "sent"
           \/ budget'.clicks + budget'.trouble >= budget.clicks + budget.trouble + 1
  PROVE  ChangesCounted'
<1> SUFFICES ASSUME NEW a \in Account
             PROVE  account'[a].version + (IF net'["activate"].phase = "sent" THEN 1 ELSE 0)
                      <= budget'.trouble + budget'.clicks
                           + (IF payment'.status = "succeeded" THEN 1 ELSE 0)
  BY DEF ChangesCounted
<1>1. account[a].version + (IF net["activate"].phase = "sent" THEN 1 ELSE 0)
        <= budget.trouble + budget.clicks + (IF payment.status = "succeeded" THEN 1 ELSE 0)
  BY DEF ChangesCounted
<1>2. account[a].version \in Nat /\ budget.clicks \in Nat /\ budget.trouble \in Nat
  BY CountsAreNumbers
<1> QED
  BY <1>1, <1>2

LEMMA ReadType ==
  ASSUME ServerSound, NEW a \in Account
  PROVE  Read(a) \in User /\ Read(a).owner = a
BY DEF ServerSound, Read, User

LEMMA FreshType ==
  ASSUME ServerSound, NEW a \in Account, issued < MaxTokens
  PROVE  Fresh(a) \in Token /\ Fresh(a).owner = a /\ issued + 1 \in 1..MaxTokens
<1>1. issued + 1 \in 1..MaxTokens
  BY BrowserAssumption DEF ServerSound
<1> QED
  BY <1>1 DEF Fresh, Token

LEMMA RowChanged ==
  ASSUME ServerSound, NEW a \in Account, NEW s \in Status,
         account[a].version <= MaxTrouble + MaxClicks, account' = Changed(a, s)
  PROVE  /\ account' \in [Account -> [version: Version, status: Status]]
         /\ account'[a].version = account[a].version + 1
         /\ \A b \in Account : b # a => account'[b] = account[b]
<1>1. account[a].version + 1 \in Version
  BY CountsAreNumbers DEF Version
<1>2. account' = [account EXCEPT ![a] = [version |-> account[a].version + 1, status |-> s]]
  BY DEF Changed
<1> QED
  BY <1>1, <1>2 DEF ServerSound

\* The balance is credited: the payment pays for the change.
LEMMA CreditKeepsServer ==
  ASSUME ServerSound, ChangesCounted, Credit, UNCHANGED <<sessions, issued, budget>>,
         net'["activate"].phase = "sent" => net["activate"].phase = "sent"
  PROVE  ServerSound' /\ ChangesCounted'
<1> DEFINE s == IF account[Payer].status = "blocked" THEN "active" ELSE account[Payer].status
<1>1. Payer \in Account /\ \A a \in Account : account[a].version \in Nat
  BY CountsAreNumbers, BrowserAssumption
<1>2. s \in Status
  BY <1>1, CountsAreNumbers DEF Status
<1>3. \A a \in Account :
        account[a].version + (IF net["activate"].phase = "sent" THEN 1 ELSE 0)
          <= budget.trouble + budget.clicks
  BY CountsAreNumbers DEF ChangesCounted, Credit
<1>4. account[Payer].version <= MaxTrouble + MaxClicks
  BY <1>1, <1>3, CountsAreNumbers
<1>5. account' = Changed(Payer, s)
  BY DEF Credit
<1> HIDE DEF s
<1>6. /\ account' \in [Account -> [version: Version, status: Status]]
      /\ account'[Payer].version = account[Payer].version + 1
      /\ \A a \in Account : a # Payer => account'[a] = account[a]
  BY <1>1, <1>2, <1>4, <1>5, RowChanged
<1>7. account[Payer].version + 1 \in Version
  BY <1>1, <1>6
<1>8. payment' = [status |-> "succeeded", version |-> account[Payer].version + 1]
  BY DEF Credit
<1>9. ServerSound'
  BY <1>6, <1>7, <1>8 DEF ServerSound
<1>10. ChangesCounted'
  <2> SUFFICES ASSUME NEW a \in Account
               PROVE  account'[a].version + (IF net'["activate"].phase = "sent" THEN 1 ELSE 0)
                        <= budget.trouble + budget.clicks + 1
    BY <1>8 DEF ChangesCounted
  <2>1. account[a].version + (IF net["activate"].phase = "sent" THEN 1 ELSE 0)
          <= budget.trouble + budget.clicks
    BY <1>3
  <2>2. account[a].version \in Nat /\ budget.trouble \in Nat /\ budget.clicks \in Nat
    BY CountsAreNumbers
  <2>3. account'[a].version = account[a].version \/ account'[a].version = account[a].version + 1
    BY <1>6
  <2> QED
    BY <2>1, <2>2, <2>3
<1> QED
  BY <1>9, <1>10

\* The server answers a request.
LEMMA AnswersKeepTab ==
  ASSUME TabInv, NEW k \in Kind, NEW ok \in BOOLEAN, NEW u \in User \cup {NoUser},
         NEW p \in {"none", "pending", "succeeded"}, NEW s \in SUBSET (Token \cup {NoToken}),
         Answers(k, Answer(ok, u, p, s)),
         ok /\ k \notin {"logout", "poll"} => u \in User,
         \/ s = {} /\ ~(k = "login" /\ ok)
         \/ s = {NoToken} /\ k # "login" /\ (ok => k = "logout")
         \/ k \in {"login", "password"} /\ ok /\ \E t \in Token : s = {t} /\ t.owner = u.owner,
         ok /\ k \in {"initialize"} \cup Mutation =>
           net[k].cookie \in Token /\ u.owner = net[k].cookie.owner
  PROVE  /\ TabInv' /\ budget' = budget
         /\ net'["activate"].phase = "sent" => net["activate"].phase = "sent" /\ k # "activate"
<1> DEFINE r == Answer(ok, u, p, s)
<1>1. /\ r \in Request /\ r.phase = "answered" /\ r.ok = ok /\ r.user = u /\ r.setCookie = s
  BY AnswerType
<1> HIDE DEF r
<1>2. RequestSound(k, r)
  BY <1>1 DEF RequestSound, SetsToken
<1>3. /\ net[k].phase = "sent" /\ InFlight(k) /\ net' = [net EXCEPT ![k] = r]
      /\ UNCHANGED <<cookie, store, page, cache, result, budget, crossed>>
  BY DEF Answers, InFlight, r
<1>4. TabInv'
  BY <1>1, <1>2, <1>3, AnsweredKeepsTab
<1>5. net'["activate"].phase = "sent" => net["activate"].phase = "sent" /\ k # "activate"
  BY <1>1, <1>3, Kinds DEF TabInv, TabSound, Mutation
<1> QED
  BY <1>3, <1>4, <1>5

\* An answer that names nobody.
LEMMA FailuresKeepTab ==
  ASSUME TabInv, NEW k \in Kind,
         Answers(k, Failure) \/ (Answers(k, Unauthenticated) /\ k # "login")
  PROVE  /\ TabInv' /\ budget' = budget
         /\ net'["activate"].phase = "sent" => net["activate"].phase = "sent"
<1>1. CASE Answers(k, Failure)
  <2> DEFINE none == {}
  <2>1. none \in SUBSET (Token \cup {NoToken}) /\ none = {}
    OBVIOUS
  <2>2. Answers(k, Answer(FALSE, NoUser, "none", none))
    BY <1>1 DEF Failure
  <2> HIDE DEF none
  <2> QED
    BY <2>1, <2>2, AnswersKeepTab
<1>2. CASE Answers(k, Unauthenticated) /\ k # "login"
  BY <1>2, AnswersKeepTab DEF Unauthenticated
<1> QED
  BY <1>1, <1>2

LEMMA SessionOwner ==
  ASSUME ServerSound, NEW k \in Kind, Valid(k)
  PROVE  net[k].cookie \in Token /\ net[k].cookie.owner \in Account
BY DEF ServerSound, Valid, Token

LEMMA ServingKeepsInv ==
  ASSUME ServerSound, ChangesCounted, TabInv, Serve
  PROVE  ServerSound' /\ ChangesCounted' /\ TabInv'
<1>n. budget.clicks \in Nat /\ budget.trouble \in Nat
  BY CountsAreNumbers, BrowserAssumption
<1>s. ASSUME UNCHANGED server, TabInv', budget' = budget,
             net'["activate"].phase = "sent" => net["activate"].phase = "sent"
      PROVE  ServerSound' /\ ChangesCounted' /\ TabInv'
  <2>1. ServerSound'
    BY <1>s DEF ServerSound, server
  <2>2. ChangesCounted'
    BY <1>n, <1>s, CountsHold DEF server
  <2> QED
    BY <1>s, <2>1, <2>2
<1>f. ASSUME NEW k \in Kind, UNCHANGED server,
             Answers(k, Failure) \/ (Answers(k, Unauthenticated) /\ k # "login")
      PROVE  ServerSound' /\ ChangesCounted' /\ TabInv'
  BY <1>f, <1>s, FailuresKeepTab
<1>1. CASE ServeLogin
  <2> DEFINE k == "login"
             a == net[k].account
             t == Fresh(a)
  <2>1. k \in Kind /\ k \notin Mutation /\ k # "activate"
    BY DEF Kind, Mutation
  <2>2. CASE /\ net[k].phase = "sent"
             /\ Issues(a, t, sessions)
             /\ Answers(k, Answer(TRUE, Read(a), "none", {t}))
             /\ UNCHANGED <<account, payment>>
    <3>1. a \in Account
      BY <2>1, <2>2 DEF TabInv, NetSound, RequestSound
    <3>2. /\ t \in Token /\ t.owner = a /\ issued + 1 \in 1..MaxTokens
          /\ Read(a) \in User /\ Read(a).owner = a
      BY <2>2, <3>1, FreshType, ReadType DEF Issues
    <3> HIDE DEF t, a
    <3>3. /\ TabInv' /\ budget' = budget
          /\ net'["activate"].phase = "sent" => net["activate"].phase = "sent"
      <4>1. Answers(k, Answer(TRUE, Read(a), "none", {t})) /\ k \in {"login", "password"}
        BY <2>2
      <4>2. {t} \in SUBSET (Token \cup {NoToken}) /\ \E v \in Token : {t} = {v} /\ v.owner = Read(a).owner
        BY <3>2
      <4> HIDE DEF k
      <4> QED
        BY <2>1, <3>2, <4>1, <4>2, AnswersKeepTab
    <3>4. ServerSound'
      BY <2>2, <3>2, <3>3 DEF ServerSound, Issues
    <3>5. ChangesCounted'
      BY <1>n, <2>2, <3>3, CountsHold
    <3> QED
      BY <3>3, <3>4, <3>5
  <2>3. CASE Answers(k, Failure) /\ UNCHANGED server
    BY <1>f, <2>1, <2>3
  <2> QED
    BY <1>1, <2>2, <2>3 DEF ServeLogin
<1>2. CASE ServeLogout
  <2>1. "logout" \in Kind /\ "logout" \notin Mutation
    BY DEF Kind, Mutation
  <2>2. Answers("logout", Answer(TRUE, NoUser, "none", {NoToken}))
    BY <1>2 DEF ServeLogout
  <2>3. /\ TabInv' /\ budget' = budget
        /\ net'["activate"].phase = "sent" => net["activate"].phase = "sent"
    BY <2>1, <2>2, AnswersKeepTab
  <2>4. /\ UNCHANGED <<account, issued, payment>> /\ sessions' \subseteq sessions
    BY <1>2 DEF ServeLogout
  <2>5. ServerSound'
    BY <2>3, <2>4 DEF ServerSound
  <2>6. ChangesCounted'
    BY <1>n, <2>3, <2>4, CountsHold
  <2> QED
    BY <2>3, <2>5, <2>6
<1>3. CASE ServeActivate
  <2> DEFINE k == "activate"
             a == net[k].cookie.owner
             u == [Read(a) EXCEPT !.version = @ + 1, !.status = "active"]
  <2>1. k \in Kind /\ k \in Mutation /\ Valid(k)
    BY <1>3 DEF Kind, Mutation, ServeActivate
  <2>2. net[k].cookie \in Token /\ a \in Account
    BY <2>1, SessionOwner
  <2>3. CASE Answers(k, Failure) /\ UNCHANGED server
    BY <1>f, <2>1, <2>3
  <2>4. CASE /\ account[a].status = "paused"
             /\ account' = Changed(a, "active")
             /\ Answers(k, Success(u))
             /\ UNCHANGED <<sessions, issued, payment>>
    <3>1. net[k].phase = "sent"
      BY <2>1 DEF Valid
    <3>2. \A b \in Account :
            /\ account[b].version + 1
                 <= budget.trouble + budget.clicks + (IF payment.status = "succeeded" THEN 1 ELSE 0)
            /\ account[b].version <= MaxTrouble + MaxClicks
      BY <3>1, CountsAreNumbers DEF ChangesCounted
    <3> HIDE DEF a
    <3>3. /\ account' \in [Account -> [version: Version, status: Status]]
          /\ account'[a].version = account[a].version + 1
          /\ \A b \in Account : b # a => account'[b] = account[b]
      BY <2>2, <2>4, <3>2, RowChanged DEF Status
    <3>4. u \in User /\ u.owner = a
      <4>1. account[a].version + 1 \in Version
        BY <2>2, <3>3
      <4>2. Read(a) \in User /\ Read(a).owner = a /\ Read(a).version = account[a].version
        BY <2>2, ReadType DEF Read
      <4> DEFINE r == Read(a)
      <4>3. r \in User /\ r.version + 1 \in Version
        BY <4>1, <4>2
      <4>4. u = [r EXCEPT !.version = r.version + 1, !.status = "active"]
        OBVIOUS
      <4> HIDE DEF r, u
      <4>5. [r EXCEPT !.version = r.version + 1, !.status = "active"] \in User
        BY <4>3 DEF User, Status
      <4>6. [r EXCEPT !.version = r.version + 1, !.status = "active"].owner = r.owner
        BY <4>3 DEF User
      <4> QED
        BY <4>2, <4>4, <4>5, <4>6 DEF r
    <3>5. /\ TabInv' /\ budget' = budget /\ ~(net'["activate"].phase = "sent")
      <4> DEFINE none == {}
      <4>1. none \in SUBSET (Token \cup {NoToken}) /\ none = {}
        OBVIOUS
      <4>2. Answers(k, Answer(TRUE, u, "none", none))
        BY <2>4 DEF Success
      <4>3. net[k].cookie \in Token /\ u.owner = net[k].cookie.owner
        BY <2>2, <3>4 DEF a
      <4> HIDE DEF none, u
      <4> QED
        BY <2>1, <3>4, <4>1, <4>2, <4>3, AnswersKeepTab
    <3> HIDE DEF u
    <3>6. ServerSound'
      BY <2>4, <3>3, <3>5 DEF ServerSound
    <3>7. ChangesCounted'
      <4> SUFFICES ASSUME NEW b \in Account
                   PROVE  account'[b].version <= budget.trouble + budget.clicks
                            + (IF payment.status = "succeeded" THEN 1 ELSE 0)
        BY <2>4, <3>3, <3>5, CountsAreNumbers DEF ChangesCounted, Version
      <4> QED
        BY <3>2, <3>3, <1>n, CountsAreNumbers
    <3> QED
      BY <3>5, <3>6, <3>7
  <2> QED
    BY <1>3, <2>3, <2>4 DEF ServeActivate
<1>4. CASE ServePassword
  <2> DEFINE k == "password"
             a == net[k].cookie.owner
             t == Fresh(a)
  <2>1. k \in Kind /\ Valid(k)
    BY <1>4 DEF Kind, Mutation, ServePassword
  <2>2. net[k].cookie \in Token /\ a \in Account
    BY <2>1, SessionOwner
  <2>3. CASE Answers(k, Failure) /\ UNCHANGED server
    BY <1>f, <2>1, <2>3
  <2>4. CASE /\ Issues(a, t, {s \in sessions : s.owner # a})
             /\ Answers(k, Answer(TRUE, Read(a), "none", {t}))
             /\ UNCHANGED <<account, payment>>
    <3>1. /\ t \in Token /\ t.owner = a /\ issued + 1 \in 1..MaxTokens
          /\ Read(a) \in User /\ Read(a).owner = a
      BY <2>2, <2>4, FreshType, ReadType DEF Issues
    <3>2. a = net[k].cookie.owner
      OBVIOUS
    <3> HIDE DEF t, a
    <3>3. /\ TabInv' /\ budget' = budget
          /\ net'["activate"].phase = "sent" => net["activate"].phase = "sent"
      <4>1. Answers(k, Answer(TRUE, Read(a), "none", {t})) /\ k \in {"login", "password"}
        BY <2>4
      <4>2. {t} \in SUBSET (Token \cup {NoToken}) /\ \E v \in Token : {t} = {v} /\ v.owner = Read(a).owner
        BY <3>1
      <4> HIDE DEF k
      <4> QED
        BY <2>1, <2>2, <3>1, <3>2, <4>1, <4>2, AnswersKeepTab
    <3>4. ServerSound'
      BY <2>4, <3>1, <3>3 DEF ServerSound, Issues
    <3>5. ChangesCounted'
      BY <1>n, <2>4, <3>3, CountsHold
    <3> QED
      BY <3>3, <3>4, <3>5
  <2> QED
    BY <1>4, <2>3, <2>4 DEF ServePassword
<1>5. ASSUME NEW paid \in {"none", "pending", "succeeded"},
             Answers("poll", Answer(TRUE, NoUser, paid, {}))
      PROVE  /\ TabInv' /\ budget' = budget
             /\ net'["activate"].phase = "sent" => net["activate"].phase = "sent"
  <2> DEFINE none == {}
             k == "poll"
  <2>1. none \in SUBSET (Token \cup {NoToken}) /\ none = {}
    OBVIOUS
  <2>2. k \in Kind /\ k \notin {"initialize", "login"} \cup Mutation /\ k \in {"logout", "poll"}
    BY DEF Kind, Mutation
  <2>3. Answers(k, Answer(TRUE, NoUser, paid, none))
    BY <1>5
  <2> HIDE DEF none, k
  <2> QED
    BY <2>1, <2>2, <2>3, AnswersKeepTab
<1>6. CASE ServePoll
  <2>1. CASE Answers("poll", Failure) /\ UNCHANGED server
    BY <1>f, <2>1 DEF Kind
  <2>2. CASE /\ Credit
             /\ Answers("poll", Answer(TRUE, NoUser, "succeeded", {}))
             /\ UNCHANGED <<sessions, issued>>
    <3>1. /\ TabInv' /\ budget' = budget
          /\ net'["activate"].phase = "sent" => net["activate"].phase = "sent"
      BY <1>5, <2>2
    <3> QED
      BY <2>2, <3>1, CreditKeepsServer
  <2>3. CASE /\ Answers("poll", Answer(TRUE, NoUser,
                  IF payment.status = "succeeded" THEN "succeeded" ELSE "pending", {}))
             /\ UNCHANGED server
    <3> DEFINE paid == IF payment.status = "succeeded" THEN "succeeded" ELSE "pending"
    <3>1. paid \in {"none", "pending", "succeeded"}
      OBVIOUS
    <3> HIDE DEF paid
    <3>2. /\ TabInv' /\ budget' = budget
          /\ net'["activate"].phase = "sent" => net["activate"].phase = "sent"
      BY <1>5, <2>3, <3>1 DEF paid
    <3> QED
      BY <1>s, <2>3, <3>2
  <2> QED
    BY <1>6, <2>1, <2>2, <2>3 DEF ServePoll
<1>7. ASSUME NEW k \in Kind, Refuse(k)
      PROVE  ServerSound' /\ ChangesCounted' /\ TabInv'
  BY <1>7, <1>f DEF Refuse
<1>8. ASSUME NEW k \in Kind, ServeRead(k)
      PROVE  ServerSound' /\ ChangesCounted' /\ TabInv'
  <2> DEFINE a == net[k].cookie.owner
             none == {}
  <2>1. /\ k \in {"initialize", "refresh"} \cup Key /\ Valid(k) /\ UNCHANGED server
        /\ Answers(k, Answer(TRUE, Read(a), "none", none))
    BY <1>8 DEF ServeRead, Success
  <2>2. k \notin {"login", "logout", "poll", "password"}
    BY <2>1 DEF Key
  <2>3. net[k].cookie \in Token /\ a \in Account /\ a = net[k].cookie.owner
    BY <2>1, SessionOwner
  <2>4. Read(a) \in User /\ Read(a).owner = a
    BY <2>3, ReadType
  <2>5. none \in SUBSET (Token \cup {NoToken}) /\ none = {}
    OBVIOUS
  <2> HIDE DEF none, a
  <2>6. /\ TabInv' /\ budget' = budget
        /\ net'["activate"].phase = "sent" => net["activate"].phase = "sent"
    BY <2>1, <2>2, <2>3, <2>4, <2>5, AnswersKeepTab
  <2> QED
    BY <1>s, <2>1, <2>6
<1> QED
  BY <1>1, <1>2, <1>3, <1>4, <1>6, <1>7, <1>8 DEF Serve

-----------------------------------------------------------------------------
(* The other steps. *)

LEMMA InvParts == Inv <=> ServerSound /\ ChangesCounted /\ TabInv
BY DEF Inv, TabInv

\* The tab is untouched.
LEMMA TabUntouched ==
  ASSUME TabInv, UNCHANGED <<cookie, store, page, cache, result, net, crossed>>
  PROVE  TabInv'
<1>1. TabSound'
  BY DEF TabInv, TabSound
<1>2. NetSound'
  BY DEF TabInv, NetSound
<1>3. CheckSound'
  BY DEF TabInv, CheckSound, InFlight
<1>4. SessionsFollow'
  BY DEF TabInv, SessionsFollow, InFlight
<1>5. NoIdleSkeleton'
  BY DEF TabInv, NoIdleSkeleton, Observed, InFlight
<1> QED
  BY <1>1, <1>2, <1>3, <1>4, <1>5 DEF TabInv

\* Only what the bounds count may have grown.
LEMMA ServerUntouched ==
  ASSUME ServerSound, ChangesCounted, UNCHANGED server,
         budget' \in [clicks: 0..MaxClicks, trouble: 0..MaxTrouble],
         budget'.clicks + budget'.trouble >= budget.clicks + budget.trouble,
         net'["activate"].phase = "sent" =>
           \/ net["activate"].phase = "sent"
           \/ budget'.clicks + budget'.trouble >= budget.clicks + budget.trouble + 1
  PROVE  ServerSound' /\ ChangesCounted'
<1>1. ServerSound'
  BY DEF ServerSound, server
<1>2. budget'.clicks \in Nat /\ budget'.trouble \in Nat
  BY BrowserAssumption
<1>3. account' = account /\ payment' = payment
  BY DEF server
<1>4. ChangesCounted'
  BY <1>2, <1>3, CountsHold
<1> QED
  BY <1>1, <1>4

LEMMA BudgetSpent ==
  ASSUME ServerSound
  PROVE  /\ Clicks \/ Troubles =>
              /\ budget' \in [clicks: 0..MaxClicks, trouble: 0..MaxTrouble]
              /\ budget'.clicks + budget'.trouble = budget.clicks + budget.trouble + 1
         /\ Troubles => budget'.trouble = budget.trouble + 1 /\ budget'.clicks = budget.clicks
         /\ budget' = budget =>
              /\ budget' \in [clicks: 0..MaxClicks, trouble: 0..MaxTrouble]
              /\ budget'.clicks + budget'.trouble = budget.clicks + budget.trouble
<1>1. /\ budget \in [clicks: 0..MaxClicks, trouble: 0..MaxTrouble]
      /\ MaxClicks \in Nat /\ MaxTrouble \in Nat
  BY BrowserAssumption DEF ServerSound
<1>2. ASSUME Clicks
      PROVE  /\ budget' \in [clicks: 0..MaxClicks, trouble: 0..MaxTrouble]
             /\ budget'.clicks + budget'.trouble = budget.clicks + budget.trouble + 1
  <2>1. budget.clicks + 1 \in 0..MaxClicks
    BY <1>1, <1>2 DEF Clicks
  <2>2. budget' = [budget EXCEPT !.clicks = budget.clicks + 1]
    BY <1>2 DEF Clicks
  <2> QED
    BY <1>1, <2>1, <2>2
<1>3. ASSUME Troubles
      PROVE  /\ budget' \in [clicks: 0..MaxClicks, trouble: 0..MaxTrouble]
             /\ budget'.clicks + budget'.trouble = budget.clicks + budget.trouble + 1
             /\ budget'.trouble = budget.trouble + 1 /\ budget'.clicks = budget.clicks
  <2>1. budget.trouble + 1 \in 0..MaxTrouble
    BY <1>1, <1>3 DEF Troubles
  <2>2. budget' = [budget EXCEPT !.trouble = budget.trouble + 1]
    BY <1>3 DEF Troubles
  <2> QED
    BY <1>1, <2>1, <2>2
<1> QED
  BY <1>1, <1>2, <1>3

LEMMA InitIsSound == Init => Inv
<1> SUFFICES ASSUME Init PROVE ServerSound /\ ChangesCounted /\ TabInv
  BY InvParts
<1>1. ServerSound
  <2>1. 0 \in Version /\ 1 \in 1..MaxTokens /\ 0 \in 0..MaxClicks /\ 0 \in 0..MaxTrouble
    BY BrowserAssumption DEF Version
  <2>2. account \in [Account -> [version: Version, status: Status]]
    BY <2>1 DEF Init, Status
  <2>3. [owner |-> Payer, n |-> 1] \in Token
    BY <2>1, BrowserAssumption DEF Token
  <2> QED
    BY <2>1, <2>2, <2>3 DEF Init, ServerSound
<1>2. net = [[k \in Kind |-> Idle] EXCEPT !["initialize"] = Sent(cookie, NoUser)]
  BY DEF Init
<1>3. /\ cookie \in Token \cup {NoToken}
      /\ store = [status |-> "checking", user |-> NoUser]
      /\ page \in {"overview", "payment"}
      /\ cache = [k \in Key |-> NoEntry] /\ result = NoResult /\ crossed = FALSE
  BY <1>1 DEF Init, ServerSound
<1>4. "initialize" \in Kind /\ "activate" \in Kind
  BY DEF Kind, Mutation
<1>5. /\ Sent(cookie, NoUser) \in Request /\ Sent(cookie, NoUser).phase = "sent"
      /\ Sent(cookie, NoUser).cookie = cookie
      /\ RequestSound("initialize", Sent(cookie, NoUser)) /\ \A k \in Kind : RequestSound(k, Idle)
      /\ Idle \in Request /\ Idle.phase = "idle"
  <2>1. Idle \in Request /\ Idle.phase = "idle" /\ \A k \in Kind : RequestSound(k, Idle)
    BY RequestTypes DEF RequestSound
  <2>2. /\ Sent(cookie, NoUser) \in Request /\ Sent(cookie, NoUser).phase = "sent"
        /\ Sent(cookie, NoUser).cookie = cookie
    BY <1>3, RequestTypes
  <2>3. RequestSound("initialize", Sent(cookie, NoUser))
    BY <2>2 DEF RequestSound
  <2> QED
    BY <2>1, <2>2, <2>3
<1>6. /\ net \in [Kind -> Request] /\ net["initialize"] = Sent(cookie, NoUser)
      /\ \A k \in Kind \ {"initialize"} : net[k] = Idle
  BY <1>2, <1>4, <1>5
<1>7. ChangesCounted
  <2>1. net["activate"].phase = "idle"
    BY <1>4, <1>5, <1>6
  <2>2. /\ budget.clicks = 0 /\ budget.trouble = 0
        /\ \A a \in Account : account[a].version = 0
        /\ payment.status = "pending"
    BY DEF Init
  <2> QED
    BY <2>1, <2>2 DEF ChangesCounted
<1>8. TabSound
  <2>1. NoEntry \in [data: User \cup {NoUser}, fresh: BOOLEAN, failed: BOOLEAN]
    BY DEF NoEntry
  <2>2. NoResult \in ResultState
    BY BrowserAssumption DEF NoResult, ResultState
  <2> QED
    BY <1>3, <1>6, <2>1, <2>2 DEF TabSound, StoreState, CacheState
<1>9. NetSound
  BY <1>5, <1>6 DEF NetSound
<1>10. CheckSound
  BY <1>3, <1>5, <1>6 DEF CheckSound, InFlight
<1>11. SessionsFollow
  <2>1. \A k \in Mutation : ~InFlight(k)
    BY <1>5, <1>6, Kinds DEF InFlight
  <2> QED
    BY <1>3, <2>1 DEF SessionsFollow
<1>12. NoIdleSkeleton
  BY <1>3 DEF NoIdleSkeleton, Observed
<1> QED
  BY <1>1, <1>7, <1>8, <1>9, <1>10, <1>11, <1>12 DEF TabInv

\* The program starts anew.
LEMMA LoadingKeepsInv ==
  ASSUME ServerSound, ChangesCounted, TabInv, NEW path \in {"overview", "payment"}, Load(path)
  PROVE  ServerSound' /\ ChangesCounted' /\ TabInv'
<1>1. net' = [[k \in Kind |-> Idle] EXCEPT !["initialize"] = Sent(cookie, NoUser)]
  BY DEF Load
<1>2. /\ cookie' = cookie /\ cookie \in Token \cup {NoToken}
      /\ store' = [status |-> "checking", user |-> NoUser] /\ page' = path
      /\ cache' = [k \in Key |-> NoEntry] /\ result' = NoResult /\ crossed' = FALSE
      /\ UNCHANGED server /\ Troubles
  BY DEF Load, TabInv, TabSound
<1>3. "initialize" \in Kind /\ "activate" \in Kind
  BY DEF Kind, Mutation
<1>4. /\ Idle \in Request /\ Idle.phase = "idle" /\ \A k \in Kind : RequestSound(k, Idle)
      /\ Sent(cookie, NoUser) \in Request /\ Sent(cookie, NoUser).phase = "sent"
      /\ Sent(cookie, NoUser).cookie = cookie
  BY <1>2, RequestTypes DEF RequestSound
<1>5. RequestSound("initialize", Sent(cookie, NoUser))
  BY <1>4 DEF RequestSound
<1>6. /\ net' \in [Kind -> Request] /\ net'["initialize"] = Sent(cookie, NoUser)
      /\ \A k \in Kind \ {"initialize"} : net'[k] = Idle
  BY <1>1, <1>3, <1>4
<1>7. ServerSound' /\ ChangesCounted'
  <2>1. ~(net'["activate"].phase = "sent")
    BY <1>3, <1>4, <1>6
  <2>2. /\ budget' \in [clicks: 0..MaxClicks, trouble: 0..MaxTrouble]
        /\ budget'.clicks + budget'.trouble >= budget.clicks + budget.trouble
    BY <1>2, BudgetSpent, CountsAreNumbers
  <2> QED
    BY <1>2, <2>1, <2>2, ServerUntouched
<1>8. TabSound'
  <2>1. NoEntry \in [data: User \cup {NoUser}, fresh: BOOLEAN, failed: BOOLEAN]
    BY DEF NoEntry
  <2>2. NoResult \in ResultState
    BY BrowserAssumption DEF NoResult, ResultState
  <2> QED
    BY <1>2, <1>6, <2>1, <2>2 DEF TabSound, StoreState, CacheState
<1>9. NetSound'
  BY <1>4, <1>5, <1>6 DEF NetSound
<1>10. CheckSound'
  BY <1>2, <1>4, <1>6 DEF CheckSound, InFlight
<1>11. SessionsFollow'
  <2>1. \A k \in Mutation : net'[k].phase = "idle"
    BY <1>4, <1>6, Kinds
  <2> QED
    BY <1>2, <2>1 DEF SessionsFollow, InFlight
<1>12. NoIdleSkeleton'
  BY <1>2 DEF NoIdleSkeleton, Observed
<1> QED
  BY <1>7, <1>8, <1>9, <1>10, <1>11, <1>12 DEF TabInv

\* A request of the user.
LEMMA SendingKeepsInv ==
  ASSUME ServerSound, ChangesCounted, TabInv, NEW k \in Kind \ {"initialize"},
         NEW a \in Account \cup {NoUser}, k = "login" => a \in Account, Sends(k, a),
         store.status # "checking", k \in Mutation => store.status = "authenticated"
  PROVE  ServerSound' /\ ChangesCounted' /\ TabInv'
<1>1. /\ net' = [net EXCEPT ![k] = Sent(cookie, a)] /\ Clicks /\ UNCHANGED server
      /\ UNCHANGED <<cookie, store, page, cache, result, crossed>>
  BY DEF Sends, server
<1>2. TabInv'
  <2>1. result' \in ResultState
    BY <1>1 DEF TabInv, TabSound
  <2> QED
    BY <1>1, <2>1, SentKeepsTab
<1>3. /\ budget' \in [clicks: 0..MaxClicks, trouble: 0..MaxTrouble]
      /\ budget'.clicks + budget'.trouble = budget.clicks + budget.trouble + 1
  BY <1>1, BudgetSpent
<1>4. budget.clicks \in Nat /\ budget.trouble \in Nat
  BY CountsAreNumbers
<1>5. ServerSound' /\ ChangesCounted'
  BY <1>1, <1>3, <1>4, ServerUntouched
<1> QED
  BY <1>2, <1>5

LEMMA NextKeepsInv ==
  ASSUME ServerSound, ChangesCounted, TabInv, Next
  PROVE  ServerSound' /\ ChangesCounted' /\ TabInv'
<1>n. budget.clicks \in Nat /\ budget.trouble \in Nat
  BY CountsAreNumbers, BrowserAssumption
<1>s. ASSUME UNCHANGED server, budget' = budget,
             net'["activate"].phase = "sent" => net["activate"].phase = "sent"
      PROVE  ServerSound' /\ ChangesCounted'
  <2>1. /\ budget' \in [clicks: 0..MaxClicks, trouble: 0..MaxTrouble]
        /\ budget'.clicks + budget'.trouble >= budget.clicks + budget.trouble
    BY <1>n, <1>s, BudgetSpent
  <2> QED
    BY <1>s, <2>1, ServerUntouched
<1>1. CASE Serve
  BY <1>1, ServingKeepsInv
<1>2. CASE Deliver
  <2>1. UNCHANGED <<server, budget>>
    BY <1>2 DEF Deliver, Others, Initialized, LoggedIn, LoggedOut, Activated, PasswordChanged,
                Polled, Refreshed, Fetched
  <2> QED
    BY <1>2, <1>s, <2>1, DeliveriesKeepTab
<1>3. CASE Transfer
  <2>1. TabInv'
    BY <1>3, TabUntouched DEF Transfer, tab
  <2>2. /\ payment.status = "pending" /\ payment' = [payment EXCEPT !.status = "transferred"]
        /\ UNCHANGED <<account, sessions, issued, budget, net>>
    BY <1>3 DEF Transfer, tab
  <2>3. ServerSound' /\ payment'.status = "transferred"
    BY <2>2 DEF ServerSound
  <2>4. ChangesCounted'
    BY <2>2, <2>3 DEF ChangesCounted
  <2> QED
    BY <2>1, <2>3, <2>4
<1>4. CASE Settle
  <2>1. TabInv'
    BY <1>4, TabUntouched DEF Settle, tab
  <2>2. ServerSound' /\ ChangesCounted'
    BY <1>4, CreditKeepsServer DEF Settle, tab
  <2> QED
    BY <2>1, <2>2
<1>5. ASSUME NEW a \in Account, Elsewhere(a)
      PROVE  ServerSound' /\ ChangesCounted' /\ TabInv'
  <2>1. TabInv' /\ net' = net
    BY <1>5, TabUntouched DEF Elsewhere, tab
  <2>2. /\ budget' \in [clicks: 0..MaxClicks, trouble: 0..MaxTrouble]
        /\ budget'.trouble = budget.trouble + 1 /\ budget'.clicks = budget.clicks
    BY <1>5, BudgetSpent DEF Elsewhere
  <2>3. ASSUME NEW s \in Status, account' = Changed(a, s), UNCHANGED <<sessions, issued, payment>>
        PROVE  ServerSound' /\ ChangesCounted'
    <3>1. \A b \in Account :
            account[b].version + (IF net["activate"].phase = "sent" THEN 1 ELSE 0)
              <= budget.trouble + budget.clicks + (IF payment.status = "succeeded" THEN 1 ELSE 0)
      BY DEF ChangesCounted
    <3>2. budget.trouble + 1 <= MaxTrouble /\ budget.clicks <= MaxClicks
      BY <1>n, <2>2, BrowserAssumption
    <3>3. account[a].version <= MaxTrouble + MaxClicks
      BY <3>1, <3>2, <1>n, CountsAreNumbers
    <3>4. /\ account' \in [Account -> [version: Version, status: Status]]
          /\ account'[a].version = account[a].version + 1
          /\ \A b \in Account : b # a => account'[b] = account[b]
      BY <2>3, <3>3, RowChanged
    <3>5. ServerSound'
      BY <2>2, <2>3, <3>4 DEF ServerSound
    <3>6. ChangesCounted'
      <4> SUFFICES ASSUME NEW b \in Account
                   PROVE  account'[b].version + (IF net["activate"].phase = "sent" THEN 1 ELSE 0)
                            <= budget'.trouble + budget'.clicks
                                 + (IF payment.status = "succeeded" THEN 1 ELSE 0)
        BY <2>1, <2>3 DEF ChangesCounted
      <4>1. account[b].version \in Nat
        BY CountsAreNumbers
      <4>2. account'[b].version = account[b].version \/ account'[b].version = account[b].version + 1
        BY <3>4
      <4> QED
        BY <1>n, <2>2, <3>1, <4>1, <4>2
    <3> QED
      BY <3>5, <3>6
  <2>4. CASE UNCHANGED <<account, issued, payment>> /\ sessions' \subseteq sessions
    <3>1. ServerSound'
      BY <2>2, <2>4 DEF ServerSound
    <3>2. budget'.clicks \in Nat /\ budget'.trouble \in Nat
          /\ budget'.clicks + budget'.trouble >= budget.clicks + budget.trouble
      BY <1>n, <2>2
    <3>3. ChangesCounted'
      BY <2>1, <2>4, <3>2, CountsHold
    <3> QED
      BY <2>1, <3>1, <3>3
  <2> QED
    BY <1>5, <2>1, <2>3, <2>4 DEF Elsewhere
<1>6. ASSUME NEW a \in Account, SubmitLogin(a)
      PROVE  ServerSound' /\ ChangesCounted' /\ TabInv'
  BY <1>6, SendingKeepsInv, Kinds DEF SubmitLogin
<1>7. CASE Logout \/ Activate \/ ChangePassword
  <2> DEFINE k == IF Logout THEN "logout" ELSE IF Activate THEN "activate" ELSE "password"
  <2>1. k \in Kind \ {"initialize"} /\ k # "login"
    BY DEF Kind, Mutation
  <2>2. store.status = "authenticated" /\ Sends(k, NoUser)
    BY <1>7 DEF Logout, Activate, ChangePassword
  <2> HIDE DEF k
  <2> QED
    BY <2>1, <2>2, SendingKeepsInv
<1>8. CASE GoHome
  <2>1. /\ store.status = "authenticated" /\ page = "payment" /\ cookie' = cookie
        /\ Render(store, "overview", cache, net) /\ Clicks
        /\ UNCHANGED server /\ crossed' = crossed
    BY <1>8 DEF GoHome
  <2>2. /\ cookie' \in Token \cup {NoToken} /\ crossed' \in BOOLEAN /\ store \in StoreState
        /\ cache \in CacheState /\ net \in [Kind -> Request]
        /\ \A k \in Kind : RequestSound(k, net[k])
    BY <2>1 DEF TabInv, TabSound, NetSound
  <2>3. net["initialize"].phase = "idle" /\ \A k \in Key : ~Observed(store, page)
    BY <2>1 DEF TabInv, CheckSound, InFlight, Observed
  <2>4. crossed' \/ /\ store.status = "authenticated" /\ cookie' \in Token
                        => store.user.owner = cookie'.owner
                    /\ \A k \in Mutation : net[k].phase # "idle" =>
                         store.status = "authenticated" /\ RequestOf(net[k], store.user.owner)
    BY <2>1 DEF TabInv, SessionsFollow, InFlight
  <2>5. TabInv' /\ \A k \in Kind \ Key : net'[k] = net[k]
    BY <2>1, <2>2, <2>3, <2>4, RenderKeepsTab
  <2>6. net'["activate"].phase = "sent" => net["activate"].phase = "sent"
    BY <2>5 DEF Kind, Mutation, Key
  <2>7. /\ budget' \in [clicks: 0..MaxClicks, trouble: 0..MaxTrouble]
        /\ budget'.clicks + budget'.trouble >= budget.clicks + budget.trouble
    BY <1>n, <2>1, BudgetSpent
  <2> QED
    BY <2>1, <2>5, <2>6, <2>7, ServerUntouched
<1>9. CASE Poll
  <2> DEFINE k == "poll"
             a == IF result.polls < ReconcileWindow THEN Payer ELSE NoUser
             polls == IF result.polls < ReconcileWindow THEN result.polls + 1 ELSE result.polls
  <2>1. /\ store.status = "authenticated" /\ net' = [net EXCEPT ![k] = Sent(cookie, a)]
        /\ result' = [result EXCEPT !.polls = polls]
        /\ UNCHANGED <<server, cookie, store, page, cache, budget, crossed>>
    BY <1>9 DEF Poll
  <2>2. k \in Kind \ {"initialize"} /\ k \notin Mutation /\ k # "login" /\ k # "activate"
    BY DEF Kind, Mutation
  <2>3. a \in Account \cup {NoUser}
    BY BrowserAssumption
  <2>4. result' \in ResultState
    <3>1. result \in ResultState /\ polls \in 0..ReconcileWindow
      BY BrowserAssumption DEF TabInv, TabSound, ResultState
    <3> HIDE DEF polls
    <3> QED
      BY <2>1, <3>1 DEF ResultState
  <2> HIDE DEF k, a
  <2>5. TabInv'
    BY <2>1, <2>2, <2>3, <2>4, SentKeepsTab
  <2>6. net'["activate"] = net["activate"]
    BY <2>1, <2>2, Kinds DEF TabInv, TabSound, Mutation
  <2> QED
    BY <1>s, <2>1, <2>5, <2>6
<1>10. ASSUME NEW k \in Key, Expire(k)
       PROVE  ServerSound' /\ ChangesCounted' /\ TabInv'
  <2>1. /\ cache' = [cache EXCEPT ![k].fresh = FALSE]
        /\ UNCHANGED <<server, cookie, store, page, result, net, budget, crossed>>
    BY <1>10 DEF Expire
  <2>2. cache \in CacheState
    BY DEF TabInv, TabSound
  <2>3. /\ cache' \in CacheState
        /\ \A j \in Key : cache'[j].data = cache[j].data /\ cache'[j].failed = cache[j].failed
    BY <2>1, <2>2 DEF CacheState
  <2>4. TabSound'
    BY <2>1, <2>3 DEF TabInv, TabSound
  <2>5. NetSound'
    BY <2>1 DEF TabInv, NetSound
  <2>6. CheckSound'
    BY <2>1 DEF TabInv, CheckSound, InFlight
  <2>7. SessionsFollow'
    BY <2>1 DEF TabInv, SessionsFollow, InFlight
  <2>8. NoIdleSkeleton'
    BY <2>1, <2>3 DEF TabInv, NoIdleSkeleton, Observed, InFlight
  <2>9. TabInv'
    BY <2>4, <2>5, <2>6, <2>7, <2>8 DEF TabInv
  <2> QED
    BY <1>s, <2>1, <2>9
<1>11. ASSUME NEW k \in Key, Focus(k)
       PROVE  ServerSound' /\ ChangesCounted' /\ TabInv'
  <2>1. /\ store.status = "authenticated" /\ net' = [net EXCEPT ![k] = Sent(cookie, NoUser)]
        /\ UNCHANGED <<server, cookie, store, page, cache, result, budget, crossed>>
    BY <1>11 DEF Focus, Observed
  <2>2. /\ k \in Kind \ {"initialize"} /\ k \notin Mutation /\ k # "login" /\ k # "activate"
        /\ "activate" \in Kind
    BY Kinds DEF Kind, Mutation
  <2>3. result' \in ResultState
    BY <2>1 DEF TabInv, TabSound
  <2>4. TabInv'
    BY <2>1, <2>2, <2>3, SentKeepsTab
  <2>5. net'["activate"] = net["activate"]
    BY <2>1, <2>2 DEF TabInv, TabSound
  <2> QED
    BY <1>s, <2>1, <2>4, <2>5
<1>12. ASSUME NEW k \in Kind, Lose(k)
       PROVE  ServerSound' /\ ChangesCounted' /\ TabInv'
  <2>1. /\ InFlight(k) /\ net' = [net EXCEPT ![k] = Failure] /\ Troubles /\ UNCHANGED server
        /\ UNCHANGED <<cookie, store, page, cache, result, crossed>>
    BY <1>12 DEF Lose, server
  <2>2. /\ Failure \in Request /\ Failure.phase = "answered" /\ ~Failure.ok
        /\ RequestSound(k, Failure)
    BY PlainAnswers
  <2>3. TabInv'
    BY <2>1, <2>2, AnsweredKeepsTab
  <2>4. net'["activate"].phase = "sent" => net["activate"].phase = "sent"
    BY <2>1, <2>2 DEF TabInv, TabSound, Kind, Mutation
  <2>5. /\ budget' \in [clicks: 0..MaxClicks, trouble: 0..MaxTrouble]
        /\ budget'.clicks + budget'.trouble >= budget.clicks + budget.trouble
    BY <1>n, <2>1, BudgetSpent
  <2> QED
    BY <2>1, <2>3, <2>4, <2>5, ServerUntouched
<1>13. ASSUME NEW path \in {"overview", "payment"}, Load(path)
       PROVE  ServerSound' /\ ChangesCounted' /\ TabInv'
  BY <1>13, LoadingKeepsInv
<1> QED
  BY <1>1, <1>2, <1>3, <1>4, <1>5, <1>6, <1>7, <1>8, <1>9, <1>10, <1>11, <1>12, <1>13 DEF Next

-----------------------------------------------------------------------------
(* Theorems. *)

\* The inductive invariant, for any accounts and any bounds: one check of the session at
\* a time, requests and answers of the account that is shown, and changes that are paid for.
THEOREM Invariance == Spec => []Inv
<1>1. Inv /\ [Next]_vars => Inv'
  <2> SUFFICES ASSUME Inv, [Next]_vars PROVE Inv'
    OBVIOUS
  <2>1. ServerSound /\ ChangesCounted /\ TabInv
    BY InvParts
  <2>2. CASE Next
    <3>1. ServerSound' /\ ChangesCounted' /\ TabInv'
      BY <2>1, <2>2, NextKeepsInv
    <3> QED
      BY <3>1 DEF Inv, TabInv
  <2>3. CASE UNCHANGED vars
    <3>1. TabInv'
      BY <2>1, <2>3, TabUntouched DEF vars
    <3>2. ServerSound'
      BY <2>1, <2>3 DEF vars, ServerSound
    <3>3. ChangesCounted'
      BY <2>1, <2>3 DEF vars, ChangesCounted
    <3> QED
      BY <3>1, <3>2, <3>3 DEF Inv, TabInv
  <2> QED
    BY <2>2, <2>3
<1> QED
  BY <1>1, InitIsSound, PTL DEF Spec

\* Every request, answer, route and entry of the cache is of its type, the login page is
\* shown exactly while the tab is signed out, and no bound is exceeded.
THEOREM TypeCorrect == Spec => []TypeOK
<1>1. Inv => TypeOK
  BY BrowserAssumption
  DEF Inv, ServerSound, TabSound, TypeOK, StoreState, CacheState, ResultState
<1> QED
  BY <1>1, Invariance, PTL

\* The panel of an active account has data, an error to retry, or a fetch that runs,
\* whatever sign-ins, page changes and answers have come before.
THEOREM PanelIsFetched == Spec => []NoIdleSkeleton
<1>1. Inv => NoIdleSkeleton
  BY DEF Inv
<1> QED
  BY <1>1, Invariance, PTL

\* Whoever is shown owns the session of the next request, unless an answer of an older
\* session came in after a sign-in or a sign-out.
THEOREM StoreNamesOwner == Spec => []SignedInAsShown
<1>1. Inv => SignedInAsShown
  BY DEF Inv, ServerSound, SessionsFollow, SignedInAsShown
<1> QED
  BY <1>1, Invariance, PTL
=============================================================================
