------------------------------ MODULE Sessions ------------------------------
(* A browser session, across the page (the boot hook of the web application, *)
(* its marker in localStorage and the cached onboarding status), the cookie  *)
(* jar, the gateway and OpenPath, which issues and checks the tokens.        *)
(* A call is one step when the page sends it and one when its answer arrives *)
(* or it fails; the calls of a page overlap.                                 *)
EXTENDS Tenants, Naturals, FiniteSets

CONSTANTS
  InitialPlaces, \* the organizations users may belong to at first, or None
  Modes,        \* how the page may be displayed: "web", "app" (installed)
  Slots,        \* the calls a page may have under way at once
  Tokens,       \* names of token pairs
  Events,       \* what happens around the session in this instance
  MaxEvents,    \* and how often
  MaxFailed     \* calls that OpenPath or the network fails

SessionsAssumption ==
  /\ InitialPlaces \subseteq Orgs \union {None}
  /\ Modes \subseteq {"web", "app"}
  /\ Events \subseteq {"day", "token", "invitation", "admission", "reload"}
  /\ IsFiniteSet(Slots) /\ IsFiniteSet(Tokens)
  /\ Cardinality(Tokens) > 2 * Cardinality(Slots) + 3
  /\ None \notin Users \union Orgs /\ None \notin Tokens /\ None \notin Modes
  /\ MaxEvents \in Nat /\ MaxFailed \in Nat

VARIABLES
  tokens,   \* OpenPath: the user of each pair, whether its access and its refresh token are good
  place,    \* the organization each user belongs to
  invited,  \* the organization that invites each user
  cookies,  \* the jar: the pair of the access cookie, of the refresh cookie, their mode and age
  marker,   \* localStorage says there is a session
  boot,     \* the reducer's state
  query,    \* the cached onboarding status
  calls,    \* the calls under way
  mode, events, failed

sessionVars == <<tokens, place, invited, cookies, marker, boot, query, calls, mode, events, failed>>
server == <<tokens, place, invited>>
page == <<marker, boot, query>>

Jar == [access : Tokens \union {None}, refresh : Tokens \union {None}, mode : Modes \union {None}, age : 0 .. 2]
EmptyJar == [access |-> None, refresh |-> None, mode |-> None, age |-> 0]

\* The status the page shows: whose it is, their organization and whether what it
\* has paid for gives access, their invitation.
Status == [user : Users, org : Orgs \union {None}, entitled : BOOLEAN, invitation : Orgs \union {None}]

\* pendingInvitation.requiresMigration, and the key the page remembers it by.
Migrates(s) == s.org # None
InvitationKey(s) == IF s = None \/ s.invitation = None THEN None
                    ELSE [org |-> s.invitation, migrates |-> Migrates(s)]
Keys == [org : Orgs, migrates : BOOLEAN]

Call == [kind : {"login", "refresh", "retry", "me", "accept", "logout"},
         user : Users \union {None}, access : Tokens \union {None}, refresh : Tokens \union {None}]

SessionTypeOK ==
  /\ tokens \in [Tokens -> {None} \union [user : Users, access : BOOLEAN, refresh : BOOLEAN]]
  /\ place \in [Users -> Orgs \union {None}] /\ invited \in [Users -> Orgs \union {None}]
  /\ cookies \in Jar /\ marker \in BOOLEAN /\ mode \in Modes
  /\ boot \in [isAuth : BOOLEAN, accepting : BOOLEAN, autoKey : Keys \union {None},
               synced : BOOLEAN, attempted : BOOLEAN, refreshing : BOOLEAN, timedOut : BOOLEAN]
  /\ query \in [data : Status \union {None}, error : {"none", "unauthorized", "other"},
                fetch : {None} \union [access : Tokens \union {None}]]
  /\ calls \in [Slots -> Call \union {None}]
  /\ events \in 0 .. MaxEvents /\ failed \in 0 .. MaxFailed

UnderWay == {c \in Slots : calls[c] # None}

FreshBoot(isAuth) == [isAuth |-> isAuth, accepting |-> FALSE, autoKey |-> None, synced |-> FALSE,
                      attempted |-> FALSE, refreshing |-> FALSE, timedOut |-> FALSE]

SessionInit ==
  /\ tokens = [t \in Tokens |-> None]
  /\ place \in [Users -> InitialPlaces] /\ invited = [u \in Users |-> None]
  /\ cookies = EmptyJar /\ marker = FALSE /\ mode \in Modes
  /\ boot = FreshBoot(FALSE)
  /\ query = [data |-> None, error |-> "none", fetch |-> None]
  /\ calls = [c \in Slots |-> None]
  /\ events = 0 /\ failed = 0

-----------------------------------------------------------------------------
(* OpenPath and the gateway *)

\* A pair nobody holds any more, which OpenPath may issue under the same name.
Held == {cookies.access, cookies.refresh}
        \union {calls[c].access : c \in UnderWay} \union {calls[c].refresh : c \in UnderWay}
        \union (IF query.fetch = None THEN {} ELSE {query.fetch.access})
NewPair == CHOOSE t \in Tokens : t \notin Held

Issued(u) == [t \in Tokens |-> IF t = NewPair THEN [user |-> u, access |-> TRUE, refresh |-> TRUE]
                               ELSE IF t \in Held THEN tokens[t] ELSE None]

AccessIsGood(t) == t # None /\ tokens[t] # None /\ tokens[t].access
RefreshIsGood(t) == t # None /\ tokens[t] # None /\ tokens[t].refresh

\* The days each cookie lives, with 2 for the 30 of an installed application.
AccessMaxAge == 1
RefreshMaxAge(m) == IF m = "app" THEN 2 ELSE 1

\* The session cookies of a pair are set in one response, all three of them.
SetSessionCookies(t, m) == [access |-> t, refresh |-> t, mode |-> m, age |-> 0]

\* A refreshed session is always one of a browser.
RefreshModeWeb(asked) == "web"

\* The mode of a refreshed session: what the page says, else what its cookie says.
RefreshMode(asked) == IF asked # None THEN asked ELSE IF cookies.mode # None THEN cookies.mode ELSE "web"

\* protectedProcedure: a call of a user whose access token OpenPath accepts.
\* OpenPath rejects a token, or cannot be asked, before the procedure runs.
Protected(access, down) ==
  IF access = None THEN "unauthorized"
  ELSE IF down THEN "other"
  ELSE IF AccessIsGood(access) THEN "none" ELSE "unauthorized"

\* Billing says at each moment whether an organization is entitled.
StatusOf(u, entitled) ==
  [user |-> u, org |-> place[u], entitled |-> place[u] # None /\ entitled,
   invitation |-> IF invited[u] = place[u] THEN None ELSE invited[u]]

-----------------------------------------------------------------------------
(* The page *)

\* The resets of the refresh's effect are lost: one refresh for the life of the page.
SettledOnce(b, q) ==
  [b EXCEPT !.synced = @ /\ b.isAuth,
            !.timedOut = @ /\ b.isAuth /\ q.data = None /\ q.error = "none"]

\* The reducer's resets, which the effects dispatch as soon as they apply.
Settled(b, q) ==
  [b EXCEPT !.synced = @ /\ b.isAuth,
            !.attempted = @ /\ b.isAuth /\ q.error # "none",
            !.timedOut = @ /\ b.isAuth /\ q.data = None /\ q.error = "none"]

Page(m, b, q) == marker' = m /\ boot' = Settled(b, q) /\ query' = q

\* A fetch of the status with the cookies of the moment: with nothing cached it
\* joins the fetch under way and clears the error, otherwise it starts anew.
Refetched(q, access) ==
  IF q.data = None
  THEN [q EXCEPT !.error = "none", !.fetch = IF @ = None THEN [access |-> access] ELSE @]
  ELSE [q EXCEPT !.fetch = [access |-> access]]

SessionCleared(b) == [b EXCEPT !.isAuth = FALSE, !.timedOut = FALSE, !.synced = FALSE,
                               !.attempted = FALSE, !.refreshing = FALSE]

Send(kind, u) ==
  \E c \in Slots :
    /\ calls[c] = None
    /\ calls' = [calls EXCEPT ![c] = [kind |-> kind, user |-> u,
                                      access |-> cookies.access, refresh |-> cookies.refresh]]

Loading == boot.isAuth /\ query.data = None /\ query.error = "none"
ErrorCard == boot.isAuth /\ query.data = None /\ query.error # "none"
Offered == boot.isAuth /\ query.data # None /\ ~boot.accepting /\ query.data.invitation # None
TransferCard == Offered /\ Migrates(query.data)
Inside == boot.isAuth /\ query.data # None /\ ~boot.accepting /\ ~TransferCard
Onboarding == Inside /\ ~query.data.entitled
Shell == Inside /\ query.data.entitled

\* The form takes no second press while a login is under way.
LogIn(u) ==
  /\ ~boot.isAuth /\ (\A c \in UnderWay : calls[c].kind # "login") /\ Send("login", u)
  /\ UNCHANGED <<server, cookies, page, mode, events, failed>>

LoadingTimesOut ==
  /\ Loading /\ ~boot.timedOut
  /\ boot' = [boot EXCEPT !.timedOut = TRUE]
  /\ UNCHANGED <<server, cookies, marker, query, calls, mode, events, failed>>

Retry ==
  /\ (Loading /\ boot.timedOut) \/ ErrorCard
  /\ Page(marker, [boot EXCEPT !.timedOut = FALSE], Refetched(query, cookies.access))
  /\ UNCHANGED <<server, cookies, calls, mode, events, failed>>

\* "Back to login", and "Log out" of those without an organization or of one that
\* is not entitled: this page only.
LogOutToLogin ==
  /\ (Loading /\ boot.timedOut) \/ ErrorCard \/ Onboarding
  /\ Page(FALSE, SessionCleared(boot), query)
  /\ UNCHANGED <<server, cookies, calls, mode, events, failed>>

LogOutForBilling ==
  /\ boot.isAuth /\ Send("logout", None)
  /\ UNCHANGED <<server, cookies, page, mode, events, failed>>

ShouldRunOnboardingSessionRefresh ==
  boot.isAuth /\ query.error = "unauthorized" /\ ~boot.attempted /\ ~boot.refreshing

RefreshOnboardingSession ==
  /\ ShouldRunOnboardingSessionRefresh /\ Send("refresh", None)
  /\ boot' = [boot EXCEPT !.attempted = TRUE, !.refreshing = TRUE]
  /\ UNCHANGED <<server, cookies, marker, query, mode, events, failed>>

\* The panel's own calls to OpenPath came back unauthorized.
RefreshForPanel ==
  /\ Shell /\ ~AccessIsGood(cookies.access) /\ Send("retry", None)
  /\ \A c \in UnderWay : calls[c].kind # "retry"
  /\ UNCHANGED <<server, cookies, page, mode, events, failed>>

ShouldSyncAuthenticatedProfile ==
  boot.isAuth /\ query.data # None /\ query.data.org # None /\ ~boot.synced

SyncAuthenticatedProfile ==
  /\ ShouldSyncAuthenticatedProfile /\ Send("me", None)
  /\ boot' = [boot EXCEPT !.synced = TRUE]
  /\ UNCHANGED <<server, cookies, marker, query, mode, events, failed>>

\* The page accepts a new invitation without waiting for the acceptance under way.
ShouldAutoAcceptAtOnce ==
  /\ boot.isAuth /\ query.data # None /\ query.data.invitation # None
  /\ ~Migrates(query.data)
  /\ boot.autoKey # InvitationKey(query.data)

ShouldAutoAcceptPendingInvitation ==
  /\ boot.isAuth /\ query.data # None /\ query.data.invitation # None
  /\ ~Migrates(query.data)
  /\ boot.autoKey # InvitationKey(query.data) /\ ~boot.accepting

AutoAcceptPendingInvitation ==
  /\ ShouldAutoAcceptPendingInvitation /\ Send("accept", None)
  /\ boot' = [boot EXCEPT !.autoKey = InvitationKey(query.data), !.accepting = TRUE]
  /\ UNCHANGED <<server, cookies, marker, query, mode, events, failed>>

AcceptTransfer ==
  /\ TransferCard /\ Send("accept", None)
  /\ boot' = [boot EXCEPT !.accepting = TRUE]
  /\ UNCHANGED <<server, cookies, marker, query, mode, events, failed>>

-----------------------------------------------------------------------------
(* Answers *)

MayBeDown(down) == down = FALSE \/ failed < MaxFailed
Counted(down) == failed' = IF down THEN failed + 1 ELSE failed

AnswerStatus(down) ==
  /\ query.fetch # None /\ MayBeDown(down) /\ Counted(down)
  /\ LET access == query.fetch.access
         verdict == Protected(access, down)
     IN \E entitled \in BOOLEAN :
        Page(marker, boot,
             IF verdict = "none"
             THEN [data |-> StatusOf(tokens[access].user, entitled), error |-> "none", fetch |-> None]
             ELSE [query EXCEPT !.error = verdict, !.fetch = None])
  /\ UNCHANGED <<server, cookies, calls, mode, events>>

Answered(c, kind) == calls[c] # None /\ calls[c].kind = kind /\ calls' = [calls EXCEPT ![c] = None]

\* onAuthenticated: the cookies, the marker, and a status for the new session.
AnswerLogIn(c, down) ==
  /\ Answered(c, "login") /\ MayBeDown(down) /\ Counted(down)
  /\ IF down
     THEN UNCHANGED <<tokens, cookies, page>>
     ELSE /\ tokens' = Issued(calls[c].user)
          /\ cookies' = SetSessionCookies(NewPair, mode)
          /\ Page(TRUE, [boot EXCEPT !.isAuth = TRUE], Refetched(query, NewPair))
  /\ UNCHANGED <<place, invited, mode, events>>

\* auth.refresh. OpenPath may take back the refresh token it has exchanged.
Refreshes(t, asked) ==
  /\ \E spent \in BOOLEAN :
       tokens' = [Issued(tokens[t].user) EXCEPT ![t].refresh = ~spent]
  /\ cookies' = SetSessionCookies(NewPair, RefreshMode(asked))

RefreshFails(c, down) == down \/ ~RefreshIsGood(calls[c].refresh)

AnswerRefresh(c, down) ==
  /\ Answered(c, "refresh") /\ MayBeDown(down) /\ Counted(down)
  /\ IF RefreshFails(c, down)
     THEN /\ Page(FALSE, SessionCleared(boot), query)
          /\ UNCHANGED <<tokens, cookies>>
     ELSE /\ Refreshes(calls[c].refresh, mode)
          /\ Page(TRUE, [boot EXCEPT !.isAuth = TRUE, !.timedOut = FALSE, !.refreshing = FALSE],
                  Refetched(query, NewPair))
  /\ UNCHANGED <<place, invited, mode, events>>

\* The panel's refresh leaves the page as it is when it fails.
AnswerPanelRefresh(c, down) ==
  /\ Answered(c, "retry") /\ MayBeDown(down) /\ Counted(down)
  /\ IF RefreshFails(c, down)
     THEN UNCHANGED <<tokens, cookies, page>>
     ELSE Refreshes(calls[c].refresh, mode) /\ Page(TRUE, boot, query)
  /\ UNCHANGED <<place, invited, mode, events>>

AnswerProfile(c, down) ==
  /\ Answered(c, "me") /\ MayBeDown(down) /\ Counted(down)
  /\ Page(marker \/ Protected(calls[c].access, down) = "none", boot, query)
  /\ UNCHANGED <<server, cookies, mode, events>>

\* acceptPendingInvitation takes whatever invitation its user has by then. The
\* answer may be lost after it is done.
AnswerAcceptance(c, down) ==
  /\ Answered(c, "accept") /\ MayBeDown(down) /\ Counted(down)
  /\ LET access == calls[c].access
         u == tokens[access].user
         accepts == access # None /\ AccessIsGood(access) /\ invited[u] # None
     IN /\ \/ accepts /\ place' = [place EXCEPT ![u] = invited[u]] /\ invited' = [invited EXCEPT ![u] = None]
           \/ (down \/ ~accepts) /\ UNCHANGED <<place, invited>>
        /\ IF ~down /\ accepts
           THEN Page(TRUE, [boot EXCEPT !.accepting = FALSE, !.timedOut = FALSE], Refetched(query, cookies.access))
           ELSE Page(marker, [boot EXCEPT !.accepting = FALSE], query)
  /\ UNCHANGED <<tokens, cookies, mode, events>>

\* auth.logout: once past protectedProcedure it clears the cookies, whether or
\* not OpenPath then revokes the tokens.
LogoutClears(c, down) == Protected(calls[c].access, down) = "none"

AnswerLogOut(c, down, revokes) ==
  /\ Answered(c, "logout") /\ MayBeDown(down) /\ Counted(down)
  /\ IF LogoutClears(c, down)
     THEN /\ cookies' = EmptyJar
          /\ tokens' = IF revokes
                       THEN [tokens EXCEPT ![calls[c].access].access = FALSE, ![calls[c].access].refresh = FALSE]
                       ELSE tokens
     ELSE UNCHANGED <<cookies, tokens>>
  /\ Page(FALSE, SessionCleared(boot), query)
  /\ UNCHANGED <<place, invited, mode, events>>

-----------------------------------------------------------------------------
(* Around the session *)

Event(e) == e \in Events /\ events < MaxEvents /\ events' = events + 1

DayPasses ==
  /\ Event("day") /\ cookies # EmptyJar /\ cookies.age < 2
  /\ LET age == cookies.age + 1
         kept == age < RefreshMaxAge(cookies.mode)
     IN cookies' = IF kept THEN [cookies EXCEPT !.age = age,
                                                !.access = IF age < AccessMaxAge THEN @ ELSE None]
                   ELSE EmptyJar
  /\ UNCHANGED <<server, page, calls, mode, failed>>

\* OpenPath's own clock or an administrator ends a token.
TokenEnds(t) ==
  /\ Event("token") /\ t \in Held /\ tokens[t] # None
  /\ \E a, r \in BOOLEAN :
       /\ tokens' = [tokens EXCEPT ![t].access = @ /\ a, ![t].refresh = @ /\ r]
       /\ tokens' # tokens
  /\ UNCHANGED <<place, invited, cookies, page, calls, mode, failed>>

\* A new invitation, which is the one that counts if there was another.
Invited(u, o) ==
  /\ Event("invitation") /\ o \notin {invited[u], place[u]}
  /\ invited' = [invited EXCEPT ![u] = o]
  /\ UNCHANGED <<tokens, place, cookies, page, calls, mode, failed>>

Admitted(u, o) ==
  /\ Event("admission") /\ place[u] = None
  /\ place' = [place EXCEPT ![u] = o]
  /\ UNCHANGED <<tokens, invited, cookies, page, calls, mode, failed>>

\* The page is loaded anew: it starts from the marker, and the answers it waited
\* for are dropped.
Reload ==
  /\ Event("reload")
  /\ boot' = FreshBoot(marker) /\ UNCHANGED marker
  /\ query' = [data |-> None, error |-> "none",
               fetch |-> IF marker THEN [access |-> cookies.access] ELSE None]
  /\ calls' = [c \in Slots |-> None]
  /\ UNCHANGED <<server, cookies, mode, failed>>

Effects == RefreshOnboardingSession \/ SyncAuthenticatedProfile \/ AutoAcceptPendingInvitation

AnyAnswerStatus == \E down \in BOOLEAN : AnswerStatus(down)

Answer(c) ==
  \E down \in BOOLEAN :
    \/ AnswerLogIn(c, down) \/ AnswerRefresh(c, down) \/ AnswerPanelRefresh(c, down)
    \/ AnswerProfile(c, down) \/ AnswerAcceptance(c, down)
    \/ \E revokes \in BOOLEAN : AnswerLogOut(c, down, revokes)

\* React runs the effects of a state before it handles the user's next event.
EffectsHaveRun ==
  ~(ShouldRunOnboardingSessionRefresh \/ ShouldSyncAuthenticatedProfile \/ ShouldAutoAcceptPendingInvitation)

Presses ==
  /\ EffectsHaveRun
  /\ \/ \E u \in Users : LogIn(u)
     \/ LoadingTimesOut \/ Retry \/ LogOutToLogin \/ LogOutForBilling \/ AcceptTransfer \/ RefreshForPanel

Around ==
  \/ DayPasses \/ Reload
  \/ \E t \in Tokens : TokenEnds(t)
  \/ \E u \in Users, o \in Orgs : Invited(u, o) \/ Admitted(u, o)

SessionNext == Effects \/ AnyAnswerStatus \/ (\E c \in Slots : Answer(c)) \/ Presses \/ Around

SessionSpec == SessionInit /\ [][SessionNext]_sessionVars

\* The browser runs the effects, and every fetch ends, one way or the other.
SessionFairSpec ==
  /\ SessionSpec /\ WF_sessionVars(Effects) /\ WF_sessionVars(AnyAnswerStatus)
  /\ \A c \in Slots : WF_sessionVars(Answer(c))

-----------------------------------------------------------------------------
\* A page that believes it has a session does not check it for ever: it comes to
\* show a status, a failure other than a refused token, or the login. A refused
\* token is refreshed as often as that takes, and a refused refresh ends it.
BootSettles == boot.isAuth /\ query.data = None
               ~> ~boot.isAuth \/ query.data # None \/ query.error = "other"

\* The page never has two acceptances under way, whatever the status and the
\* session became in the meantime: the second would take another invitation of
\* the same user without them having seen it.
OneAcceptance ==
  Cardinality({c \in UnderWay : calls[c].kind = "accept"}) <= 1

\* Whoever still has an access cookie can refresh it, and an installed
\* application still can after the day its access cookie lasts, through any
\* number of refreshes.
SessionKeepsItsMode ==
  /\ cookies.access # None => cookies.refresh = cookies.access
  /\ cookies.refresh # None => cookies.mode = mode

\* The page's logout, once answered, leaves no session cookie behind, whatever
\* the session was worth by then (docs/SESSION_SECURITY_MODEL.md:64).
LogoutClearsCookies ==
  [][\A c \in UnderWay :
        (calls[c].kind = "logout" /\ calls'[c] = None /\ events' = events)
          => cookies' = EmptyJar]_sessionVars
=============================================================================
