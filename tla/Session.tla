------------------------------ MODULE Session ------------------------------
(***************************************************************************)
(* Signing in to pay-selfservice.                                          *)
(*                                                                         *)
(* Every worker of the portal is stateless: the session of a browser is an *)
(* encrypted cookie (client-sessions), copied into the request when it     *)
(* arrives and sent back, whole, with the response.  The middleware that   *)
(* reads the flash messages makes every session dirty, so every response   *)
(* of a request that got past deserializeUser carries its copy, and of two *)
(* concurrent requests the one answered last decides what the browser      *)
(* keeps.  The account of the user lives in adminusers; its sessionVersion *)
(* is what makes an old copy of the cookie worthless.                      *)
(*                                                                         *)
(* One actor is a tab of a browser.  A tab has at most one request in      *)
(* flight and follows redirects; tabs of one browser share its cookies.    *)
(* An await of the code is a value of pc, so any other tab may act there.  *)
(***************************************************************************)
EXTENDS Integers, FiniteSets

CONSTANTS
    Users,        \* people known, or about to be known, to adminusers
    NoUser,       \* an absent externalId
    Invitees,     \* the users that exist only after they accept an invite
    Serviceless,  \* the users with no service (has_services.js)
    Lockable,     \* the users who may be disabled during a behaviour
    Tabs,
    Browsers,
    BrowserOf,    \* which browser a tab belongs to
    Starts,       \* the pages and forms people start a navigation with
    MaxVersion,   \* bound on sessionVersion
    MaxVisits     \* bound on the navigations started by people

\* The pages a redirect, or a person, can GET; the forms;
\* and the forms that name a user.
Pages == {"login", "otpLogin", "sendAgain", "dashboard", "myServices",
          "noAccess", "direct", "logout"}
Forms == {"postLogin", "postOtpLogin", "postSendAgain", "postRegisterOtp",
          "postReset"}
NamingForms == {"postLogin", "postRegisterOtp", "postReset"}
Routes == Pages \cup Forms

ASSUME SessionAssumption ==
    /\ NoUser \notin Users
    /\ Invitees \subseteq Users
    /\ Serviceless \subseteq Users
    /\ Lockable \subseteq Users
    /\ BrowserOf \in [Tabs -> Browsers]
    /\ Starts \subseteq Routes
    /\ MaxVersion \in Nat
    /\ MaxVisits \in Nat

VARIABLES
    account,     \* adminusers: what GET /users/:id returns
    increments,  \* PATCHes of sessionVersion sent by a logout, not yet served
    jar,         \* the session cookie of each browser
    invite,      \* register_invite.userExternalId of each browser
    tab,         \* the request of each tab
    visits,      \* navigations started so far
    \* Ghosts: what happened, for the properties only.
    arrival,     \* the account of a request's user when the request arrived
    firstFactor, \* <<browser, user>>: the password was checked there
    secondFactor,\* <<browser, user, version>>: a code was checked there
    registered,  \* <<browser, user>>: registered, by a code, from there
    codesSent    \* <<browser, user>>: a login code was sent

ghosts == <<firstFactor, secondFactor, registered, codesSent>>
vars == <<account, increments, jar, invite, tab, visits, arrival, ghosts>>

-----------------------------------------------------------------------------
(* Types                                                                   *)

NoVersion == -1
NoUrl == "none"

MaybeUser == Users \cup {NoUser}
Account == [registered : BOOLEAN, version : Nat, disabled : BOOLEAN]

\* req.session: passport.user, version, secondFactor = 'totp', sentCode,
\* last_url, and whether there is a csrfSecret.
SessionCookie ==
    [user : MaybeUser, version : Nat \cup {NoVersion}, totp : BOOLEAN,
     csrf : BOOLEAN, sentCode : BOOLEAN, lastUrl : Pages \cup {NoUrl}]

EmptySession ==
    [user |-> NoUser, version |-> NoVersion, totp |-> FALSE,
     csrf |-> FALSE, sentCode |-> FALSE, lastUrl |-> NoUrl]

\* req.user: adminusers' account as it was when it was read.
ReqUser == [user : MaybeUser, version : Nat, disabled : BOOLEAN]
NotLoggedIn == [user |-> NoUser, version |-> 0, disabled |-> FALSE]
\* (with a sessionVersion of 0 taken for a missing one)
FetchedFalsyVersion(u) ==
    [user |-> u, disabled |-> account[u].disabled,
     version |-> IF account[u].version = 0 THEN NoVersion
                 ELSE account[u].version]
Fetched(u) == [user |-> u, version |-> account[u].version,
               disabled |-> account[u].disabled]

PC == {"idle", "deserialize", "handle", "guard", "authenticate",
       "getAccount", "sendOTP", "verifyOTP", "findInvited", "createUser",
       "resetPassword", "increment", "serve", "respond"}

\* who: the user a form names; writes: the cookies the response sets.
Request ==
    [pc : PC, route : Routes, sess : SessionCookie, me : ReqUser,
     who : MaybeUser, invite : MaybeUser,
     writes : SUBSET {"session", "invite"},
     reply : Pages \cup {"page", "error"}]

NoRequest ==
    [pc |-> "idle", route |-> "login", sess |-> EmptySession,
     me |-> NotLoggedIn, who |-> NoUser, invite |-> NoUser,
     writes |-> {}, reply |-> "page"]

TypeOK ==
    /\ account \in [Users -> Account]
    /\ increments \in [Users -> Nat]
    /\ jar \in [Browsers -> SessionCookie]
    /\ invite \in [Browsers -> MaybeUser]
    /\ tab \in [Tabs -> Request]
    /\ visits \in Nat
    /\ arrival \in [Tabs -> ReqUser]
    /\ firstFactor \subseteq Browsers \X Users
    /\ secondFactor \subseteq Browsers \X Users \X Nat
    /\ registered \subseteq Browsers \X Users
    /\ codesSent \subseteq Browsers \X Users

Init ==
    /\ account = [u \in Users |-> [registered |-> u \notin Invitees,
                                   version |-> 0, disabled |-> FALSE]]
    /\ increments = [u \in Users |-> 0]
    /\ jar = [b \in Browsers |-> EmptySession]
    /\ invite = [b \in Browsers |-> NoUser]
    /\ tab = [t \in Tabs |-> NoRequest]
    /\ visits = 0
    /\ arrival = [t \in Tabs |-> NotLoggedIn]
    /\ firstFactor = {}
    /\ secondFactor = {}
    /\ registered = {}
    /\ codesSent = {}

-----------------------------------------------------------------------------
(* What the handlers are made of                                           *)

At(t, pc, routes) == tab[t].pc = pc /\ tab[t].route \in routes

\* A handler goes on, with the session copy s, to the point pc.
Continue(t, pc, s) == tab' = [tab EXCEPT ![t].pc = pc, ![t].sess = s]

\* A handler is done: the response, with the session copy s, is on its way.
Answer(t, s, reply) ==
    tab' = [tab EXCEPT ![t].pc = "respond", ![t].sess = s,
                       ![t].reply = reply]

\* csrf.js: the check of validateAndRefreshCsrf on a form; whether the form
\* carries the token of the session's secret is an input.
CsrfPasses(t, tokenMatches) == tab[t].sess.csrf /\ tokenMatches

\* (with a missing version of the session counted as 0 as well)
HasValidSessionMissingIsZero(r) ==
    r.me.version = IF r.sess.version = NoVersion THEN 0 ELSE r.sess.version
\* (with any version that the user once had)
HasValidSessionOlder(r) == r.sess.version \in 0 .. r.me.version

\* session_validator.js: a missing sessionVersion counts as 0.
HasValidSession(r) == r.me.version = r.sess.version

\* redirectToLogin remembers the url that was asked for.
OriginalUrl(route) == IF route = "postSendAgain" THEN "sendAgain" ELSE route
RedirectToLogin(t) ==
    Answer(t, [tab[t].sess EXCEPT !.lastUrl = OriginalUrl(tab[t].route)],
           "login")

\* (without the lock-out)
FirstFactorHoldsDisabled(r) == r.me.user # NoUser

\* enforceUserFirstFactor, up to the call of next.
FirstFactorHolds(r) == r.me.user # NoUser /\ ~r.me.disabled
RefuseFirstFactor(t) ==
    \/ tab[t].me.user = NoUser /\ RedirectToLogin(t)
    \/ /\ tab[t].me.user # NoUser
       /\ tab[t].me.disabled
       /\ Answer(t, tab[t].sess, "noAccess")

WithCsrf(s) == [s EXCEPT !.csrf = TRUE]

\* setSessionVersion
WithVersionOf(s, me) == [s EXCEPT !.version = me.version]

Backends == <<account, increments>>
Cookies == <<jar, invite>>

-----------------------------------------------------------------------------
(* The browser and the cookie middleware                                   *)

\* client-sessions and passport.session(): the request starts with a copy of
\* the cookies, and with a call to adminusers if the copy names a user.
Arriving(route, who, s, inv) ==
    [pc |-> IF s.user = NoUser THEN "handle" ELSE "deserialize",
     route |-> route, sess |-> s, me |-> NotLoggedIn, who |-> who,
     invite |-> inv, reply |-> "page",
     writes |-> IF s.user = NoUser THEN {"session"} ELSE {}]

AccountOf(u) == IF u = NoUser THEN NotLoggedIn ELSE Fetched(u)

\* A person opens a page or submits a form.
Visit(t, route, who) ==
    LET b == BrowserOf[t] IN
    /\ tab[t].pc = "idle"
    /\ visits < MaxVisits
    /\ tab' = [tab EXCEPT ![t] = Arriving(route, who, jar[b], invite[b])]
    /\ arrival' = [arrival EXCEPT ![t] = AccountOf(jar[b].user)]
    /\ visits' = visits + 1
    /\ UNCHANGED <<Backends, Cookies, ghosts>>

\* deserializeUser: the account as it is now becomes req.user.
Deserialize(t) ==
    /\ tab[t].pc = "deserialize"
    /\ tab' = [tab EXCEPT ![t].pc = "handle",
                          ![t].me = Fetched(tab[t].sess.user),
                          ![t].writes = {"session"}]
    /\ UNCHANGED <<Backends, Cookies, visits, arrival, ghosts>>

\* deserializeUser: adminusers failed; done(err) skips the rest of the chain,
\* the flash middleware included.
DeserializeFails(t) ==
    /\ tab[t].pc = "deserialize"
    /\ Answer(t, tab[t].sess, "error")
    /\ UNCHANGED <<Backends, Cookies, visits, arrival, ghosts>>

\* The response arrives: its cookies replace the browser's, and a redirect
\* is followed at once.
Deliver(t) ==
    LET b == BrowserOf[t]
        r == tab[t]
        s == IF "session" \in r.writes THEN r.sess ELSE jar[b]
        i == IF "invite" \in r.writes THEN r.invite ELSE invite[b]
    IN
    /\ r.pc = "respond"
    /\ jar' = [jar EXCEPT ![b] = s]
    /\ invite' = [invite EXCEPT ![b] = i]
    /\ IF r.reply \in Pages
       THEN /\ tab' = [tab EXCEPT ![t] = Arriving(r.reply, NoUser, s, i)]
            /\ arrival' = [arrival EXCEPT ![t] = AccountOf(s.user)]
       ELSE tab' = [tab EXCEPT ![t] = NoRequest] /\ UNCHANGED arrival
    /\ UNCHANGED <<Backends, visits, ghosts>>

\* The response never reaches the browser.
Lose(t) ==
    /\ tab[t].pc = "respond"
    /\ tab' = [tab EXCEPT ![t] = NoRequest]
    /\ UNCHANGED <<Backends, Cookies, visits, arrival, ghosts>>

-----------------------------------------------------------------------------
(* Handlers                                                                *)

\* GET /login: ensureSessionHasCsrfSecret, validateAndRefreshCsrf,
\* redirectLoggedInUser, loginGet.
GetLogin(t) ==
    /\ At(t, "handle", {"login"})
    /\ Answer(t, WithCsrf(tab[t].sess),
              IF HasValidSession(tab[t]) THEN "dashboard" ELSE "page")
    /\ UNCHANGED <<Backends, Cookies, visits, arrival, ghosts>>

\* POST /login, up to the call of passport's 'local' strategy.
PostLogin(t, tokenMatches, fieldsFilled) ==
    /\ At(t, "handle", {"postLogin"})
    /\ \/ /\ ~CsrfPasses(t, tokenMatches)
          /\ Answer(t, tab[t].sess, "error")
       \/ /\ CsrfPasses(t, tokenMatches)
          /\ ~fieldsFilled
          /\ Answer(t, tab[t].sess, "login")
       \/ /\ CsrfPasses(t, tokenMatches)
          /\ fieldsFilled
          /\ Continue(t, "authenticate", tab[t].sess)
    /\ UNCHANGED <<Backends, Cookies, visits, arrival, ghosts>>

\* localStrategyAuth succeeds: passport puts the user into the session and
\* into the request.
Authenticate(t) ==
    LET u == tab[t].who IN
    /\ tab[t].pc = "authenticate"
    /\ u # NoUser
    /\ account[u].registered
    /\ tab' = [tab EXCEPT ![t].pc = "getAccount", ![t].sess.user = u,
                          ![t].me = Fetched(u)]
    /\ firstFactor' = firstFactor \cup {<<BrowserOf[t], u>>}
    /\ UNCHANGED <<Backends, Cookies, visits, arrival, secondFactor,
                   registered, codesSent>>

\* localStrategyAuth: wrong credentials, or adminusers failed.
AuthenticateFails(t) ==
    /\ tab[t].pc = "authenticate"
    /\ Answer(t, tab[t].sess, "login")
    /\ UNCHANGED <<Backends, Cookies, visits, arrival, ghosts>>

\* (picking one more key of the session, sentCode or the second factor)
FinishLoginKeepsSentCode(t) ==
    LET s == tab[t].sess IN
    /\ tab[t].pc = "getAccount"
    /\ Answer(t, [EmptySession EXCEPT !.user = s.user, !.lastUrl = s.lastUrl,
                                      !.sentCode = s.sentCode], "otpLogin")
    /\ UNCHANGED <<Backends, Cookies, visits, arrival, ghosts>>
FinishLoginKeepsFactor(t) ==
    LET s == tab[t].sess IN
    /\ tab[t].pc = "getAccount"
    /\ Answer(t, [s EXCEPT !.sentCode = FALSE, !.csrf = FALSE], "otpLogin")
    /\ UNCHANGED <<Backends, Cookies, visits, arrival, ghosts>>
\* (picking the version)
FinishLoginKeepsVersion(t) ==
    LET s == tab[t].sess IN
    /\ tab[t].pc = "getAccount"
    /\ Answer(t, [EmptySession EXCEPT !.user = s.user, !.lastUrl = s.lastUrl,
                                      !.version = s.version], "otpLogin")
    /\ UNCHANGED <<Backends, Cookies, visits, arrival, ghosts>>

\* getAccount and postLogin.  A user without a service has no account id and
\* getAccount throws; otherwise postLogin keeps the passport and last_url.
FinishLogin(t) ==
    LET s == tab[t].sess IN
    /\ tab[t].pc = "getAccount"
    /\ IF tab[t].me.user \in Serviceless
       THEN Answer(t, s, "error")
       ELSE Answer(t, [EmptySession EXCEPT !.user = s.user,
                                           !.lastUrl = s.lastUrl],
                   "otpLogin")
    /\ UNCHANGED <<Backends, Cookies, visits, arrival, ghosts>>

\* GET /otp-login and GET of the send-again page: enforceUserFirstFactor,
\* validateAndRefreshCsrf, then the page; otpLogin sends a code first, once.
GetOtpPage(t) ==
    LET s == WithCsrf(tab[t].sess) IN
    /\ At(t, "handle", {"otpLogin", "sendAgain"})
    /\ \/ RefuseFirstFactor(t)
       \/ /\ FirstFactorHolds(tab[t])
          /\ IF tab[t].route = "otpLogin" /\ ~s.sentCode
             THEN Continue(t, "sendOTP", s)
             ELSE Answer(t, s, "page")
    /\ UNCHANGED <<Backends, Cookies, visits, arrival, ghosts>>

\* POST of the send-again form; enforceUserFirstFactor gives the session a
\* secret before the token is checked against it.
PostSendAgain(t, tokenMatches) ==
    LET s == WithCsrf(tab[t].sess) IN
    /\ At(t, "handle", {"postSendAgain"})
    /\ \/ RefuseFirstFactor(t)
       \/ /\ FirstFactorHolds(tab[t])
          /\ IF CsrfPasses(t, tokenMatches)
             THEN Continue(t, "sendOTP", s)
             ELSE Answer(t, s, "error")
    /\ UNCHANGED <<Backends, Cookies, visits, arrival, ghosts>>

\* adminusers sends the code and says so.
SendOTP(t) ==
    LET s == tab[t].sess IN
    /\ tab[t].pc = "sendOTP"
    /\ IF tab[t].route = "otpLogin"
       THEN Answer(t, [s EXCEPT !.sentCode = TRUE], "page")
       ELSE Answer(t, s, "otpLogin")
    /\ codesSent' = codesSent \cup {<<BrowserOf[t], tab[t].me.user>>}
    /\ UNCHANGED <<Backends, Cookies, visits, arrival, firstFactor,
                   secondFactor, registered>>

\* The call fails, after (sent) or before the code left.
SendOTPFails(t, sent) ==
    /\ tab[t].pc = "sendOTP"
    /\ Answer(t, tab[t].sess, "error")
    /\ codesSent' = IF sent
                    THEN codesSent \cup {<<BrowserOf[t], tab[t].me.user>>}
                    ELSE codesSent
    /\ UNCHANGED <<Backends, Cookies, visits, arrival, firstFactor,
                   secondFactor, registered>>

\* POST /otp-login: there is no enforceUserFirstFactor on this route, so
\* localStrategy2Fa throws when nobody is logged in.
PostOtpLogin(t, tokenMatches) ==
    /\ At(t, "handle", {"postOtpLogin"})
    /\ IF CsrfPasses(t, tokenMatches) /\ tab[t].me.user # NoUser
       THEN Continue(t, "verifyOTP", tab[t].sess)
       ELSE Answer(t, tab[t].sess, "error")
    /\ UNCHANGED <<Backends, Cookies, visits, arrival, ghosts>>

\* localStrategy2Fa succeeds with a fresh copy of the user; afterOTPLogin.
VerifyOTP(t) ==
    LET u == tab[t].me.user
        s == tab[t].sess
    IN
    /\ tab[t].pc = "verifyOTP"
    /\ tab' = [tab EXCEPT
                 ![t].pc = "respond",
                 ![t].me = Fetched(u),
                 ![t].sess = WithVersionOf(
                     [s EXCEPT !.user = u, !.totp = TRUE, !.lastUrl = NoUrl],
                     Fetched(u)),
                 ![t].reply = IF s.lastUrl = NoUrl THEN "dashboard"
                              ELSE s.lastUrl]
    /\ secondFactor' = secondFactor
                       \cup {<<BrowserOf[t], u, account[u].version>>}
    /\ UNCHANGED <<Backends, Cookies, visits, arrival, firstFactor,
                   registered, codesSent>>

\* A wrong code, or adminusers failed.
VerifyOTPFails(t) ==
    /\ tab[t].pc = "verifyOTP"
    /\ Answer(t, tab[t].sess, "otpLogin")
    /\ UNCHANGED <<Backends, Cookies, visits, arrival, ghosts>>

\* A page behind enforceUserAuthenticated (and hasServices, which the service
\* switcher leaves out); a direct login joins here after it logged in.
AuthenticatedPage(t) ==
    LET r == tab[t] IN
    /\ \/ At(t, "handle", {"dashboard", "myServices"})
       \/ At(t, "guard", {"direct"})
    /\ \/ ~HasValidSession(r) /\ RedirectToLogin(t)
       \/ HasValidSession(r) /\ RefuseFirstFactor(t)
       \/ /\ HasValidSession(r)
          /\ FirstFactorHolds(r)
          /\ ~r.sess.totp
          /\ Answer(t, WithCsrf(r.sess), "otpLogin")
       \/ /\ HasValidSession(r)
          /\ FirstFactorHolds(r)
          /\ r.sess.totp
          /\ IF r.route # "myServices" /\ r.me.user \in Serviceless
             THEN Answer(t, WithCsrf(r.sess), "myServices")
             ELSE Continue(t, "serve", WithCsrf(r.sess))
    /\ UNCHANGED <<Backends, Cookies, visits, arrival, ghosts>>

\* The handler behind the guards runs and answers.
Serve(t) ==
    /\ tab[t].pc = "serve"
    /\ Answer(t, tab[t].sess, "page")
    /\ UNCHANGED <<Backends, Cookies, visits, arrival, ghosts>>

\* GET /noaccess has no guard.
NoAccess(t) ==
    /\ At(t, "handle", {"noAccess"})
    /\ Answer(t, tab[t].sess, "page")
    /\ UNCHANGED <<Backends, Cookies, visits, arrival, ghosts>>

\* GET /logout: the PATCH is sent and not waited for.
Logout(t) ==
    LET u == tab[t].me.user IN
    /\ At(t, "handle", {"logout"})
    /\ increments' = IF u = NoUser THEN increments
                     ELSE [increments EXCEPT ![u] = @ + 1]
    /\ Answer(t, EmptySession, "login")
    /\ UNCHANGED <<account, Cookies, visits, arrival, ghosts>>

\* GET /proceed-to-login: passport's 'localDirect' strategy is called.
GetDirectLogin(t) ==
    /\ At(t, "handle", {"direct"})
    /\ Continue(t, "findInvited", WithCsrf(tab[t].sess))
    /\ UNCHANGED <<Backends, Cookies, visits, arrival, ghosts>>

\* localDirectStrategy: the version comes from req.user, which passport sets
\* to the user found only afterwards.
DirectLogin(t) ==
    LET u == tab[t].invite
        s == tab[t].sess
    IN
    /\ tab[t].pc = "findInvited"
    /\ u # NoUser
    /\ tab' = [tab EXCEPT
                 ![t].pc = "guard",
                 ![t].sess = WithVersionOf(
                     [s EXCEPT !.user = u, !.totp = TRUE], tab[t].me),
                 ![t].me = Fetched(u),
                 ![t].invite = NoUser,
                 ![t].writes = {"session", "invite"}]
    /\ UNCHANGED <<Backends, Cookies, visits, arrival, ghosts>>

\* localDirectStrategy: no invite in the cookie, or adminusers failed.
DirectLoginFails(t) ==
    /\ tab[t].pc = "findInvited"
    /\ tab' = [tab EXCEPT ![t].pc = "respond", ![t].reply = "login",
                          ![t].invite = NoUser,
                          ![t].writes = {"session", "invite"}]
    /\ UNCHANGED <<Backends, Cookies, visits, arrival, ghosts>>

\* POST of the registration code: ensureSessionHasCsrfSecret comes before the
\* check of the token.
PostRegisterOtp(t, tokenMatches) ==
    LET s == WithCsrf(tab[t].sess) IN
    /\ At(t, "handle", {"postRegisterOtp"})
    /\ IF CsrfPasses(t, tokenMatches)
       THEN Continue(t, "createUser", s)
       ELSE Answer(t, s, "error")
    /\ UNCHANGED <<Backends, Cookies, visits, arrival, ghosts>>

\* verifyOtpAndCreateUser: adminusers creates the user, the cookie remembers
\* whom to log in (setupDirectLoginAfterRegister).
CreateUser(t) ==
    LET u == tab[t].who IN
    /\ tab[t].pc = "createUser"
    /\ u \in Invitees
    /\ ~account[u].registered
    /\ account' = [account EXCEPT ![u].registered = TRUE]
    /\ tab' = [tab EXCEPT ![t].pc = "respond", ![t].reply = "direct",
                          ![t].invite = u,
                          ![t].writes = {"session", "invite"}]
    /\ registered' = registered \cup {<<BrowserOf[t], u>>}
    /\ UNCHANGED <<increments, Cookies, visits, arrival, firstFactor,
                   secondFactor, codesSent>>

\* A wrong code (back to the page of the form), an unknown or old invite, or a
\* failure, which may come after the user was created (an error page).
CreateUserFails(t, created) ==
    LET u == tab[t].who IN
    /\ tab[t].pc = "createUser"
    /\ account' = IF created /\ u \in Invitees
                  THEN [account EXCEPT ![u].registered = TRUE]
                  ELSE account
    /\ \/ ~created /\ Answer(t, tab[t].sess, "page")
       \/ Answer(t, tab[t].sess, "error")
    /\ UNCHANGED <<increments, Cookies, visits, arrival, ghosts>>

\* POST of a new password.
PostReset(t, tokenMatches) ==
    /\ At(t, "handle", {"postReset"})
    /\ IF CsrfPasses(t, tokenMatches)
       THEN Continue(t, "resetPassword", tab[t].sess)
       ELSE Answer(t, tab[t].sess, "error")
    /\ UNCHANGED <<Backends, Cookies, visits, arrival, ghosts>>

\* The reset token names a user and the new password is accepted: logOut.
UpdatePassword(t) ==
    /\ tab[t].pc = "resetPassword"
    /\ tab[t].who # NoUser
    /\ account[tab[t].who].registered
    /\ Continue(t, "increment", tab[t].sess)
    /\ UNCHANGED <<Backends, Cookies, visits, arrival, ghosts>>

\* A bad token, a refused password or a failure: back to the page of the form;
\* a token whose user adminusers does not find: an error page.
UpdatePasswordFails(t) ==
    /\ tab[t].pc = "resetPassword"
    /\ \/ Answer(t, tab[t].sess, "page")
       \/ Answer(t, tab[t].sess, "error")
    /\ UNCHANGED <<Backends, Cookies, visits, arrival, ghosts>>

\* logOut ends, one way or the other, and finally() destroys the session.
FinishReset(t, incremented) ==
    LET u == tab[t].who IN
    /\ tab[t].pc = "increment"
    /\ incremented => account[u].version < MaxVersion
    /\ account' = IF incremented
                  THEN [account EXCEPT ![u].version = @ + 1]
                  ELSE account
    /\ Answer(t, EmptySession, "login")
    /\ UNCHANGED <<increments, Cookies, visits, arrival, ghosts>>

-----------------------------------------------------------------------------
(* adminusers                                                              *)

\* A reset of the password waits for its increment.
Resetting(u) == \E t \in Tabs : tab[t].pc = "increment" /\ tab[t].who = u

\* The PATCH of a logout is served (op append, sessionVersion, 1), or fails.
\* When the connection breaks before the answer the client sends it again, and
\* the PATCH of a reset as well, whose last one is FinishReset's.
IncrementSessionVersion(u, again) ==
    /\ increments[u] > 0 \/ (again /\ Resetting(u))
    /\ account[u].version < MaxVersion
    /\ increments' = [increments EXCEPT ![u] = IF again THEN @ ELSE @ - 1]
    /\ account' = [account EXCEPT ![u].version = @ + 1]
    /\ UNCHANGED <<Cookies, tab, visits, arrival, ghosts>>

LoseIncrement(u) ==
    /\ increments[u] > 0
    /\ increments' = [increments EXCEPT ![u] = @ - 1]
    /\ UNCHANGED <<account, Cookies, tab, visits, arrival, ghosts>>

\* Too many attempts, counted by adminusers.
Disable(u) ==
    /\ u \in Lockable
    /\ account[u].registered
    /\ ~account[u].disabled
    /\ account' = [account EXCEPT ![u].disabled = TRUE]
    /\ UNCHANGED <<increments, Cookies, tab, visits, arrival, ghosts>>

-----------------------------------------------------------------------------

\* What people start: pages, the forms about the session's own user, and the
\* forms that name one.
Visits(t) ==
    \/ \E route \in Starts \ NamingForms : Visit(t, route, NoUser)
    \/ \E route \in Starts \cap NamingForms, who \in Users :
          Visit(t, route, who)

\* What the portal, its back ends and the network do for a request.
Work(t) ==
    \/ Deserialize(t) \/ DeserializeFails(t)
    \/ Deliver(t) \/ Lose(t)
    \/ GetLogin(t) \/ GetOtpPage(t) \/ AuthenticatedPage(t) \/ NoAccess(t)
    \/ Authenticate(t) \/ AuthenticateFails(t) \/ FinishLogin(t)
    \/ SendOTP(t) \/ VerifyOTP(t) \/ VerifyOTPFails(t)
    \/ Serve(t) \/ Logout(t)
    \/ GetDirectLogin(t) \/ DirectLogin(t) \/ DirectLoginFails(t)
    \/ CreateUser(t) \/ UpdatePassword(t) \/ UpdatePasswordFails(t)
    \/ \E ok \in BOOLEAN :
          \/ PostSendAgain(t, ok) \/ PostOtpLogin(t, ok)
          \/ PostRegisterOtp(t, ok) \/ PostReset(t, ok)
          \/ SendOTPFails(t, ok) \/ CreateUserFails(t, ok)
          \/ FinishReset(t, ok)
          \/ \E filled \in BOOLEAN : PostLogin(t, ok, filled)

Adminusers ==
    \E u \in Users :
        \/ \E again \in BOOLEAN : IncrementSessionVersion(u, again)
        \/ LoseIncrement(u)
        \/ Disable(u)

Next == (\E t \in Tabs : Visits(t) \/ Work(t)) \/ Adminusers

Spec == Init /\ [][Next]_vars

\* The portal answers what it was asked: a request is never left alone for
\* ever.  People, and adminusers on its own account, owe nothing.
FairSpec == Spec /\ \A t \in Tabs : WF_vars(Work(t))

-----------------------------------------------------------------------------
(* Properties                                                              *)

\* A page behind the guards is served only if, in that very browser, the user
\* gave the password and, at the version of the account that the request read,
\* a code (or registered there, by a code, and was logged in directly).
\* Guards of auth_service.js together with what the login handlers leave in
\* the cookie; holds when nobody is without a service.
AccessNeedsBothFactors ==
    \A t \in Tabs : tab[t].pc = "serve" =>
        LET b == BrowserOf[t]
            u == tab[t].sess.user
        IN \/ /\ <<b, u>> \in firstFactor
              /\ <<b, u, tab[t].me.version>> \in secondFactor
           \/ <<b, u>> \in registered

\* Once sessionVersion is incremented, by a logout or a password reset
\* anywhere, a request that arrives later is not served on a cookie made
\* before, whichever copy of it a late response put back into the browser.
RevokedSessionsStayOut ==
    \A t \in Tabs : tab[t].pc = "serve" =>
        tab[t].sess.version >= arrival[t].version \/ tab[t].route = "direct"

\* A user who is disabled when a request arrives is not served by it, however
\* far the session had got (enforceUserFirstFactor, on every request).
DisabledUsersLockedOut ==
    \A t \in Tabs : tab[t].pc = "serve" =>
        ~(arrival[t].disabled /\ arrival[t].user = tab[t].sess.user)

\* Every session copy there is, in a browser or in a request.
SessionCopies == {jar[b] : b \in Browsers} \cup {tab[t].sess : t \in Tabs}

\* A session has a version exactly when it has the second factor, and only
\* with a user: a version without a user would make /login and / redirect to
\* each other for ever (a missing user counts as version 0), a factor without
\* a version would ask for the password again right after the code.
VersionExactlyWithSecondFactor ==
    \A s \in SessionCopies :
        /\ (s.version # NoVersion) <=> s.totp
        /\ s.totp => s.user # NoUser

\* Before the second factor, sentCode means that a code did go to the user the
\* session is about now, from this browser: otpLogin shows the form without
\* sending one when sentCode is set.
CodeAskedForWasSent ==
    LET Sent(b, s) == s.sentCode /\ ~s.totp => <<b, s.user>> \in codesSent IN
    /\ \A b \in Browsers : Sent(b, jar[b])
    /\ \A t \in Tabs : tab[t].pc \in {"handle", "sendOTP", "respond"} =>
                          Sent(BrowserOf[t], tab[t].sess)

\* Every navigation ends on a page: no handler keeps a request, and the
\* redirects between /login, /otp-login, /, /my-services, /noaccess and
\* /proceed-to-login never go round for ever.
EveryNavigationEnds ==
    \A t \in Tabs : tab[t].pc # "idle" ~> tab[t].pc = "idle"

\* Whom a request works for: decided when req.user is read, by the middleware
\* chain that runs from there without a pause.
AdmittedUser(r) ==
    IF /\ \/ r.pc = "handle" /\ r.route \in {"dashboard", "myServices"}
          \/ r.pc \in {"guard", "serve"}
       /\ HasValidSession(r)
       /\ FirstFactorHolds(r)
       /\ r.sess.totp
    THEN r.me.user
    ELSE NoUser

Access == INSTANCE AccessControl WITH
    version <- [u \in Users |-> account[u].version],
    granted <- secondFactor,
    enrolled <- registered,
    admitted <- [t \in Tabs |-> AdmittedUser(tab[t])]

\* Cookies, stale copies and late responses taken together keep the promise
\* of AccessControl: access is decided at one instant, against the version of
\* that instant.  Holds when nobody is without a service.
ImplementsAccessControl == Access!Spec

\* The comment and the test of post-login-controller.js: once a password is
\* accepted (here, for somebody other than the request came from) nothing of
\* the session is left but the passport and last_url, neither second factor
\* nor version.
PasswordLoginCleansSession ==
    \A t \in Tabs :
        LET r == tab[t] IN
        /\ r.pc = "respond"
        /\ r.route = "postLogin"
        /\ r.me.user = r.who
        /\ arrival[t].user # r.who
        => ~r.sess.totp /\ r.sess.version = NoVersion

\* The test of localDirectStrategy: the session of a user who is logged in
\* directly carries that user's sessionVersion.
DirectLoginCarriesOwnVersion ==
    \A t \in Tabs :
        tab[t].pc = "guard" => tab[t].sess.version = tab[t].me.version
=============================================================================
