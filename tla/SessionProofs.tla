--------------------------- MODULE SessionProofs ---------------------------
(***************************************************************************)
(* Proofs about Session, for any users, tabs, browsers and bounds.         *)
(*                                                                         *)
(* Most actions are handlers: they change one request only, and answer it  *)
(* or go on with it.  The lemmas HandlerShape and EffectShape say so once  *)
(* (Handled); each invariant then needs one argument for them all, and one *)
(* for each of the few actions that do something else.                     *)
(***************************************************************************)
EXTENDS Session, TLAPS

Replies == Pages \cup {"page", "error"}

\* TypeOK is not inductive: a call names a user only where the handler made
\* sure that there is one.
PointOK(r) ==
    /\ r.pc = "deserialize" => r.sess.user # NoUser
    /\ r.pc \in {"sendOTP", "verifyOTP", "getAccount", "guard", "serve"}
          => r.me.user # NoUser
    /\ r.pc = "increment" => r.who # NoUser

TabsOK == tab \in [Tabs -> Request] /\ \A t \in Tabs : PointOK(tab[t])

Typed == TypeOK /\ TabsOK

\* The points a handler goes on to.
Calls == {"authenticate", "sendOTP", "verifyOTP", "findInvited", "createUser",
          "resetPassword", "increment", "serve"}

\* What a handler may leave in the session copy: the identity it found there
\* (and sentCode, unless it sends one), nothing, or (after the password) the
\* user without the second factor.
Carries(r, s) ==
    \/ /\ s.user = r.sess.user
       /\ s.version = r.sess.version
       /\ s.totp = r.sess.totp
       /\ s.sentCode => r.sess.sentCode \/ r.pc = "sendOTP"
       /\ r.pc = "getAccount" => Serviceless # {}
    \/ s = EmptySession
    \/ /\ r.pc = "getAccount"
       /\ s = [EmptySession EXCEPT !.user = r.sess.user,
                                   !.lastUrl = r.sess.lastUrl]

\* When a handler may go on to the point pc.
MayCall(r, pc) ==
    /\ r.pc \in {"handle", "guard", "resetPassword"}
    /\ r.pc = "guard" => pc = "serve" /\ r.route = "direct"
    /\ pc \in {"sendOTP", "verifyOTP", "serve"} => r.me.user # NoUser
    /\ pc = "increment" => r.who # NoUser
    /\ pc = "serve" => /\ \/ r.pc = "handle" /\ r.route \in {"dashboard", "myServices"}
                          \/ r.pc = "guard"
                       /\ HasValidSession(r)
                       /\ FirstFactorHolds(r)
                       /\ r.sess.totp

Handled(t) ==
    \E s \in SessionCookie :
        /\ Carries(tab[t], s)
        /\ \/ \E reply \in Replies : Answer(t, s, reply)
           \/ \E pc \in Calls :
                 /\ s.user = tab[t].sess.user
                 /\ s.version = tab[t].sess.version
                 /\ s.totp = tab[t].sess.totp
                 /\ MayCall(tab[t], pc)
                 /\ Continue(t, pc, s)

\* The handlers that change nothing but the request.
Handler(t) ==
    \/ DeserializeFails(t) \/ GetLogin(t) \/ GetOtpPage(t)
    \/ AuthenticatedPage(t) \/ NoAccess(t) \/ AuthenticateFails(t)
    \/ FinishLogin(t) \/ VerifyOTPFails(t) \/ Serve(t) \/ GetDirectLogin(t)
    \/ UpdatePassword(t) \/ UpdatePasswordFails(t)
    \/ \E ok \in BOOLEAN :
          \/ PostSendAgain(t, ok) \/ PostOtpLogin(t, ok)
          \/ PostRegisterOtp(t, ok) \/ PostReset(t, ok)
          \/ \E filled \in BOOLEAN : PostLogin(t, ok, filled)

\* The handlers with an effect elsewhere.
Effect(t) ==
    \/ SendOTP(t) \/ Logout(t)
    \/ \E ok \in BOOLEAN :
          SendOTPFails(t, ok) \/ CreateUserFails(t, ok) \/ FinishReset(t, ok)

-----------------------------------------------------------------------------
(* Type correctness                                                        *)

\* A request that arrives is a request.
LEMMA ArrivingType ==
    ASSUME NEW s \in SessionCookie, NEW route \in Routes,
           NEW who \in MaybeUser, NEW inv \in MaybeUser
    PROVE  /\ Arriving(route, who, s, inv) \in Request
           /\ PointOK(Arriving(route, who, s, inv))
  BY DEF Arriving, PointOK, Request, PC, NotLoggedIn, ReqUser, MaybeUser,
         Replies, Pages

\* What is read from adminusers is a user of a request.
LEMMA FetchedType ==
    ASSUME TypeOK, NEW u \in Users
    PROVE  Fetched(u) \in ReqUser
  BY DEF Fetched, ReqUser, TypeOK, Account, MaybeUser

\* What a session knows of an account is an account or nobody.
LEMMA AccountOfType ==
    ASSUME TypeOK, NEW u \in MaybeUser
    PROVE  AccountOf(u) \in ReqUser
  BY FetchedType DEF AccountOf, NotLoggedIn, ReqUser, MaybeUser

\* An idle tab and an empty session have their types.
LEMMA EmptyType ==
    NoRequest \in Request /\ PointOK(NoRequest) /\ EmptySession \in SessionCookie
  BY DEF NoRequest, Request, PC, NotLoggedIn, ReqUser, MaybeUser, PointOK,
         SessionCookie, EmptySession, Routes, Pages, NoUrl

\* The fields of a request.
LEMMA RequestFields ==
    ASSUME Typed, NEW t \in Tabs
    PROVE  /\ tab[t] \in Request
           /\ PointOK(tab[t])
           /\ tab[t].sess \in SessionCookie
           /\ tab[t].sess.user \in MaybeUser
           /\ tab[t].me \in ReqUser
           /\ tab[t].me.user \in MaybeUser
           /\ tab[t].me.version \in Nat
           /\ tab[t].who \in MaybeUser
           /\ tab[t].invite \in MaybeUser
           /\ tab[t].route \in Routes
           /\ tab[t].reply \in Replies
           /\ BrowserOf[t] \in Browsers
  BY SessionAssumption
     DEF Typed, TabsOK, TypeOK, Request, SessionCookie, ReqUser, Replies

\* One request changes.
LEMMA RequestChanges ==
    ASSUME Typed, NEW t \in Tabs, NEW r \in Request, PointOK(r),
           tab' = [tab EXCEPT ![t] = r]
    PROVE  TabsOK'
  BY DEF Typed, TabsOK, PointOK

\* An answer with a session that the request may carry is handled.
LEMMA AnswerHandled ==
    ASSUME Typed, NEW t \in Tabs, NEW s \in SessionCookie,
           NEW reply \in Replies, Answer(t, s, reply), Carries(tab[t], s)
    PROVE  Handled(t)
  BY DEF Handled

\* So is a call.
LEMMA CallHandled ==
    ASSUME Typed, NEW t \in Tabs, NEW s \in SessionCookie,
           NEW pc \in Calls, Continue(t, pc, s), MayCall(tab[t], pc),
           s.user = tab[t].sess.user, s.version = tab[t].sess.version,
           s.totp = tab[t].sess.totp, s.sentCode = tab[t].sess.sentCode
    PROVE  Handled(t)
<1>1. Carries(tab[t], s)
  BY DEF Carries, MayCall
<1> QED
  BY <1>1 DEF Handled

\* An answer with the session as it was, or with a csrfSecret.
LEMMA KeepHandled ==
    ASSUME Typed, NEW t \in Tabs, NEW reply \in Replies,
           tab[t].pc # "getAccount",
           \/ Answer(t, tab[t].sess, reply)
           \/ Answer(t, WithCsrf(tab[t].sess), reply)
    PROVE  Handled(t)
<1> DEFINE s == tab[t].sess
<1>1. s \in SessionCookie /\ WithCsrf(s) \in SessionCookie
  BY RequestFields DEF WithCsrf, SessionCookie
<1>2. Carries(tab[t], s) /\ Carries(tab[t], WithCsrf(s))
  BY <1>1 DEF Carries, WithCsrf, SessionCookie
<1> QED
  BY <1>1, <1>2, AnswerHandled

\* Going on with the session as it was, or with a csrfSecret.
LEMMA GoOnHandled ==
    ASSUME Typed, NEW t \in Tabs, NEW pc \in Calls, MayCall(tab[t], pc),
           \/ Continue(t, pc, tab[t].sess)
           \/ Continue(t, pc, WithCsrf(tab[t].sess))
    PROVE  Handled(t)
<1> DEFINE s == tab[t].sess
<1>1. s \in SessionCookie /\ WithCsrf(s) \in SessionCookie
  BY RequestFields DEF WithCsrf, SessionCookie
<1>2. /\ WithCsrf(s).user = s.user /\ WithCsrf(s).version = s.version
      /\ WithCsrf(s).totp = s.totp /\ WithCsrf(s).sentCode = s.sentCode
  BY <1>1 DEF WithCsrf, SessionCookie
<1> QED
  BY <1>1, <1>2, CallHandled

\* So is a redirection to the log-in page, which changes only the last URL.
LEMMA RefusalHandled ==
    ASSUME Typed, NEW t \in Tabs, tab[t].pc # "getAccount",
           tab[t].route \in {"otpLogin", "sendAgain", "postSendAgain",
                             "dashboard", "myServices", "direct"},
           RedirectToLogin(t) \/ RefuseFirstFactor(t)
    PROVE  Handled(t)
<1> DEFINE s == [tab[t].sess EXCEPT !.lastUrl = OriginalUrl(tab[t].route)]
<1>1. OriginalUrl(tab[t].route) \in Pages
  BY DEF OriginalUrl, Pages
<1>2. tab[t].sess \in SessionCookie
  BY RequestFields
<1>3. s \in SessionCookie
  BY <1>1, <1>2 DEF SessionCookie
<1>4. Carries(tab[t], s)
  BY <1>2 DEF Carries, SessionCookie
<1>5. "login" \in Replies /\ "noAccess" \in Replies
  BY DEF Replies, Pages
<1>6. CASE RedirectToLogin(t)
  BY <1>3, <1>4, <1>5, <1>6, AnswerHandled DEF RedirectToLogin
<1>7. CASE Answer(t, tab[t].sess, "noAccess")
  BY <1>5, <1>7, KeepHandled
<1> QED
  BY <1>6, <1>7 DEF RefuseFirstFactor

\* So is an answer that empties the session.
LEMMA EmptyHandled ==
    ASSUME Typed, NEW t \in Tabs, NEW reply \in Replies,
           Answer(t, EmptySession, reply)
    PROVE  Handled(t)
  BY EmptyType, AnswerHandled DEF Carries

\* The replies that handlers name.
LEMMA ReplyNames ==
    /\ "page" \in Replies /\ "error" \in Replies /\ "login" \in Replies
    /\ "otpLogin" \in Replies /\ "dashboard" \in Replies
    /\ "myServices" \in Replies /\ "direct" \in Replies
  BY DEF Replies, Pages

\* The calls that handlers name.
LEMMA CallNames ==
    /\ "authenticate" \in Calls /\ "sendOTP" \in Calls
    /\ "verifyOTP" \in Calls /\ "findInvited" \in Calls
    /\ "createUser" \in Calls /\ "resetPassword" \in Calls
    /\ "increment" \in Calls /\ "serve" \in Calls
  BY DEF Calls

\* Whatever a handler does, it is an answer or a call.
LEMMA HandlerShape ==
    ASSUME Typed, NEW t \in Tabs, Handler(t)
    PROVE  Handled(t)
<1> USE ReplyNames, CallNames
<1>1. CASE DeserializeFails(t)
  BY <1>1, KeepHandled DEF DeserializeFails
<1>2. CASE GetLogin(t)
  <2> DEFINE to == IF HasValidSession(tab[t]) THEN "dashboard" ELSE "page"
  <2>1. to \in Replies
    OBVIOUS
  <2>2. Answer(t, WithCsrf(tab[t].sess), to) /\ tab[t].pc = "handle"
    BY <1>2 DEF GetLogin, At
  <2> QED
    BY <2>1, <2>2, KeepHandled
<1>3. CASE GetOtpPage(t)
  <2> DEFINE s == WithCsrf(tab[t].sess)
  <2>1. At(t, "handle", {"otpLogin", "sendAgain"})
    BY <1>3 DEF GetOtpPage
  <2>2. CASE RefuseFirstFactor(t)
    BY <2>1, <2>2, RefusalHandled DEF At
  <2>3. CASE FirstFactorHolds(tab[t]) /\ Continue(t, "sendOTP", s)
    <3>1. MayCall(tab[t], "sendOTP")
      BY <2>1, <2>3 DEF MayCall, At, FirstFactorHolds
    <3> QED
      BY <2>3, <3>1, GoOnHandled
  <2>4. CASE Answer(t, s, "page")
    BY <2>1, <2>4, KeepHandled DEF At
  <2> QED
    BY <1>3, <2>2, <2>3, <2>4 DEF GetOtpPage
<1>4. CASE AuthenticatedPage(t)
  <2> DEFINE s == WithCsrf(tab[t].sess)
  <2>1. \/ At(t, "handle", {"dashboard", "myServices"})
        \/ At(t, "guard", {"direct"})
    BY <1>4 DEF AuthenticatedPage
  <2>2. CASE RedirectToLogin(t) \/ RefuseFirstFactor(t)
    BY <2>1, <2>2, RefusalHandled DEF At
  <2>3. CASE Answer(t, s, "otpLogin") \/ Answer(t, s, "myServices")
    BY <2>1, <2>3, KeepHandled DEF At
  <2>4. CASE /\ HasValidSession(tab[t])
             /\ FirstFactorHolds(tab[t])
             /\ tab[t].sess.totp
             /\ Continue(t, "serve", s)
    <3>1. MayCall(tab[t], "serve")
      BY <2>1, <2>4 DEF MayCall, At, FirstFactorHolds
    <3> QED
      BY <2>4, <3>1, GoOnHandled
  <2> QED
    BY <1>4, <2>2, <2>3, <2>4 DEF AuthenticatedPage
<1>5. CASE NoAccess(t)
  BY <1>5, KeepHandled DEF NoAccess, At
<1>6. CASE AuthenticateFails(t)
  BY <1>6, KeepHandled DEF AuthenticateFails
<1>7. CASE FinishLogin(t)
  <2> DEFINE s == tab[t].sess
             clean == [EmptySession EXCEPT !.user = s.user,
                                           !.lastUrl = s.lastUrl]
  <2>1. s \in SessionCookie
    BY RequestFields
  <2>2. clean \in SessionCookie
    BY <2>1 DEF SessionCookie, EmptySession, NoVersion
  <2>3. CASE tab[t].me.user \in Serviceless /\ Answer(t, s, "error")
    <3>1. Carries(tab[t], s)
      BY <2>3 DEF Carries
    <3> QED
      BY <2>1, <2>3, <3>1, AnswerHandled
  <2>4. CASE Answer(t, clean, "otpLogin")
    <3>1. Carries(tab[t], clean)
      BY <1>7 DEF Carries, FinishLogin
    <3> QED
      BY <2>2, <2>4, <3>1, AnswerHandled
  <2> QED
    BY <1>7, <2>3, <2>4 DEF FinishLogin
<1>8. CASE VerifyOTPFails(t)
  BY <1>8, KeepHandled DEF VerifyOTPFails
<1>9. CASE Serve(t)
  BY <1>9, KeepHandled DEF Serve
<1>10. CASE GetDirectLogin(t)
  <2>1. MayCall(tab[t], "findInvited")
    BY <1>10 DEF GetDirectLogin, At, MayCall
  <2> QED
    BY <1>10, <2>1, GoOnHandled DEF GetDirectLogin
<1>11. CASE UpdatePassword(t)
  <2>1. MayCall(tab[t], "increment")
    BY <1>11 DEF UpdatePassword, MayCall
  <2> QED
    BY <1>11, <2>1, GoOnHandled DEF UpdatePassword
<1>12. CASE UpdatePasswordFails(t)
  BY <1>12, KeepHandled DEF UpdatePasswordFails
<1>13. ASSUME NEW ok \in BOOLEAN, PostSendAgain(t, ok)
       PROVE  Handled(t)
  <2> DEFINE s == WithCsrf(tab[t].sess)
  <2>1. At(t, "handle", {"postSendAgain"})
    BY <1>13 DEF PostSendAgain
  <2>2. CASE RefuseFirstFactor(t)
    BY <2>1, <2>2, RefusalHandled DEF At
  <2>3. CASE FirstFactorHolds(tab[t]) /\ Continue(t, "sendOTP", s)
    <3>1. MayCall(tab[t], "sendOTP")
      BY <2>1, <2>3 DEF MayCall, At, FirstFactorHolds
    <3> QED
      BY <2>3, <3>1, GoOnHandled
  <2>4. CASE Answer(t, s, "error")
    BY <2>1, <2>4, KeepHandled DEF At
  <2> QED
    BY <1>13, <2>2, <2>3, <2>4 DEF PostSendAgain
<1>14. ASSUME NEW ok \in BOOLEAN, PostOtpLogin(t, ok)
       PROVE  Handled(t)
  <2>1. tab[t].pc = "handle"
    BY <1>14 DEF PostOtpLogin, At
  <2>2. CASE tab[t].me.user # NoUser /\ Continue(t, "verifyOTP", tab[t].sess)
    <3>1. MayCall(tab[t], "verifyOTP")
      BY <2>1, <2>2 DEF MayCall
    <3> QED
      BY <2>2, <3>1, GoOnHandled
  <2>3. CASE Answer(t, tab[t].sess, "error")
    BY <2>1, <2>3, KeepHandled
  <2> QED
    BY <1>14, <2>2, <2>3 DEF PostOtpLogin
<1>15. ASSUME NEW ok \in BOOLEAN, PostRegisterOtp(t, ok)
       PROVE  Handled(t)
  <2> DEFINE s == WithCsrf(tab[t].sess)
  <2>1. tab[t].pc = "handle"
    BY <1>15 DEF PostRegisterOtp, At
  <2>2. CASE Continue(t, "createUser", s)
    <3>1. MayCall(tab[t], "createUser")
      BY <2>1 DEF MayCall
    <3> QED
      BY <2>2, <3>1, GoOnHandled
  <2>3. CASE Answer(t, s, "error")
    BY <2>1, <2>3, KeepHandled
  <2> QED
    BY <1>15, <2>2, <2>3 DEF PostRegisterOtp
<1>16. ASSUME NEW ok \in BOOLEAN, PostReset(t, ok)
       PROVE  Handled(t)
  <2>1. tab[t].pc = "handle"
    BY <1>16 DEF PostReset, At
  <2>2. CASE Continue(t, "resetPassword", tab[t].sess)
    <3>1. MayCall(tab[t], "resetPassword")
      BY <2>1 DEF MayCall
    <3> QED
      BY <2>2, <3>1, GoOnHandled
  <2>3. CASE Answer(t, tab[t].sess, "error")
    BY <2>1, <2>3, KeepHandled
  <2> QED
    BY <1>16, <2>2, <2>3 DEF PostReset
<1>17. ASSUME NEW ok \in BOOLEAN, NEW filled \in BOOLEAN,
              PostLogin(t, ok, filled)
       PROVE  Handled(t)
  <2>1. tab[t].pc = "handle"
    BY <1>17 DEF PostLogin, At
  <2>2. CASE Continue(t, "authenticate", tab[t].sess)
    <3>1. MayCall(tab[t], "authenticate")
      BY <2>1 DEF MayCall
    <3> QED
      BY <2>2, <3>1, GoOnHandled
  <2>3. CASE \/ Answer(t, tab[t].sess, "error")
             \/ Answer(t, tab[t].sess, "login")
    BY <2>1, <2>3, KeepHandled
  <2> QED
    BY <1>17, <2>2, <2>3 DEF PostLogin
<1> QED
  BY <1>1, <1>2, <1>3, <1>4, <1>5, <1>6, <1>7, <1>8, <1>9, <1>10, <1>11,
     <1>12, <1>13, <1>14, <1>15, <1>16, <1>17 DEF Handler

\* A handler changes its own request and nothing else.
LEMMA HandlerFrame ==
    ASSUME NEW t \in Tabs, Handler(t)
    PROVE  UNCHANGED <<account, increments, jar, invite, visits, arrival,
                       firstFactor, secondFactor, registered, codesSent>>
  BY DEF Handler, DeserializeFails, GetLogin, GetOtpPage, AuthenticatedPage,
         NoAccess, AuthenticateFails, FinishLogin, VerifyOTPFails, Serve,
         GetDirectLogin, UpdatePassword, UpdatePasswordFails, PostSendAgain,
         PostOtpLogin, PostRegisterOtp, PostReset, PostLogin, Backends,
         Cookies, ghosts

\* The handlers with an effect elsewhere only answer.
LEMMA EffectShape ==
    ASSUME Typed, NEW t \in Tabs, Effect(t)
    PROVE  Handled(t)
<1> USE ReplyNames
<1>1. CASE SendOTP(t)
  <2> DEFINE s == tab[t].sess
             sent == [s EXCEPT !.sentCode = TRUE]
  <2>1. s \in SessionCookie /\ tab[t].pc = "sendOTP"
    BY <1>1, RequestFields DEF SendOTP
  <2>2. sent \in SessionCookie /\ Carries(tab[t], sent)
    BY <2>1 DEF SessionCookie, Carries
  <2>3. CASE Answer(t, sent, "page")
    BY <2>2, <2>3, AnswerHandled
  <2>4. CASE Answer(t, s, "otpLogin")
    BY <2>1, <2>4, KeepHandled
  <2> QED
    BY <1>1, <2>3, <2>4 DEF SendOTP, Backends, Cookies
<1>2. CASE Logout(t)
  BY <1>2, EmptyHandled DEF Logout, Cookies, ghosts
<1>3. ASSUME NEW ok \in BOOLEAN, SendOTPFails(t, ok)
      PROVE  Handled(t)
  BY <1>3, KeepHandled DEF SendOTPFails
<1>4. ASSUME NEW ok \in BOOLEAN, CreateUserFails(t, ok)
      PROVE  Handled(t)
  BY <1>4, KeepHandled DEF CreateUserFails
<1>5. ASSUME NEW ok \in BOOLEAN, FinishReset(t, ok)
      PROVE  Handled(t)
  BY <1>5, EmptyHandled DEF FinishReset
<1> QED
  BY <1>1, <1>2, <1>3, <1>4, <1>5 DEF Effect

\* A call to adminusers changes no cookie and proves nothing.
LEMMA EffectFrame ==
    ASSUME NEW t \in Tabs, Effect(t)
    PROVE  UNCHANGED <<jar, invite, visits, arrival, firstFactor,
                       secondFactor, registered>>
  BY DEF Effect, SendOTP, Logout, SendOTPFails, CreateUserFails, FinishReset,
         Backends, Cookies, ghosts

\* The actions of Work, by kind.
LEMMA WorkKinds ==
    ASSUME NEW t \in Tabs, Work(t)
    PROVE  \/ Deserialize(t) \/ Deliver(t) \/ Lose(t)
           \/ Handler(t) \/ Effect(t)
           \/ Authenticate(t) \/ VerifyOTP(t)
           \/ DirectLogin(t) \/ DirectLoginFails(t) \/ CreateUser(t)
  BY DEF Work, Handler, Effect

-----------------------------------------------------------------------------
(* Type correctness: the steps                                             *)

\* A handled request keeps its type.
LEMMA HandledTyped ==
    ASSUME Typed, NEW t \in Tabs, Handled(t)
    PROVE  TabsOK'
<1>1. ASSUME NEW s \in SessionCookie, NEW reply \in Replies,
             Answer(t, s, reply)
      PROVE  TabsOK'
  <2> DEFINE r == [tab[t] EXCEPT !.pc = "respond", !.sess = s,
                                 !.reply = reply]
  <2>1. tab' = [tab EXCEPT ![t] = r]
    BY <1>1 DEF Answer
  <2>2. r \in Request
    BY RequestFields DEF Request, PC, Replies
  <2>3. PointOK(r)
    BY RequestFields DEF Request, PointOK
  <2> QED
    BY <2>1, <2>2, <2>3, RequestChanges
<1>2. ASSUME NEW s \in SessionCookie, NEW pc \in Calls,
             Continue(t, pc, s), MayCall(tab[t], pc)
      PROVE  TabsOK'
  <2> DEFINE r == [tab[t] EXCEPT !.pc = pc, !.sess = s]
  <2>1. tab' = [tab EXCEPT ![t] = r]
    BY <1>2 DEF Continue
  <2>2. r \in Request
    BY RequestFields DEF Request, PC, Calls
  <2>3. PointOK(r)
    BY <1>2, RequestFields DEF Request, PointOK, MayCall, Calls
  <2> QED
    BY <2>1, <2>2, <2>3, RequestChanges
<1> QED
  BY <1>1, <1>2 DEF Handled

\* A request after a direct login.
LEMMA LoggedInType ==
    ASSUME NEW r \in Request, NEW pc \in PC, NEW s \in SessionCookie,
           NEW me \in ReqUser, NEW i \in MaybeUser
    PROVE  [r EXCEPT !.pc = pc, !.sess = s, !.me = me, !.invite = i,
                     !.writes = {"session", "invite"}] \in Request
  BY DEF Request

\* Everything but the requests, after a step that leaves it alone.
RestTyped ==
    /\ account \in [Users -> Account]
    /\ increments \in [Users -> Nat]
    /\ jar \in [Browsers -> SessionCookie]
    /\ invite \in [Browsers -> MaybeUser]
    /\ visits \in Nat
    /\ arrival \in [Tabs -> ReqUser]
    /\ firstFactor \subseteq Browsers \X Users
    /\ secondFactor \subseteq Browsers \X Users \X Nat
    /\ registered \subseteq Browsers \X Users
    /\ codesSent \subseteq Browsers \X Users

\* The type invariant, requests apart.
LEMMA TypedParts == Typed <=> TabsOK /\ RestTyped
  BY DEF Typed, TypeOK, TabsOK, RestTyped

\* The same of the next state.
LEMMA TypedPartsPrimed == TabsOK' /\ RestTyped' => Typed'
  BY DEF Typed, TypeOK, TabsOK, RestTyped

\* What adminusers does to an account.
LEMMA AccountUpdates ==
    ASSUME RestTyped, NEW u \in Users
    PROVE  /\ [account EXCEPT ![u].registered = TRUE] \in [Users -> Account]
           /\ [account EXCEPT ![u].disabled = TRUE] \in [Users -> Account]
           /\ [account EXCEPT ![u].version = @ + 1] \in [Users -> Account]
           /\ [increments EXCEPT ![u] = @ + 1] \in [Users -> Nat]
           /\ increments[u] > 0
                 => [increments EXCEPT ![u] = @ - 1] \in [Users -> Nat]
<1>1. account[u] \in Account /\ account \in [Users -> Account]
  BY DEF RestTyped
<1>2. ASSUME NEW a \in Account
      PROVE  /\ [a EXCEPT !.registered = TRUE] \in Account
             /\ [a EXCEPT !.disabled = TRUE] \in Account
             /\ [a EXCEPT !.version = @ + 1] \in Account
  <2>1. a.version + 1 \in Nat
    BY DEF Account
  <2> QED
    BY <2>1 DEF Account
<1>3. increments \in [Users -> Nat]
  BY DEF RestTyped
<1>4. [increments EXCEPT ![u] = @ + 1] \in [Users -> Nat]
  BY <1>3
<1>5. increments[u] > 0 => [increments EXCEPT ![u] = @ - 1] \in [Users -> Nat]
  BY <1>3
<1> QED
  BY <1>1, <1>2, <1>4, <1>5

\* Every step keeps the types: one case per kind of action.
LEMMA TypeStep == Typed /\ [Next]_vars => Typed'
<1> SUFFICES ASSUME Typed, [Next]_vars PROVE TabsOK' /\ RestTyped'
  BY TypedPartsPrimed
<1> USE SessionAssumption DEF Backends, Cookies, ghosts
<1>r. RestTyped
  BY TypedParts
<1>1. ASSUME NEW t \in Tabs, NEW route \in Routes, NEW who \in MaybeUser,
             Visit(t, route, who)
      PROVE  TabsOK' /\ RestTyped'
  <2> DEFINE b == BrowserOf[t]
             r == Arriving(route, who, jar[b], invite[b])
  <2>1. jar[b] \in SessionCookie /\ invite[b] \in MaybeUser
    BY <1>r DEF RestTyped
  <2>2. r \in Request /\ PointOK(r)
    BY <2>1, ArrivingType
  <2>3. AccountOf(jar[b].user) \in ReqUser
    BY <2>1, AccountOfType DEF Typed, SessionCookie
  <2>4. TabsOK'
    BY <1>1, <2>2, RequestChanges DEF Visit
  <2>5. RestTyped'
    BY <1>1, <1>r, <2>3 DEF Visit, RestTyped
  <2> QED
    BY <2>4, <2>5
<1>2. ASSUME NEW t \in Tabs, Deserialize(t)
      PROVE  TabsOK' /\ RestTyped'
  <2> DEFINE u == tab[t].sess.user
             r == [tab[t] EXCEPT !.pc = "handle", !.me = Fetched(u),
                                 !.writes = {"session"}]
  <2>1. u \in Users
    BY <1>2, RequestFields DEF Deserialize, PointOK, MaybeUser
  <2>2. Fetched(u) \in ReqUser
    BY <2>1, FetchedType DEF Typed
  <2>3. r \in Request /\ PointOK(r)
    BY <2>2, RequestFields DEF Request, PC, PointOK
  <2>4. TabsOK'
    BY <1>2, <2>3, RequestChanges DEF Deserialize
  <2>5. RestTyped'
    BY <1>2, <1>r DEF Deserialize, RestTyped
  <2> QED
    BY <2>4, <2>5
<1>3. ASSUME NEW t \in Tabs, Deliver(t)
      PROVE  TabsOK' /\ RestTyped'
  <2> DEFINE b == BrowserOf[t]
             r == tab[t]
             s == IF "session" \in r.writes THEN r.sess ELSE jar[b]
             i == IF "invite" \in r.writes THEN r.invite ELSE invite[b]
             n == Arriving(r.reply, NoUser, s, i)
  <2>1. s \in SessionCookie /\ i \in MaybeUser
    BY <1>r, RequestFields DEF RestTyped
  <2>2. /\ jar' \in [Browsers -> SessionCookie]
        /\ invite' \in [Browsers -> MaybeUser]
    BY <1>3, <1>r, <2>1 DEF Deliver, RestTyped
  <2>3. CASE r.reply \in Pages
    <3>1. r.reply \in Routes /\ NoUser \in MaybeUser
      BY <2>3 DEF Routes, MaybeUser
    <3>2. n \in Request /\ PointOK(n)
      BY <2>1, <3>1, ArrivingType
    <3>3. AccountOf(s.user) \in ReqUser
      BY <2>1, AccountOfType DEF Typed, SessionCookie
    <3>4. tab' = [tab EXCEPT ![t] = n] /\ arrival' \in [Tabs -> ReqUser]
      BY <1>3, <1>r, <2>3, <3>3 DEF Deliver, RestTyped
    <3>5. TabsOK'
      BY <3>2, <3>4, RequestChanges
    <3> QED
      BY <1>3, <1>r, <2>2, <3>4, <3>5 DEF Deliver, RestTyped
  <2>4. CASE r.reply \notin Pages
    <3>1. tab' = [tab EXCEPT ![t] = NoRequest] /\ arrival' = arrival
      BY <1>3, <2>4 DEF Deliver
    <3>2. TabsOK'
      BY <3>1, EmptyType, RequestChanges
    <3> QED
      BY <1>3, <1>r, <2>2, <3>1, <3>2 DEF Deliver, RestTyped
  <2> QED
    BY <2>3, <2>4
<1>4. ASSUME NEW t \in Tabs, Lose(t)
      PROVE  TabsOK' /\ RestTyped'
  <2>1. TabsOK'
    BY <1>4, EmptyType, RequestChanges DEF Lose
  <2> QED
    BY <1>4, <1>r, <2>1 DEF Lose, RestTyped
<1>5. ASSUME NEW t \in Tabs, Handler(t)
      PROVE  TabsOK' /\ RestTyped'
  BY <1>5, <1>r, HandlerShape, HandlerFrame, HandledTyped DEF RestTyped
<1>6. ASSUME NEW t \in Tabs, Effect(t)
      PROVE  TabsOK' /\ RestTyped'
  <2>1. TabsOK'
    BY <1>6, EffectShape, HandledTyped
  <2>3. account' \in [Users -> Account]
    <3>1. ASSUME NEW ok \in BOOLEAN, FinishReset(t, ok)
          PROVE  account' \in [Users -> Account]
      <4>1. tab[t].who \in Users
        BY <3>1, RequestFields DEF FinishReset, PointOK, MaybeUser
      <4> QED
        BY <1>r, AccountUpdates, <3>1, <4>1 DEF FinishReset, RestTyped
    <3>2. ASSUME NEW ok \in BOOLEAN, CreateUserFails(t, ok)
          PROVE  account' \in [Users -> Account]
      BY <1>r, AccountUpdates, <3>2 DEF CreateUserFails, RestTyped
    <3>3. CASE account' = account
      BY <1>r, <3>3 DEF RestTyped
    <3> QED
      BY <1>6, <3>1, <3>2, <3>3 DEF Effect, SendOTP, Logout, SendOTPFails
  <2>4. increments' \in [Users -> Nat]
    <3>1. CASE Logout(t)
      <4>1. tab[t].me.user \in Users \/ tab[t].me.user = NoUser
        BY RequestFields DEF MaybeUser
      <4> QED
        BY <1>r, AccountUpdates, <3>1, <4>1 DEF Logout, RestTyped
    <3>2. CASE increments' = increments
      BY <1>r, <3>2 DEF RestTyped
    <3> QED
      BY <1>6, <3>1, <3>2
         DEF Effect, SendOTP, SendOTPFails, CreateUserFails, FinishReset
  <2>5. codesSent' \subseteq Browsers \X Users
    <3>1. CASE SendOTP(t) \/ \E ok \in BOOLEAN : SendOTPFails(t, ok)
      <4>1. tab[t].me.user \in Users
        BY <3>1, RequestFields DEF SendOTP, SendOTPFails, PointOK, MaybeUser
      <4>2. <<BrowserOf[t], tab[t].me.user>> \in Browsers \X Users
        BY <4>1
      <4> QED
        BY <1>r, <3>1, <4>2 DEF SendOTP, SendOTPFails, RestTyped
    <3>2. CASE codesSent' = codesSent
      BY <1>r, <3>2 DEF RestTyped
    <3> QED
      BY <1>6, <3>1, <3>2 DEF Effect, Logout, CreateUserFails, FinishReset
  <2> QED
    BY <1>6, <1>r, <2>1, <2>3, <2>4, <2>5, EffectFrame, visits' = visits
       DEF RestTyped
<1>7. ASSUME NEW t \in Tabs, Authenticate(t)
      PROVE  TabsOK' /\ RestTyped'
  <2> DEFINE u == tab[t].who
             s == [tab[t].sess EXCEPT !.user = u]
             r == [tab[t] EXCEPT !.pc = "getAccount", !.sess = s,
                                 !.me = Fetched(u)]
  <2>1. u \in Users
    BY <1>7, RequestFields DEF Authenticate, MaybeUser
  <2>2. Fetched(u) \in ReqUser /\ Fetched(u).user = u
    BY <2>1, FetchedType DEF Typed, Fetched
  <2>3. s \in SessionCookie
    BY <2>1, RequestFields DEF SessionCookie, MaybeUser
  <2>4. r \in Request /\ PointOK(r)
    BY <2>1, <2>2, <2>3, RequestFields DEF Request, PC, PointOK
  <2>5. tab' = [tab EXCEPT ![t] = r]
    BY <1>7 DEF Authenticate
  <2>6. TabsOK'
    BY <2>4, <2>5, RequestChanges
  <2>7. <<BrowserOf[t], u>> \in Browsers \X Users
    BY <2>1
  <2> QED
    BY <1>7, <1>r, <2>6, <2>7 DEF Authenticate, RestTyped
<1>8. ASSUME NEW t \in Tabs, VerifyOTP(t)
      PROVE  TabsOK' /\ RestTyped'
  <2> DEFINE u == tab[t].me.user
             v == account[u].version
             to == IF tab[t].sess.lastUrl = NoUrl THEN "dashboard"
                   ELSE tab[t].sess.lastUrl
             s == [tab[t].sess EXCEPT !.user = u, !.totp = TRUE,
                                      !.lastUrl = NoUrl, !.version = v]
             r == [tab[t] EXCEPT !.pc = "respond", !.me = Fetched(u),
                                 !.sess = s, !.reply = to]
  <2>1. u \in Users
    BY <1>8, RequestFields DEF VerifyOTP, PointOK, MaybeUser
  <2>2. v \in Nat /\ Fetched(u) \in ReqUser /\ Fetched(u).version = v
    BY <1>r, <2>1, FetchedType DEF Typed, RestTyped, Account, Fetched
  <2>3. to \in Replies
    BY RequestFields DEF SessionCookie, Replies, Pages
  <2>4. s \in SessionCookie
    BY <2>1, <2>2, RequestFields DEF SessionCookie, MaybeUser
  <2>5. r \in Request /\ PointOK(r)
    BY <2>2, <2>3, <2>4, RequestFields DEF Request, PC, PointOK, Replies
  <2>6. tab' = [tab EXCEPT ![t] = r]
    BY <1>8, <2>2 DEF VerifyOTP, WithVersionOf
  <2>7. TabsOK'
    BY <2>5, <2>6, RequestChanges
  <2>8. <<BrowserOf[t], u, v>> \in Browsers \X Users \X Nat
    BY <2>1, <2>2
  <2> QED
    BY <1>8, <1>r, <2>7, <2>8 DEF VerifyOTP, RestTyped
<1>9. ASSUME NEW t \in Tabs, DirectLogin(t)
      PROVE  TabsOK' /\ RestTyped'
  <2> DEFINE u == tab[t].invite
             v == tab[t].me.version
             s == [tab[t].sess EXCEPT !.user = u, !.totp = TRUE,
                                      !.version = v]
             r == [tab[t] EXCEPT !.pc = "guard", !.sess = s,
                                 !.me = Fetched(u), !.invite = NoUser,
                                 !.writes = {"session", "invite"}]
  <2>1. u \in Users /\ v \in Nat /\ NoUser \in MaybeUser
    BY <1>9, RequestFields DEF DirectLogin, MaybeUser
  <2>2. Fetched(u) \in ReqUser /\ Fetched(u).user = u
    BY <2>1, FetchedType DEF Typed, Fetched
  <2>3. s \in SessionCookie
    BY <2>1, RequestFields DEF SessionCookie, MaybeUser
  <2>4. r \in Request /\ PointOK(r)
    <3>1. r \in Request
      BY <2>1, <2>2, <2>3, RequestFields, LoggedInType DEF PC
    <3>2. r.pc = "guard" /\ r.me.user = u
      BY <2>2, RequestFields DEF Request
    <3> QED
      BY <1>9, <3>1, <3>2 DEF PointOK, DirectLogin
  <2>5. tab' = [tab EXCEPT ![t] = r]
    BY <1>9 DEF DirectLogin, WithVersionOf
  <2>6. TabsOK'
    BY <2>4, <2>5, RequestChanges
  <2> QED
    BY <1>9, <1>r, <2>6 DEF DirectLogin, RestTyped
<1>10. ASSUME NEW t \in Tabs, DirectLoginFails(t)
       PROVE  TabsOK' /\ RestTyped'
  <2> DEFINE r == [tab[t] EXCEPT !.pc = "respond", !.reply = "login",
                                 !.invite = NoUser,
                                 !.writes = {"session", "invite"}]
  <2>1. r \in Request /\ PointOK(r)
    BY RequestFields DEF Request, PC, PointOK, MaybeUser, Pages
  <2>2. TabsOK'
    BY <1>10, <2>1, RequestChanges DEF DirectLoginFails
  <2> QED
    BY <1>10, <1>r, <2>2 DEF DirectLoginFails, RestTyped
<1>11. ASSUME NEW t \in Tabs, CreateUser(t)
       PROVE  TabsOK' /\ RestTyped'
  <2> DEFINE u == tab[t].who
             r == [tab[t] EXCEPT !.pc = "respond", !.reply = "direct",
                                 !.invite = u,
                                 !.writes = {"session", "invite"}]
  <2>1. u \in Users
    BY <1>11 DEF CreateUser
  <2>2. r \in Request /\ PointOK(r)
    BY <2>1, RequestFields DEF Request, PC, PointOK, MaybeUser, Pages
  <2>3. TabsOK'
    BY <1>11, <2>2, RequestChanges DEF CreateUser
  <2>4. account' \in [Users -> Account]
    BY <1>11, <1>r, <2>1 DEF CreateUser, RestTyped, Account
  <2>5. <<BrowserOf[t], u>> \in Browsers \X Users
    BY <2>1
  <2> QED
    BY <1>11, <1>r, <2>3, <2>4, <2>5 DEF CreateUser, RestTyped
<1>12. ASSUME Adminusers
       PROVE  TabsOK' /\ RestTyped'
  <2>1. PICK u \in Users :
            \/ \E again \in BOOLEAN : IncrementSessionVersion(u, again)
            \/ LoseIncrement(u)
            \/ Disable(u)
    BY <1>12 DEF Adminusers
  <2>4. /\ account' \in [Users -> Account]
        /\ increments' \in [Users -> Nat]
    <3>1. ASSUME NEW again \in BOOLEAN, IncrementSessionVersion(u, again)
          PROVE  /\ account' \in [Users -> Account]
                 /\ increments' \in [Users -> Nat]
      <4>1. account' \in [Users -> Account]
        BY <1>r, <3>1, AccountUpdates DEF IncrementSessionVersion
      <4>2. increments' \in [Users -> Nat]
        BY <1>r, <3>1 DEF IncrementSessionVersion, RestTyped
      <4> QED
        BY <4>1, <4>2
    <3>2. CASE LoseIncrement(u)
      BY <1>r, <3>2, AccountUpdates DEF LoseIncrement, RestTyped
    <3>3. CASE Disable(u)
      BY <1>r, <3>3, AccountUpdates DEF Disable, RestTyped
    <3> QED
      BY <2>1, <3>1, <3>2, <3>3
  <2>2. UNCHANGED <<jar, invite, tab, visits, arrival, firstFactor,
                    secondFactor, registered, codesSent>>
    BY <1>12 DEF Adminusers, IncrementSessionVersion, LoseIncrement, Disable
  <2>3. TabsOK'
    BY <2>2 DEF Typed, TabsOK
  <2> QED
    BY <1>r, <2>2, <2>3, <2>4 DEF RestTyped
<1>13. CASE UNCHANGED vars
  BY <1>13, <1>r DEF vars, Typed, TabsOK, RestTyped
<1>14. ASSUME NEW t \in Tabs, Visits(t)
       PROVE  TabsOK' /\ RestTyped'
  BY <1>1, <1>14 DEF Visits, MaybeUser
<1>15. ASSUME NEW t \in Tabs, Work(t)
       PROVE  TabsOK' /\ RestTyped'
  BY <1>2, <1>3, <1>4, <1>5, <1>6, <1>7, <1>8, <1>9, <1>10, <1>11, <1>15,
     WorkKinds
<1> QED
  BY <1>12, <1>13, <1>14, <1>15 DEF Next

\* The type invariant holds at first.
LEMMA TypedAtStart == Init => Typed
  BY SessionAssumption, EmptyType
     DEF Init, Typed, TypeOK, TabsOK, Account, NotLoggedIn, ReqUser, MaybeUser

\* Type correctness, whatever people do and the network loses.
THEOREM TypeCorrect == Spec => []TypeOK
<1>1. Typed => TypeOK
  BY DEF Typed
<1> QED
  BY <1>1, TypedAtStart, TypeStep, PTL DEF Spec

-----------------------------------------------------------------------------
(* Who a session stands for                                                *)

\* What a session copy of the browser b is worth, given the passwords and
\* codes checked and the registrations made so far: its user gave the password
\* or registered there; with the second factor, its version was set by a code
\* checked there, or the user registered there.
Identity(b, s, passwords, codes, registrations) ==
    /\ s.user # NoUser => <<b, s.user>> \in passwords \cup registrations
    /\ s.totp => /\ s.user # NoUser
                 /\ \/ <<b, s.user>> \in registrations
                    \/ <<b, s.user, s.version>> \in codes
    /\ (s.version # NoVersion) <=> s.totp

Invited(b, i, registrations) == i # NoUser => <<b, i>> \in registrations

\* Between the password and postLogin the copy still has the second factor of
\* the session before; wherever a handler works, req.user is the session's.
RequestOK(r, b, passwords, codes, registrations) ==
    /\ r.pc # "getAccount" =>
          Identity(b, r.sess, passwords, codes, registrations)
    /\ r.pc = "getAccount" =>
          /\ <<b, r.sess.user>> \in passwords \cup registrations
          /\ r.sess.user # NoUser
          /\ (r.sess.version # NoVersion) <=> r.sess.totp
    /\ r.pc \notin {"idle", "deserialize", "respond"} =>
          r.me.user = r.sess.user
    /\ r.pc = "serve" => HasValidSession(r) /\ r.sess.totp
    /\ Invited(b, r.invite, registrations)

CookiesOK ==
    \A b \in Browsers :
        /\ Identity(b, jar[b], firstFactor, secondFactor, registered)
        /\ Invited(b, invite[b], registered)

RequestsOK ==
    \A t \in Tabs : RequestOK(tab[t], BrowserOf[t], firstFactor, secondFactor,
                              registered)

Established == CookiesOK /\ RequestsOK

\* What happened stays true.
LEMMA GhostsGrow ==
    ASSUME [Next]_vars
    PROVE  /\ firstFactor \subseteq firstFactor'
           /\ secondFactor \subseteq secondFactor'
           /\ registered \subseteq registered'
<1>1. ASSUME NEW t \in Tabs, Work(t)
      PROVE  /\ firstFactor \subseteq firstFactor'
             /\ secondFactor \subseteq secondFactor'
             /\ registered \subseteq registered'
  <2>1. CASE Handler(t) \/ Effect(t)
    BY <2>1, HandlerFrame, EffectFrame
  <2> QED
    BY <1>1, <2>1, WorkKinds
       DEF Deserialize, Deliver, Lose, Authenticate, VerifyOTP, DirectLogin,
           DirectLoginFails, CreateUser, ghosts
<1>2. ASSUME NEW t \in Tabs, Visits(t)
      PROVE  UNCHANGED ghosts
  BY <1>2 DEF Visits, Visit
<1>3. ASSUME Adminusers
      PROVE  UNCHANGED ghosts
  BY <1>3 DEF Adminusers, IncrementSessionVersion, LoseIncrement, Disable
<1>4. CASE UNCHANGED vars
  BY <1>4 DEF vars, ghosts
<1> QED
  BY <1>1, <1>2, <1>3, <1>4 DEF Next, ghosts

\* What a browser has proved stays proved.
LEMMA WorthGrows ==
    ASSUME NEW p, NEW c, NEW g, NEW p2, NEW c2, NEW g2,
           p \subseteq p2, c \subseteq c2, g \subseteq g2, NEW b
    PROVE  /\ \A s : Identity(b, s, p, c, g) => Identity(b, s, p2, c2, g2)
           /\ \A i : Invited(b, i, g) => Invited(b, i, g2)
           /\ \A r : RequestOK(r, b, p, c, g) => RequestOK(r, b, p2, c2, g2)
<1>1. \A s : Identity(b, s, p, c, g) => Identity(b, s, p2, c2, g2)
  BY DEF Identity
<1>2. \A i : Invited(b, i, g) => Invited(b, i, g2)
  BY DEF Invited
<1>3. \A r : RequestOK(r, b, p, c, g) => RequestOK(r, b, p2, c2, g2)
  BY <1>1, <1>2 DEF RequestOK
<1> QED
  BY <1>1, <1>2, <1>3

\* A step takes no proof back.
LEMMA StillOK ==
    ASSUME [Next]_vars, NEW b
    PROVE  /\ \A s : Identity(b, s, firstFactor, secondFactor, registered)
                    => Identity(b, s, firstFactor', secondFactor', registered')
           /\ \A i : Invited(b, i, registered) => Invited(b, i, registered')
           /\ \A r : RequestOK(r, b, firstFactor, secondFactor, registered)
                 => RequestOK(r, b, firstFactor', secondFactor', registered')
  BY GhostsGrow, WorthGrows

\* After a step on one request: the others, and the cookies, were fine before.
LEMMA RequestsAfter ==
    ASSUME Typed, Established, [Next]_vars, NEW t \in Tabs, NEW r,
           tab' = [tab EXCEPT ![t] = r],
           RequestOK(r, BrowserOf[t], firstFactor', secondFactor', registered')
    PROVE  RequestsOK'
<1>1. SUFFICES ASSUME NEW o \in Tabs
               PROVE  RequestOK(tab'[o], BrowserOf[o], firstFactor',
                                secondFactor', registered')
  BY DEF RequestsOK
<1>2. CASE o = t
  BY <1>2 DEF Typed, TypeOK
<1>3. CASE o # t
  <2>1. tab'[o] = tab[o]
    BY <1>3 DEF Typed, TypeOK
  <2>2. RequestOK(tab[o], BrowserOf[o], firstFactor, secondFactor, registered)
    BY DEF Established, RequestsOK
  <2> QED
    BY <2>1, <2>2, StillOK
<1> QED
  BY <1>2, <1>3

\* Cookies that a step leaves alone stay worth what they were.
LEMMA CookiesAfter ==
    ASSUME Established, [Next]_vars, jar' = jar, invite' = invite
    PROVE  CookiesOK'
  BY StillOK DEF Established, CookiesOK

\* A request that arrives is worth what its cookies are.
LEMMA ArrivingOK ==
    ASSUME NEW b \in Browsers, NEW route, NEW who, NEW s \in SessionCookie,
           NEW i, NEW p, NEW c, NEW g,
           Identity(b, s, p, c, g), Invited(b, i, g)
    PROVE  RequestOK(Arriving(route, who, s, i), b, p, c, g)
  BY DEF Arriving, RequestOK, NotLoggedIn

\* Nobody needs to have proved anything for an empty session.
LEMMA EmptyOK ==
    ASSUME NEW b, NEW p, NEW c, NEW g
    PROVE  /\ Identity(b, EmptySession, p, c, g)
           /\ RequestOK(NoRequest, b, p, c, g)
  BY DEF Identity, EmptySession, RequestOK, NoRequest, Invited

\* Every request is worth what its browser has proved.
LEMMA RequestOKNow ==
    ASSUME Established, NEW t \in Tabs
    PROVE  RequestOK(tab[t], BrowserOf[t], firstFactor, secondFactor,
                     registered)
  BY DEF Established, RequestsOK

\* What the browser has after a response.
LEMMA HandledOK ==
    ASSUME Serviceless = {}, Typed, Established, [Next]_vars,
           NEW t \in Tabs, Handled(t)
    PROVE  RequestsOK'
<1> DEFINE b == BrowserOf[t]
           q == tab[t]
           Worth(s) == Identity(b, s, firstFactor, secondFactor, registered)
<1>1. /\ q \in Request /\ q.sess \in SessionCookie
      /\ RequestOK(q, b, firstFactor, secondFactor, registered)
  BY RequestFields, RequestOKNow
<1>2. PICK s \in SessionCookie :
         /\ Carries(q, s)
         /\ \/ \E reply \in Replies : Answer(t, s, reply)
            \/ \E pc \in Calls :
                  /\ s.user = q.sess.user
                  /\ s.version = q.sess.version
                  /\ s.totp = q.sess.totp
                  /\ MayCall(q, pc)
                  /\ Continue(t, pc, s)
  BY DEF Handled
<1>3. Worth(s)
  <2>1. CASE /\ s.user = q.sess.user
             /\ s.version = q.sess.version
             /\ s.totp = q.sess.totp
             /\ q.pc # "getAccount"
    BY <1>1, <2>1 DEF RequestOK, Identity
  <2>2. CASE s = EmptySession
    BY <2>2, EmptyOK
  <2>3. CASE /\ q.pc = "getAccount"
             /\ s = [EmptySession EXCEPT !.user = q.sess.user,
                                         !.lastUrl = q.sess.lastUrl]
    <3>1. s.user = q.sess.user /\ s.version = NoVersion /\ s.totp = FALSE
      BY <2>3 DEF EmptySession
    <3>2. <<b, q.sess.user>> \in firstFactor \cup registered
      BY <1>1, <2>3 DEF RequestOK
    <3> QED
      BY <3>1, <3>2 DEF Identity
  <2> QED
    BY <1>2, <2>1, <2>2, <2>3 DEF Carries
<1>4. ASSUME NEW reply \in Replies, Answer(t, s, reply)
      PROVE  RequestsOK'
  <2> DEFINE r == [q EXCEPT !.pc = "respond", !.sess = s, !.reply = reply]
  <2>1. tab' = [tab EXCEPT ![t] = r]
    BY <1>4 DEF Answer
  <2>2. r.pc = "respond" /\ r.sess = s /\ r.invite = q.invite
    BY <1>1 DEF Request
  <2>3. RequestOK(r, b, firstFactor, secondFactor, registered)
    BY <1>1, <1>3, <2>2 DEF RequestOK
  <2>4. RequestOK(r, b, firstFactor', secondFactor', registered')
    BY <2>3, StillOK
  <2> QED
    BY <2>1, <2>4, RequestsAfter
<1>5. ASSUME NEW pc \in Calls, MayCall(q, pc), Continue(t, pc, s),
             s.user = q.sess.user, s.version = q.sess.version,
             s.totp = q.sess.totp
      PROVE  RequestsOK'
  <2> DEFINE r == [q EXCEPT !.pc = pc, !.sess = s]
  <2>1. tab' = [tab EXCEPT ![t] = r]
    BY <1>5 DEF Continue
  <2>2. r.pc = pc /\ r.sess = s /\ r.invite = q.invite /\ r.me = q.me
    BY <1>1 DEF Request
  <2>3. q.me.user = q.sess.user
    BY <1>1, <1>5 DEF RequestOK, MayCall
  <2>4. pc = "serve" => q.me.version = s.version /\ s.totp
    BY <1>5 DEF MayCall, HasValidSession
  <2>5. pc # "getAccount"
    BY DEF Calls
  <2>6. RequestOK(r, b, firstFactor, secondFactor, registered)
    BY <1>1, <1>3, <1>5, <2>2, <2>3, <2>4, <2>5
       DEF RequestOK, HasValidSession
  <2>7. RequestOK(r, b, firstFactor', secondFactor', registered')
    BY <2>6, StillOK
  <2> QED
    BY <2>1, <2>7, RequestsAfter
<1> QED
  BY <1>2, <1>4, <1>5

\* Every step keeps sessions worth what their browsers have proved.
LEMMA EstablishedStep ==
    ASSUME Serviceless = {}, Typed, Established, [Next]_vars
    PROVE  Established'
<1> USE SessionAssumption DEF Backends, Cookies, ghosts
<1>1. ASSUME NEW t \in Tabs, NEW route \in Routes, NEW who \in MaybeUser,
             Visit(t, route, who)
      PROVE  Established'
  <2> DEFINE b == BrowserOf[t]
             r == Arriving(route, who, jar[b], invite[b])
  <2>1. /\ jar[b] \in SessionCookie
        /\ Identity(b, jar[b], firstFactor, secondFactor, registered)
        /\ Invited(b, invite[b], registered)
    BY DEF Established, CookiesOK, Typed, TypeOK
  <2>2. RequestOK(r, b, firstFactor', secondFactor', registered')
    BY <1>1, <2>1, ArrivingOK DEF Visit
  <2>3. tab' = [tab EXCEPT ![t] = r]
    BY <1>1 DEF Visit
  <2> QED
    BY <1>1, <2>2, <2>3, RequestsAfter, CookiesAfter DEF Visit, Established
<1>2. ASSUME NEW t \in Tabs, Deserialize(t)
      PROVE  Established'
  <2> DEFINE q == tab[t]
             u == q.sess.user
             r == [q EXCEPT !.pc = "handle", !.me = Fetched(u),
                            !.writes = {"session"}]
  <2>1. q \in Request /\ q.pc = "deserialize"
    BY <1>2, RequestFields DEF Deserialize
  <2>2. /\ r.pc = "handle" /\ r.sess = q.sess /\ r.invite = q.invite
        /\ r.me.user = u
    BY <2>1 DEF Request, Fetched
  <2>3. RequestOK(r, BrowserOf[t], firstFactor', secondFactor', registered')
    BY <1>2, <2>1, <2>2, RequestOKNow DEF RequestOK, Deserialize
  <2>4. tab' = [tab EXCEPT ![t] = r]
    BY <1>2 DEF Deserialize
  <2> QED
    BY <1>2, <2>3, <2>4, RequestsAfter, CookiesAfter
       DEF Deserialize, Established
<1>3. ASSUME NEW t \in Tabs, Deliver(t)
      PROVE  Established'
  <2> DEFINE b == BrowserOf[t]
             q == tab[t]
             s == IF "session" \in q.writes THEN q.sess ELSE jar[b]
             i == IF "invite" \in q.writes THEN q.invite ELSE invite[b]
             n == IF q.reply \in Pages THEN Arriving(q.reply, NoUser, s, i)
                  ELSE NoRequest
  <2>1. /\ b \in Browsers /\ q.sess \in SessionCookie
        /\ jar[b] \in SessionCookie /\ q.pc = "respond"
    BY <1>3, RequestFields DEF Deliver, Typed, TypeOK
  <2>2. /\ Identity(b, jar[b], firstFactor, secondFactor, registered)
        /\ Invited(b, invite[b], registered)
    BY <2>1 DEF Established, CookiesOK
  <2>3. /\ Identity(b, q.sess, firstFactor, secondFactor, registered)
        /\ Invited(b, q.invite, registered)
    BY <2>1, RequestOKNow DEF RequestOK
  <2>4. /\ s \in SessionCookie
        /\ Identity(b, s, firstFactor, secondFactor, registered)
        /\ Invited(b, i, registered)
    BY <2>1, <2>2, <2>3
  <2>5. CookiesOK'
    <3>1. SUFFICES ASSUME NEW o \in Browsers
                   PROVE  /\ Identity(o, jar'[o], firstFactor, secondFactor,
                                      registered)
                          /\ Invited(o, invite'[o], registered)
      BY <1>3 DEF Deliver, CookiesOK
    <3>2. CASE o = b
      <4>1. jar'[o] = s /\ invite'[o] = i
        BY <1>3, <3>2 DEF Deliver, Typed, TypeOK
      <4> QED
        BY <2>4, <3>2, <4>1
    <3>3. CASE o # b
      <4>1. jar'[o] = jar[o] /\ invite'[o] = invite[o]
        BY <1>3, <3>3 DEF Deliver, Typed, TypeOK
      <4> QED
        BY <4>1 DEF Established, CookiesOK
    <3> QED
      BY <3>2, <3>3
  <2>6. RequestOK(n, b, firstFactor, secondFactor, registered)
    BY <2>1, <2>4, ArrivingOK, EmptyOK
  <2>7. RequestOK(n, b, firstFactor', secondFactor', registered')
    BY <1>3, <2>6 DEF Deliver
  <2>8. tab' = [tab EXCEPT ![t] = n]
    BY <1>3 DEF Deliver
  <2> QED
    BY <2>5, <2>7, <2>8, RequestsAfter DEF Established
<1>4. ASSUME NEW t \in Tabs, Lose(t)
      PROVE  Established'
  <2>1. tab' = [tab EXCEPT ![t] = NoRequest]
    BY <1>4 DEF Lose
  <2> QED
    BY <1>4, <2>1, EmptyOK, RequestsAfter, CookiesAfter DEF Lose, Established
<1>5. ASSUME NEW t \in Tabs, Handler(t) \/ Effect(t)
      PROVE  Established'
  BY <1>5, HandlerShape, EffectShape, HandlerFrame, EffectFrame, HandledOK,
     CookiesAfter DEF Established
<1>6. ASSUME NEW t \in Tabs, Authenticate(t)
      PROVE  Established'
  <2> DEFINE q == tab[t]
             u == q.who
             b == BrowserOf[t]
             s == [q.sess EXCEPT !.user = u]
             r == [q EXCEPT !.pc = "getAccount", !.sess = s,
                            !.me = Fetched(u)]
  <2>1. /\ q \in Request /\ q.sess \in SessionCookie
        /\ q.pc = "authenticate" /\ u # NoUser
    BY <1>6, RequestFields DEF Authenticate
  <2>2. s.user = u /\ s.totp = q.sess.totp /\ s.version = q.sess.version
    BY <2>1 DEF SessionCookie
  <2>3. /\ r.pc = "getAccount" /\ r.sess = s /\ r.invite = q.invite
        /\ r.me.user = u
    BY <2>1, <2>2 DEF Request, Fetched
  <2>4. <<b, u>> \in firstFactor' /\ registered' = registered
    BY <1>6 DEF Authenticate
  <2>5. /\ Invited(b, q.invite, registered)
        /\ (q.sess.version # NoVersion) <=> q.sess.totp
    BY <2>1, RequestOKNow DEF RequestOK, Identity
  <2>6. RequestOK(r, b, firstFactor', secondFactor', registered')
    BY <2>1, <2>2, <2>3, <2>4, <2>5 DEF RequestOK
  <2>7. tab' = [tab EXCEPT ![t] = r]
    BY <1>6 DEF Authenticate
  <2> QED
    BY <1>6, <2>6, <2>7, RequestsAfter, CookiesAfter
       DEF Authenticate, Established
<1>7. ASSUME NEW t \in Tabs, VerifyOTP(t)
      PROVE  Established'
  <2> DEFINE q == tab[t]
             u == q.me.user
             b == BrowserOf[t]
             v == account[u].version
             to == IF q.sess.lastUrl = NoUrl THEN "dashboard"
                   ELSE q.sess.lastUrl
             s == [q.sess EXCEPT !.user = u, !.totp = TRUE,
                                 !.lastUrl = NoUrl, !.version = v]
             r == [q EXCEPT !.pc = "respond", !.me = Fetched(u),
                            !.sess = s, !.reply = to]
  <2>1. q \in Request /\ q.sess \in SessionCookie /\ q.pc = "verifyOTP"
    BY <1>7, RequestFields DEF VerifyOTP
  <2>2. u = q.sess.user /\ u # NoUser
    BY <2>1, RequestOKNow, RequestFields DEF RequestOK, PointOK
  <2>3. v \in Nat
    BY <2>2, RequestFields DEF Typed, TypeOK, Account, MaybeUser
  <2>4. s.user = u /\ s.totp /\ s.version = v
    BY <2>1 DEF SessionCookie
  <2>5. r.pc = "respond" /\ r.sess = s /\ r.invite = q.invite
    BY <2>1 DEF Request
  <2>6. /\ <<b, u, v>> \in secondFactor' /\ registered' = registered
        /\ firstFactor' = firstFactor
    BY <1>7 DEF VerifyOTP
  <2>7. /\ <<b, u>> \in firstFactor \cup registered
        /\ Invited(b, q.invite, registered)
    BY <2>1, <2>2, RequestOKNow DEF RequestOK, Identity
  <2>8. v # NoVersion
    BY <2>3 DEF NoVersion
  <2>9. RequestOK(r, b, firstFactor', secondFactor', registered')
    BY <2>2, <2>4, <2>5, <2>6, <2>7, <2>8 DEF RequestOK, Identity
  <2>10. tab' = [tab EXCEPT ![t] = r]
    <3>1. Fetched(u).version = v
      BY DEF Fetched
    <3> QED
      BY <1>7, <3>1 DEF VerifyOTP, WithVersionOf
  <2> QED
    BY <1>7, <2>9, <2>10, RequestsAfter, CookiesAfter
       DEF VerifyOTP, Established
<1>8. ASSUME NEW t \in Tabs, DirectLogin(t)
      PROVE  Established'
  <2> DEFINE q == tab[t]
             u == q.invite
             b == BrowserOf[t]
             v == q.me.version
             s == [q.sess EXCEPT !.user = u, !.totp = TRUE, !.version = v]
             r == [q EXCEPT !.pc = "guard", !.sess = s, !.me = Fetched(u),
                            !.invite = NoUser,
                            !.writes = {"session", "invite"}]
  <2>1. /\ q \in Request /\ q.sess \in SessionCookie /\ v \in Nat
        /\ u # NoUser
    BY <1>8, RequestFields DEF DirectLogin
  <2>2. s.user = u /\ s.totp /\ s.version = v
    BY <2>1 DEF SessionCookie
  <2>3. /\ r.pc = "guard" /\ r.sess = s /\ r.invite = NoUser
        /\ r.me.user = u
    BY <2>1 DEF Request, Fetched
  <2>4. <<b, u>> \in registered
    BY <2>1, RequestOKNow DEF RequestOK, Invited
  <2>5. v # NoVersion
    BY <2>1 DEF NoVersion
  <2>6. RequestOK(r, b, firstFactor, secondFactor, registered)
    BY <2>1, <2>2, <2>3, <2>4, <2>5 DEF RequestOK, Identity, Invited
  <2>7. RequestOK(r, b, firstFactor', secondFactor', registered')
    BY <1>8, <2>6 DEF DirectLogin
  <2>8. tab' = [tab EXCEPT ![t] = r]
    BY <1>8 DEF DirectLogin, WithVersionOf
  <2> QED
    BY <1>8, <2>7, <2>8, RequestsAfter, CookiesAfter
       DEF DirectLogin, Established
<1>9. ASSUME NEW t \in Tabs, DirectLoginFails(t)
      PROVE  Established'
  <2> DEFINE q == tab[t]
             r == [q EXCEPT !.pc = "respond", !.reply = "login",
                            !.invite = NoUser,
                            !.writes = {"session", "invite"}]
  <2>1. q \in Request /\ q.pc = "findInvited"
    BY <1>9, RequestFields DEF DirectLoginFails
  <2>2. r.pc = "respond" /\ r.sess = q.sess /\ r.invite = NoUser
    BY <2>1 DEF Request
  <2>3. RequestOK(r, BrowserOf[t], firstFactor', secondFactor', registered')
    BY <1>9, <2>1, <2>2, RequestOKNow
       DEF DirectLoginFails, RequestOK, Invited
  <2>4. tab' = [tab EXCEPT ![t] = r]
    BY <1>9 DEF DirectLoginFails
  <2> QED
    BY <1>9, <2>3, <2>4, RequestsAfter, CookiesAfter
       DEF DirectLoginFails, Established
<1>10. ASSUME NEW t \in Tabs, CreateUser(t)
       PROVE  Established'
  <2> DEFINE q == tab[t]
             u == q.who
             b == BrowserOf[t]
             r == [q EXCEPT !.pc = "respond", !.reply = "direct",
                            !.invite = u,
                            !.writes = {"session", "invite"}]
  <2>1. q \in Request /\ q.pc = "createUser"
    BY <1>10, RequestFields DEF CreateUser
  <2>2. r.pc = "respond" /\ r.sess = q.sess /\ r.invite = u
    BY <2>1 DEF Request
  <2>3. <<b, u>> \in registered'
    BY <1>10 DEF CreateUser
  <2>4. Identity(b, q.sess, firstFactor, secondFactor, registered)
    BY <2>1, RequestOKNow DEF RequestOK
  <2>5. Identity(b, q.sess, firstFactor', secondFactor', registered')
    BY <2>4, StillOK
  <2>6. RequestOK(r, b, firstFactor', secondFactor', registered')
    BY <2>2, <2>3, <2>5 DEF RequestOK, Invited
  <2>7. tab' = [tab EXCEPT ![t] = r]
    BY <1>10 DEF CreateUser
  <2> QED
    BY <1>10, <2>6, <2>7, RequestsAfter, CookiesAfter
       DEF CreateUser, Established
<1>11. ASSUME Adminusers \/ UNCHANGED vars
       PROVE  Established'
  BY <1>11 DEF Adminusers, IncrementSessionVersion, LoseIncrement, Disable,
               vars, Established, CookiesOK, RequestsOK
<1>12. ASSUME NEW t \in Tabs, Visits(t)
       PROVE  Established'
  BY <1>1, <1>12 DEF Visits, MaybeUser
<1> QED
  BY <1>2, <1>3, <1>4, <1>5, <1>6, <1>7, <1>8, <1>9, <1>10, <1>11, <1>12,
     WorkKinds DEF Next

\* Nobody is logged in at first.
LEMMA EstablishedAtStart == Init => Established
  BY SessionAssumption, EmptyOK
     DEF Init, Established, CookiesOK, RequestsOK, Invited

\* No page behind the guards without both factors (or a registration) of that
\* very user, given in that very browser, at the version the request read.
THEOREM BothFactors ==
    ASSUME Serviceless = {}
    PROVE  Spec => []AccessNeedsBothFactors
<1>1. Init => Typed /\ Established
  BY TypedAtStart, EstablishedAtStart
<1>2. Typed /\ Established /\ [Next]_vars => (Typed /\ Established)'
  BY TypeStep, EstablishedStep
<1>3. Typed /\ Established => AccessNeedsBothFactors
  <2> SUFFICES ASSUME Typed, Established, NEW t \in Tabs, tab[t].pc = "serve"
               PROVE  LET b == BrowserOf[t]
                          u == tab[t].sess.user
                      IN \/ /\ <<b, u>> \in firstFactor
                            /\ <<b, u, tab[t].me.version>> \in secondFactor
                         \/ <<b, u>> \in registered
    BY DEF AccessNeedsBothFactors
  <2> QED
    BY RequestOKNow DEF RequestOK, Identity, HasValidSession
<1> QED
  BY <1>1, <1>2, <1>3, PTL DEF Spec

\* A session has a version exactly when it has the second factor, and only
\* with a user.
THEOREM VersionWithFactor ==
    ASSUME Serviceless = {}
    PROVE  Spec => []VersionExactlyWithSecondFactor
<1>1. Init => Typed /\ Established
  BY TypedAtStart, EstablishedAtStart
<1>2. Typed /\ Established /\ [Next]_vars => (Typed /\ Established)'
  BY TypeStep, EstablishedStep
<1>3. Typed /\ Established => VersionExactlyWithSecondFactor
  <2>1. ASSUME Established, NEW b \in Browsers
        PROVE  /\ (jar[b].version # NoVersion) <=> jar[b].totp
               /\ jar[b].totp => jar[b].user # NoUser
    BY <2>1 DEF Established, CookiesOK, Identity
  <2>2. ASSUME Established, NEW t \in Tabs
        PROVE  /\ (tab[t].sess.version # NoVersion) <=> tab[t].sess.totp
               /\ tab[t].sess.totp => tab[t].sess.user # NoUser
    BY <2>2, RequestOKNow DEF RequestOK, Identity
  <2> QED
    BY <2>1, <2>2 DEF VersionExactlyWithSecondFactor, SessionCopies
<1> QED
  BY <1>1, <1>2, <1>3, PTL DEF Spec
-----------------------------------------------------------------------------
(* Codes                                                                   *)

\* A session that says, before the second factor, that a code was sent.
Asked(b, s, sent) == s.sentCode /\ ~s.totp => <<b, s.user>> \in sent

\* Between the password and postLogin the copy may still have the sentCode of
\* the user before.
CodesOK ==
    /\ \A b \in Browsers : Asked(b, jar[b], codesSent)
    /\ \A t \in Tabs : tab[t].pc # "getAccount" =>
                          Asked(BrowserOf[t], tab[t].sess, codesSent)

\* Codes are not taken back.
LEMMA CodesGrow ==
    ASSUME [Next]_vars
    PROVE  codesSent \subseteq codesSent'
<1>1. ASSUME NEW t \in Tabs, Work(t)
      PROVE  codesSent \subseteq codesSent'
  <2>1. CASE Handler(t)
    BY <2>1, HandlerFrame
  <2>2. CASE Effect(t)
    BY <2>2 DEF Effect, SendOTP, Logout, SendOTPFails, CreateUserFails,
                FinishReset, ghosts
  <2> QED
    BY <1>1, <2>1, <2>2, WorkKinds
       DEF Deserialize, Deliver, Lose, Authenticate, VerifyOTP, DirectLogin,
           DirectLoginFails, CreateUser, ghosts
<1>2. ASSUME NEW t \in Tabs, Visits(t)
      PROVE  UNCHANGED codesSent
  BY <1>2 DEF Visits, Visit, ghosts
<1>3. ASSUME Adminusers
      PROVE  UNCHANGED codesSent
  BY <1>3 DEF Adminusers, IncrementSessionVersion, LoseIncrement, Disable, ghosts
<1>4. CASE UNCHANGED vars
  BY <1>4 DEF vars, ghosts
<1> QED
  BY <1>1, <1>2, <1>3, <1>4 DEF Next

\* After a step on one request that leaves the cookies alone.
LEMMA CodesAfter ==
    ASSUME Typed, CodesOK, [Next]_vars, NEW t \in Tabs, NEW r,
           tab' = [tab EXCEPT ![t] = r], jar' = jar,
           r.pc # "getAccount" => Asked(BrowserOf[t], r.sess, codesSent')
    PROVE  CodesOK'
<1>1. codesSent \subseteq codesSent'
  BY CodesGrow
<1>2. ASSUME NEW o \in Tabs, tab'[o].pc # "getAccount"
      PROVE  Asked(BrowserOf[o], tab'[o].sess, codesSent')
  <2>1. CASE o = t
    BY <1>2, <2>1 DEF Typed, TypeOK
  <2>2. CASE o # t
    <3>1. tab'[o] = tab[o]
      BY <2>2 DEF Typed, TypeOK
    <3> QED
      BY <1>1, <1>2, <3>1 DEF CodesOK, Asked
  <2> QED
    BY <2>1, <2>2
<1> QED
  BY <1>1, <1>2 DEF CodesOK, Asked

\* A request that was handled without sending a code says nothing new.
LEMMA HandledCodes ==
    ASSUME Serviceless = {}, Typed, CodesOK, [Next]_vars,
           NEW t \in Tabs, Handled(t), tab[t].pc # "sendOTP", jar' = jar
    PROVE  CodesOK'
<1> DEFINE b == BrowserOf[t]
           q == tab[t]
<1>1. q \in Request /\ q.sess \in SessionCookie
  BY RequestFields
<1>2. PICK s \in SessionCookie :
         /\ Carries(q, s)
         /\ \/ \E reply \in Replies : Answer(t, s, reply)
            \/ \E pc \in Calls : Continue(t, pc, s)
  BY DEF Handled
<1>3. Asked(b, s, codesSent)
  <2>1. CASE ~s.sentCode
    BY <2>1 DEF Asked
  <2>2. CASE /\ s.user = q.sess.user /\ s.totp = q.sess.totp
             /\ s.sentCode => q.sess.sentCode
             /\ q.pc # "getAccount"
    BY <2>2 DEF CodesOK, Asked
  <2>3. CASE s = EmptySession
    BY <2>1, <2>3 DEF EmptySession
  <2>4. CASE s = [EmptySession EXCEPT !.user = q.sess.user,
                                      !.lastUrl = q.sess.lastUrl]
    <3>1. s.sentCode = FALSE
      BY <2>4 DEF EmptySession
    <3> QED
      BY <2>1, <3>1
  <2> QED
    BY <1>2, <2>2, <2>3, <2>4 DEF Carries
<1>4. Asked(b, s, codesSent')
  BY <1>3, CodesGrow DEF Asked
<1>5. ASSUME NEW reply \in Replies, Answer(t, s, reply)
      PROVE  CodesOK'
  <2> DEFINE r == [q EXCEPT !.pc = "respond", !.sess = s, !.reply = reply]
  <2>1. tab' = [tab EXCEPT ![t] = r]
    BY <1>5 DEF Answer
  <2>2. r.sess = s
    BY <1>1 DEF Request
  <2> QED
    BY <1>4, <2>1, <2>2, CodesAfter
<1>6. ASSUME NEW pc \in Calls, Continue(t, pc, s)
      PROVE  CodesOK'
  <2> DEFINE r == [q EXCEPT !.pc = pc, !.sess = s]
  <2>1. tab' = [tab EXCEPT ![t] = r]
    BY <1>6 DEF Continue
  <2>2. r.sess = s
    BY <1>1 DEF Request
  <2> QED
    BY <1>4, <2>1, <2>2, CodesAfter
<1> QED
  BY <1>2, <1>5, <1>6

\* sendOTP: a code went to req.user, who is the user of the session.
LEMMA SentCodes ==
    ASSUME Typed, Established, CodesOK, [Next]_vars, NEW t \in Tabs,
           SendOTP(t) \/ \E ok \in BOOLEAN : SendOTPFails(t, ok)
    PROVE  CodesOK'
<1> DEFINE b == BrowserOf[t]
           q == tab[t]
<1>1. q \in Request /\ q.sess \in SessionCookie /\ q.pc = "sendOTP" /\ jar' = jar
  BY RequestFields DEF SendOTP, SendOTPFails, Cookies
<1>2. q.me.user = q.sess.user
  BY <1>1, RequestOKNow DEF RequestOK
<1>3. Asked(b, q.sess, codesSent')
  BY <1>1, CodesGrow DEF CodesOK, Asked
<1>4. ASSUME NEW s \in SessionCookie, NEW reply \in Replies, Answer(t, s, reply),
             Asked(b, s, codesSent')
      PROVE  CodesOK'
  <2> DEFINE r == [q EXCEPT !.pc = "respond", !.sess = s, !.reply = reply]
  <2>1. tab' = [tab EXCEPT ![t] = r]
    BY <1>4 DEF Answer
  <2>2. r.sess = s
    BY <1>1 DEF Request
  <2> QED
    BY <1>1, <1>4, <2>1, <2>2, CodesAfter
<1>5. CASE SendOTP(t)
  <2> DEFINE s == [q.sess EXCEPT !.sentCode = TRUE]
  <2>1. s \in SessionCookie /\ s.user = q.sess.user
    BY <1>1 DEF SessionCookie
  <2>2. <<b, q.sess.user>> \in codesSent'
    BY <1>2, <1>5 DEF SendOTP
  <2>3. Asked(b, s, codesSent')
    BY <2>1, <2>2 DEF Asked
  <2>4. Answer(t, s, "page") \/ Answer(t, q.sess, "otpLogin")
    BY <1>5 DEF SendOTP
  <2> QED
    BY <1>1, <1>3, <1>4, <2>1, <2>3, <2>4, ReplyNames
<1>6. CASE \E ok \in BOOLEAN : SendOTPFails(t, ok)
  BY <1>1, <1>3, <1>4, <1>6, ReplyNames DEF SendOTPFails
<1> QED
  BY <1>5, <1>6

\* Every step keeps what sessions say of codes true.
LEMMA CodesStep ==
    ASSUME Serviceless = {}, Typed, Established, CodesOK, [Next]_vars
    PROVE  CodesOK'
<1> USE SessionAssumption DEF Backends, Cookies, ghosts
<1>1. ASSUME NEW t \in Tabs, NEW r, tab' = [tab EXCEPT ![t] = r], jar' = jar,
             \/ r.sess = tab[t].sess /\ tab[t].pc # "getAccount"
             \/ r.sess = jar[BrowserOf[t]] /\ BrowserOf[t] \in Browsers
             \/ ~r.sess.sentCode \/ r.sess.totp \/ r.pc = "getAccount"
      PROVE  CodesOK'
  <2>1. r.pc # "getAccount" => Asked(BrowserOf[t], r.sess, codesSent')
    BY <1>1, CodesGrow DEF CodesOK, Asked
  <2> QED
    BY <1>1, <2>1, CodesAfter
<1>2. ASSUME NEW t \in Tabs, NEW route \in Routes, NEW who \in MaybeUser,
             Visit(t, route, who)
      PROVE  CodesOK'
  <2> DEFINE r == Arriving(route, who, jar[BrowserOf[t]], invite[BrowserOf[t]])
  <2>1. tab' = [tab EXCEPT ![t] = r] /\ jar' = jar
    BY <1>2 DEF Visit
  <2>2. r.sess = jar[BrowserOf[t]] /\ BrowserOf[t] \in Browsers
    BY DEF Arriving
  <2> QED
    BY <1>1, <2>1, <2>2
<1>3. ASSUME NEW t \in Tabs, Deserialize(t)
      PROVE  CodesOK'
  <2> DEFINE r == [tab[t] EXCEPT !.pc = "handle", !.writes = {"session"},
                                 !.me = Fetched(tab[t].sess.user)]
  <2>1. tab' = [tab EXCEPT ![t] = r] /\ jar' = jar
    BY <1>3 DEF Deserialize
  <2>2. r.sess = tab[t].sess /\ tab[t].pc # "getAccount"
    BY <1>3, RequestFields DEF Deserialize, Request
  <2> QED
    BY <1>1, <2>1, <2>2
<1>4. ASSUME NEW t \in Tabs, Deliver(t)
      PROVE  CodesOK'
  <2> DEFINE b == BrowserOf[t]
             q == tab[t]
             s == IF "session" \in q.writes THEN q.sess ELSE jar[b]
             i == IF "invite" \in q.writes THEN q.invite ELSE invite[b]
             n == IF q.reply \in Pages THEN Arriving(q.reply, NoUser, s, i)
                  ELSE NoRequest
  <2>1. b \in Browsers /\ q.pc = "respond" /\ codesSent' = codesSent
    BY <1>4 DEF Deliver
  <2>2. Asked(b, s, codesSent)
    BY <2>1 DEF CodesOK
  <2>3. Asked(b, n.sess, codesSent)
    BY <2>2 DEF Arriving, NoRequest, EmptySession, Asked
  <2>4. ASSUME NEW o \in Browsers
        PROVE  Asked(o, jar'[o], codesSent')
    <3>1. jar'[o] = IF o = b THEN s ELSE jar[o]
      BY <1>4 DEF Deliver, Typed, TypeOK
    <3> QED
      BY <2>1, <2>2, <3>1 DEF CodesOK
  <2>5. ASSUME NEW o \in Tabs, tab'[o].pc # "getAccount"
        PROVE  Asked(BrowserOf[o], tab'[o].sess, codesSent')
    <3>1. tab'[o] = IF o = t THEN n ELSE tab[o]
      BY <1>4 DEF Deliver, Typed, TypeOK
    <3> QED
      BY <2>1, <2>3, <2>5, <3>1 DEF CodesOK
  <2> QED
    BY <2>4, <2>5 DEF CodesOK
<1>5. ASSUME NEW t \in Tabs, Lose(t)
      PROVE  CodesOK'
  <2>1. ~NoRequest.sess.sentCode
    BY DEF NoRequest, EmptySession
  <2> QED
    BY <1>1, <1>5, <2>1 DEF Lose
<1>6. ASSUME NEW t \in Tabs, Handler(t) \/ Effect(t)
      PROVE  CodesOK'
  <2>1. Handled(t) /\ jar' = jar
    BY <1>6, HandlerShape, EffectShape, HandlerFrame, EffectFrame
  <2>2. CASE tab[t].pc # "sendOTP"
    BY <2>1, <2>2, HandledCodes
  <2>3. CASE tab[t].pc = "sendOTP"
    <3>1. ~Handler(t)
      BY <2>3 DEF Handler, DeserializeFails, GetLogin, GetOtpPage,
         AuthenticatedPage, NoAccess, AuthenticateFails, FinishLogin,
         VerifyOTPFails, Serve, GetDirectLogin, UpdatePassword,
         UpdatePasswordFails, PostSendAgain, PostOtpLogin, PostRegisterOtp,
         PostReset, PostLogin, At
    <3>2. SendOTP(t) \/ \E ok \in BOOLEAN : SendOTPFails(t, ok)
      BY <1>6, <2>3, <3>1 DEF Effect, Logout, CreateUserFails, FinishReset, At
    <3> QED
      BY <3>2, SentCodes
  <2> QED
    BY <2>2, <2>3
<1>7. ASSUME NEW t \in Tabs, Authenticate(t)
      PROVE  CodesOK'
  <2> DEFINE r == [tab[t] EXCEPT !.pc = "getAccount",
                                 !.sess = [@ EXCEPT !.user = tab[t].who],
                                 !.me = Fetched(tab[t].who)]
  <2>1. tab' = [tab EXCEPT ![t] = r] /\ jar' = jar
    BY <1>7 DEF Authenticate
  <2>2. r.pc = "getAccount"
    BY RequestFields DEF Request
  <2> QED
    BY <1>1, <2>1, <2>2
<1>8. ASSUME NEW t \in Tabs, VerifyOTP(t)
      PROVE  CodesOK'
  <2> DEFINE q == tab[t]
             u == q.me.user
             s == WithVersionOf([q.sess EXCEPT !.user = u, !.totp = TRUE,
                                               !.lastUrl = NoUrl], Fetched(u))
             r == [q EXCEPT !.pc = "respond", !.me = Fetched(u), !.sess = s,
                            !.reply = IF q.sess.lastUrl = NoUrl THEN "dashboard"
                                      ELSE q.sess.lastUrl]
  <2>1. tab' = [tab EXCEPT ![t] = r] /\ jar' = jar
    BY <1>8 DEF VerifyOTP
  <2>2. r.sess = s /\ s.totp
    BY RequestFields DEF Request, SessionCookie, WithVersionOf
  <2> QED
    BY <1>1, <2>1, <2>2
<1>9. ASSUME NEW t \in Tabs, DirectLogin(t)
      PROVE  CodesOK'
  <2> DEFINE q == tab[t]
             u == q.invite
             s == WithVersionOf([q.sess EXCEPT !.user = u, !.totp = TRUE], q.me)
             r == [q EXCEPT !.pc = "guard", !.sess = s, !.me = Fetched(u),
                            !.invite = NoUser, !.writes = {"session", "invite"}]
  <2>1. tab' = [tab EXCEPT ![t] = r] /\ jar' = jar
    BY <1>9 DEF DirectLogin
  <2>2. r.sess = s /\ s.totp
    BY RequestFields DEF Request, SessionCookie, WithVersionOf
  <2> QED
    BY <1>1, <2>1, <2>2
<1>10. ASSUME NEW t \in Tabs, DirectLoginFails(t)
       PROVE  CodesOK'
  <2> DEFINE r == [tab[t] EXCEPT !.pc = "respond", !.reply = "login",
                                 !.invite = NoUser,
                                 !.writes = {"session", "invite"}]
  <2>1. tab' = [tab EXCEPT ![t] = r] /\ jar' = jar
    BY <1>10 DEF DirectLoginFails
  <2>2. r.sess = tab[t].sess /\ tab[t].pc # "getAccount"
    BY <1>10, RequestFields DEF DirectLoginFails, Request
  <2> QED
    BY <1>1, <2>1, <2>2
<1>11. ASSUME NEW t \in Tabs, CreateUser(t)
       PROVE  CodesOK'
  <2> DEFINE r == [tab[t] EXCEPT !.pc = "respond", !.reply = "direct",
                                 !.invite = tab[t].who,
                                 !.writes = {"session", "invite"}]
  <2>1. tab' = [tab EXCEPT ![t] = r] /\ jar' = jar
    BY <1>11 DEF CreateUser
  <2>2. r.sess = tab[t].sess /\ tab[t].pc # "getAccount"
    BY <1>11, RequestFields DEF CreateUser, Request
  <2> QED
    BY <1>1, <2>1, <2>2
<1>12. ASSUME Adminusers \/ UNCHANGED vars
       PROVE  CodesOK'
  BY <1>12 DEF Adminusers, IncrementSessionVersion, LoseIncrement, Disable,
               vars, CodesOK
<1>13. ASSUME NEW t \in Tabs, Visits(t)
       PROVE  CodesOK'
  BY <1>2, <1>13 DEF Visits, MaybeUser
<1> QED
  BY <1>3, <1>4, <1>5, <1>6, <1>7, <1>8, <1>9, <1>10, <1>11, <1>12, <1>13,
     WorkKinds DEF Next

\* sentCode means that a code went to the user of the session, from that
\* browser: otpLogin does not send another (otp-login-controller.js:12).
THEOREM CodesWereSent ==
    ASSUME Serviceless = {}
    PROVE  Spec => []CodeAskedForWasSent
<1>1. Init => Typed /\ Established /\ CodesOK
  BY TypedAtStart, EstablishedAtStart, SessionAssumption
     DEF Init, CodesOK, Asked, EmptySession, NoRequest
<1>2. Typed /\ Established /\ CodesOK /\ [Next]_vars
         => (Typed /\ Established /\ CodesOK)'
  BY TypeStep, EstablishedStep, CodesStep
<1>3. CodesOK => CodeAskedForWasSent
  BY DEF CodesOK, Asked, CodeAskedForWasSent
<1> QED
  BY <1>1, <1>2, <1>3, PTL DEF Spec

-----------------------------------------------------------------------------
(* What a request knows is no older than its arrival                       *)

\* a: the account when the request r arrived; accounts: as they are now.
FreshOK(r, a, accounts) ==
    /\ a.user = NoUser => a = NotLoggedIn
    /\ a.user # NoUser => /\ a.version <= accounts[a.user].version
                          /\ a.disabled => accounts[a.user].disabled
    /\ r.pc = "deserialize" => a.user = r.sess.user
    /\ r.pc \notin {"idle", "deserialize", "respond"} =>
          r.me.user = r.sess.user
    /\ \/ r.pc = "handle"
       \/ r.pc = "serve" /\ r.route # "direct"
       => a.user = r.me.user /\ a.version <= r.me.version
    /\ /\ r.pc \in {"handle", "guard", "serve"}
       /\ a.user = r.me.user
       /\ a.disabled
       => r.me.disabled
    /\ r.pc = "serve" => HasValidSession(r) /\ FirstFactorHolds(r)

Fresh == \A t \in Tabs : FreshOK(tab[t], arrival[t], account)

\* Versions only go up, and nobody is enabled again.
Grown(before, after) ==
    \A u \in Users : /\ before[u].version <= after[u].version
                     /\ before[u].disabled => after[u].disabled

\* Accounts are registered once and their versions never go down.
LEMMA AccountsGrow ==
    ASSUME Typed, [Next]_vars
    PROVE  Grown(account, account')
<1>1. account \in [Users -> Account]
  BY DEF Typed, TypeOK
<1>2. CASE account' = account
  BY <1>1, <1>2 DEF Grown, Account
<1>3. ASSUME NEW u \in Users,
             \/ account' = [account EXCEPT ![u].registered = TRUE]
             \/ account' = [account EXCEPT ![u].disabled = TRUE]
             \/ account' = [account EXCEPT ![u].version = @ + 1]
      PROVE  Grown(account, account')
  <2> SUFFICES ASSUME NEW o \in Users
               PROVE  /\ account[o].version <= account'[o].version
                      /\ account[o].disabled => account'[o].disabled
    BY DEF Grown
  <2>1. CASE o # u
    BY <1>1, <1>3, <2>1 DEF Account
  <2>2. CASE o = u
    <3>1. account[o] \in Account /\ account[o].version \in Nat
      BY <1>1 DEF Account
    <3>2. \/ account'[o] = [account[o] EXCEPT !.registered = TRUE]
          \/ account'[o] = [account[o] EXCEPT !.disabled = TRUE]
          \/ account'[o] = [account[o] EXCEPT
                               !.version = account[o].version + 1]
      BY <1>1, <1>3, <2>2
    <3> QED
      BY <3>1, <3>2 DEF Account
  <2> QED
    BY <2>1, <2>2
<1>4. ASSUME NEW t \in Tabs, Visits(t) \/ Work(t)
      PROVE  Grown(account, account')
  <2>1. CASE Visits(t)
    BY <1>2, <2>1 DEF Visits, Visit, Backends
  <2>2. CASE Handler(t)
    BY <1>2, <2>2, HandlerFrame
  <2>3. CASE Effect(t)
    <3>1. ASSUME NEW ok \in BOOLEAN, FinishReset(t, ok)
          PROVE  Grown(account, account')
      <4>1. tab[t].who \in Users
        BY <3>1, RequestFields DEF FinishReset, PointOK, MaybeUser
      <4> QED
        BY <1>2, <1>3, <3>1, <4>1 DEF FinishReset
    <3>2. ASSUME NEW ok \in BOOLEAN, CreateUserFails(t, ok)
          PROVE  Grown(account, account')
      <4>1. tab[t].who \in Invitees => tab[t].who \in Users
        BY SessionAssumption
      <4> QED
        BY <1>2, <1>3, <3>2, <4>1 DEF CreateUserFails
    <3> QED
      BY <1>2, <2>3, <3>1, <3>2
         DEF Effect, SendOTP, SendOTPFails, Logout, Backends
  <2>4. CASE CreateUser(t)
    <3>1. tab[t].who \in Users
      BY <2>4, SessionAssumption DEF CreateUser
    <3> QED
      BY <1>3, <2>4, <3>1 DEF CreateUser
  <2>5. CASE \/ Deserialize(t) \/ Deliver(t) \/ Lose(t) \/ Authenticate(t)
             \/ VerifyOTP(t) \/ DirectLogin(t) \/ DirectLoginFails(t)
    BY <1>2, <2>5 DEF Deserialize, Deliver, Lose, Authenticate, VerifyOTP,
                      DirectLogin, DirectLoginFails, Backends
  <2> QED
    BY <1>4, <2>1, <2>2, <2>3, <2>4, <2>5, WorkKinds
<1>5. CASE Adminusers
  BY <1>2, <1>3, <1>5
     DEF Adminusers, IncrementSessionVersion, LoseIncrement, Disable
<1> QED
  BY <1>2, <1>4, <1>5 DEF Next, vars

\* What was fresh for a request stays so when accounts grow.
LEMMA StillFresh ==
    ASSUME NEW before, NEW after, Grown(before, after),
           before \in [Users -> Account], after \in [Users -> Account],
           NEW r, NEW a \in ReqUser, FreshOK(r, a, before)
    PROVE  FreshOK(r, a, after)
<1>1. CASE a.user = NoUser
  BY <1>1 DEF FreshOK
<1>2. CASE a.user # NoUser
  <2>1. a.user \in Users /\ a.version \in Nat
    BY <1>2 DEF ReqUser, MaybeUser
  <2>2. before[a.user].version \in Nat /\ after[a.user].version \in Nat
    BY <2>1 DEF Account
  <2>3. /\ a.version <= after[a.user].version
        /\ a.disabled => after[a.user].disabled
    BY <1>2, <2>1, <2>2 DEF FreshOK, Grown
  <2> QED
    BY <1>2, <2>3 DEF FreshOK
<1> QED
  BY <1>1, <1>2

\* After a step on one request, which did not change its arrival or has just
\* arrived.
LEMMA FreshAfter ==
    ASSUME Typed, Fresh, [Next]_vars, NEW t \in Tabs, NEW r, NEW a \in ReqUser,
           tab' = [tab EXCEPT ![t] = r],
           arrival' = [arrival EXCEPT ![t] = a],
           FreshOK(r, a, account)
    PROVE  Fresh'
<1>1. /\ account \in [Users -> Account] /\ account' \in [Users -> Account]
      /\ arrival \in [Tabs -> ReqUser] /\ Grown(account, account')
  BY TypeStep, AccountsGrow DEF Typed, TypeOK
<1> SUFFICES ASSUME NEW o \in Tabs
             PROVE  FreshOK(tab'[o], arrival'[o], account')
  BY DEF Fresh
<1>2. CASE o = t
  <2>1. tab'[o] = r /\ arrival'[o] = a
    BY <1>1, <1>2 DEF Typed, TypeOK
  <2> QED
    BY <1>1, <2>1, StillFresh
<1>3. CASE o # t
  <2>1. tab'[o] = tab[o] /\ arrival'[o] = arrival[o]
    BY <1>1, <1>3 DEF Typed, TypeOK
  <2>2. FreshOK(tab[o], arrival[o], account) /\ arrival[o] \in ReqUser
    BY <1>1 DEF Fresh
  <2> QED
    BY <1>1, <2>1, <2>2, StillFresh
<1> QED
  BY <1>2, <1>3

\* Every request is fresh with regard to its arrival.
LEMMA FreshNow ==
    ASSUME Typed, Fresh, NEW t \in Tabs
    PROVE  /\ FreshOK(tab[t], arrival[t], account)
           /\ arrival[t] \in ReqUser
           /\ arrival = [arrival EXCEPT ![t] = arrival[t]]
  BY DEF Typed, TypeOK, Fresh

\* An answered request has nothing left to know but its arrival.
LEMMA AnsweredFresh ==
    ASSUME NEW r, NEW q, NEW a, FreshOK(q, a, account),
           r.pc \in {"idle", "respond"}
    PROVE  FreshOK(r, a, account)
  BY DEF FreshOK

\* A request that arrives is fresh.
LEMMA ArrivingFresh ==
    ASSUME Typed, NEW s \in SessionCookie, NEW route, NEW who, NEW i
    PROVE  /\ FreshOK(Arriving(route, who, s, i), AccountOf(s.user), account)
           /\ AccountOf(s.user) \in ReqUser
<1>1. s.user \in MaybeUser
  BY DEF SessionCookie
<1>2. AccountOf(s.user) \in ReqUser
  BY <1>1, AccountOfType DEF Typed
<1>3. CASE s.user = NoUser
  BY <1>2, <1>3 DEF AccountOf, Arriving, FreshOK, NotLoggedIn
<1>4. CASE s.user # NoUser
  <2>1. account[s.user].version \in Nat
    BY <1>1, <1>4 DEF Typed, TypeOK, Account, MaybeUser
  <2> QED
    BY <1>2, <1>4, <2>1 DEF AccountOf, Fetched, Arriving, FreshOK
<1> QED
  BY <1>2, <1>3, <1>4

\* A handled request stays fresh.
LEMMA HandledFresh ==
    ASSUME Typed, Fresh, [Next]_vars, NEW t \in Tabs, Handled(t),
           arrival' = arrival
    PROVE  Fresh'
<1> DEFINE q == tab[t]
           a == arrival[t]
<1>1. /\ q \in Request /\ FreshOK(q, a, account) /\ a \in ReqUser
      /\ arrival' = [arrival EXCEPT ![t] = a]
  BY RequestFields, FreshNow
<1>2. ASSUME NEW s \in SessionCookie, NEW reply \in Replies,
             Answer(t, s, reply)
      PROVE  Fresh'
  <2> DEFINE r == [q EXCEPT !.pc = "respond", !.sess = s, !.reply = reply]
  <2>1. tab' = [tab EXCEPT ![t] = r]
    BY <1>2 DEF Answer
  <2>2. r.pc = "respond"
    BY <1>1 DEF Request
  <2>3. FreshOK(r, a, account)
    BY <1>1, <2>2, AnsweredFresh
  <2> QED
    BY <1>1, <2>1, <2>3, FreshAfter
<1>3. ASSUME NEW s \in SessionCookie, NEW pc \in Calls, MayCall(q, pc),
             Continue(t, pc, s), s.user = q.sess.user,
             s.version = q.sess.version, s.totp = q.sess.totp
      PROVE  Fresh'
  <2> DEFINE r == [q EXCEPT !.pc = pc, !.sess = s]
  <2>1. tab' = [tab EXCEPT ![t] = r]
    BY <1>3 DEF Continue
  <2>2. r.pc = pc /\ r.sess = s /\ r.me = q.me /\ r.route = q.route
    BY <1>1 DEF Request
  <2>3. q.me.user = q.sess.user
    BY <1>1, <1>3 DEF FreshOK, MayCall
  <2>4. FreshOK(r, a, account)
    <3>1. CASE pc # "serve"
      BY <1>1, <1>3, <2>2, <2>3, <3>1 DEF FreshOK, Calls
    <3>2. CASE pc = "serve"
      <4>1. /\ q.pc \in {"handle", "guard"}
            /\ q.pc = "guard" => q.route = "direct"
            /\ q.me.version = s.version
            /\ FirstFactorHolds(q)
        BY <1>1, <1>3, <3>2 DEF MayCall, HasValidSession
      <4> QED
        BY <1>1, <1>3, <2>2, <2>3, <3>2, <4>1
           DEF FreshOK, HasValidSession, FirstFactorHolds
    <3> QED
      BY <3>1, <3>2
  <2> QED
    BY <1>1, <2>1, <2>4, FreshAfter
<1> QED
  BY <1>2, <1>3 DEF Handled

\* Every step keeps every request fresh.
LEMMA FreshStep ==
    ASSUME Typed, Fresh, [Next]_vars
    PROVE  Fresh'
<1>1. ASSUME NEW t \in Tabs, NEW route \in Routes, NEW who \in MaybeUser,
             Visit(t, route, who)
      PROVE  Fresh'
  <2> DEFINE b == BrowserOf[t]
             r == Arriving(route, who, jar[b], invite[b])
  <2>1. jar[b] \in SessionCookie
    BY RequestFields DEF Typed, TypeOK
  <2>2. /\ tab' = [tab EXCEPT ![t] = r]
        /\ arrival' = [arrival EXCEPT ![t] = AccountOf(jar[b].user)]
    BY <1>1 DEF Visit
  <2> QED
    BY <2>1, <2>2, ArrivingFresh, FreshAfter
<1>2. ASSUME NEW t \in Tabs, Deserialize(t)
      PROVE  Fresh'
  <2> DEFINE q == tab[t]
             a == arrival[t]
             u == q.sess.user
             r == [q EXCEPT !.pc = "handle", !.me = Fetched(u),
                            !.writes = {"session"}]
  <2>1. /\ q \in Request /\ q.pc = "deserialize" /\ a.user = u
        /\ u # NoUser
    BY <1>2, RequestFields, FreshNow DEF Deserialize, FreshOK, PointOK
  <2>2. /\ r.pc = "handle" /\ r.sess = q.sess
        /\ r.me = Fetched(u)
    BY <2>1 DEF Request
  <2>3. /\ r.me.user = u /\ r.me.version = account[u].version
        /\ r.me.disabled = account[u].disabled
    BY <2>2 DEF Fetched
  <2>4. FreshOK(r, a, account)
    BY <2>1, <2>2, <2>3, FreshNow DEF FreshOK
  <2>5. tab' = [tab EXCEPT ![t] = r] /\ arrival' = arrival
    BY <1>2 DEF Deserialize
  <2> QED
    BY <2>4, <2>5, FreshNow, FreshAfter
<1>3. ASSUME NEW t \in Tabs, Deliver(t)
      PROVE  Fresh'
  <2> DEFINE b == BrowserOf[t]
             q == tab[t]
             s == IF "session" \in q.writes THEN q.sess ELSE jar[b]
             i == IF "invite" \in q.writes THEN q.invite ELSE invite[b]
  <2>1. s \in SessionCookie
    BY RequestFields DEF Typed, TypeOK
  <2>2. CASE q.reply \in Pages
    <3>1. /\ tab' = [tab EXCEPT ![t] = Arriving(q.reply, NoUser, s, i)]
          /\ arrival' = [arrival EXCEPT ![t] = AccountOf(s.user)]
      BY <1>3, <2>2 DEF Deliver
    <3> QED
      BY <2>1, <3>1, ArrivingFresh, FreshAfter
  <2>3. CASE q.reply \notin Pages
    <3>1. tab' = [tab EXCEPT ![t] = NoRequest] /\ arrival' = arrival
      BY <1>3, <2>3 DEF Deliver
    <3>2. FreshOK(NoRequest, arrival[t], account)
      BY FreshNow, AnsweredFresh DEF NoRequest
    <3> QED
      BY <3>1, <3>2, FreshNow, FreshAfter
  <2> QED
    BY <2>2, <2>3
<1>4. ASSUME NEW t \in Tabs, Lose(t)
      PROVE  Fresh'
  <2>1. tab' = [tab EXCEPT ![t] = NoRequest] /\ arrival' = arrival
    BY <1>4 DEF Lose
  <2>2. FreshOK(NoRequest, arrival[t], account)
    BY FreshNow, AnsweredFresh DEF NoRequest
  <2> QED
    BY <2>1, <2>2, FreshNow, FreshAfter
<1>5. ASSUME NEW t \in Tabs, Handler(t) \/ Effect(t)
      PROVE  Fresh'
  BY <1>5, HandlerShape, EffectShape, HandlerFrame, EffectFrame, HandledFresh
<1>6. ASSUME NEW t \in Tabs, Authenticate(t)
      PROVE  Fresh'
  <2> DEFINE q == tab[t]
             a == arrival[t]
             u == q.who
             s == [q.sess EXCEPT !.user = u]
             r == [q EXCEPT !.pc = "getAccount", !.sess = s,
                            !.me = Fetched(u)]
  <2>1. q \in Request /\ q.sess \in SessionCookie
    BY RequestFields
  <2>2. s.user = u
    BY <2>1 DEF SessionCookie
  <2>3. /\ r.pc = "getAccount" /\ r.sess = s /\ r.me.user = u
    BY <2>1 DEF Request, Fetched
  <2>4. FreshOK(r, a, account)
    BY <2>2, <2>3, FreshNow DEF FreshOK
  <2>5. tab' = [tab EXCEPT ![t] = r] /\ arrival' = arrival
    BY <1>6 DEF Authenticate
  <2> QED
    BY <2>4, <2>5, FreshNow, FreshAfter
<1>7. ASSUME NEW t \in Tabs, DirectLogin(t)
      PROVE  Fresh'
  <2> DEFINE q == tab[t]
             a == arrival[t]
             u == q.invite
             s == [q.sess EXCEPT !.user = u, !.totp = TRUE,
                                 !.version = q.me.version]
             r == [q EXCEPT !.pc = "guard", !.sess = s, !.me = Fetched(u),
                            !.invite = NoUser,
                            !.writes = {"session", "invite"}]
  <2>1. q \in Request /\ q.sess \in SessionCookie /\ u # NoUser
    BY <1>7, RequestFields DEF DirectLogin
  <2>2. s.user = u
    BY <2>1 DEF SessionCookie
  <2>3. /\ r.pc = "guard" /\ r.sess = s /\ r.me = Fetched(u)
    BY <2>1 DEF Request
  <2>4. r.me.user = u /\ r.me.disabled = account[u].disabled
    BY <2>3 DEF Fetched
  <2>5. FreshOK(r, a, account)
    BY <2>1, <2>2, <2>3, <2>4, FreshNow DEF FreshOK
  <2>6. tab' = [tab EXCEPT ![t] = r] /\ arrival' = arrival
    BY <1>7 DEF DirectLogin, WithVersionOf
  <2> QED
    BY <2>5, <2>6, FreshNow, FreshAfter
<1>8. ASSUME NEW t \in Tabs, NEW r, tab' = [tab EXCEPT ![t] = r],
             r.pc = "respond", arrival' = arrival
      PROVE  Fresh'
  <2>1. FreshOK(r, arrival[t], account)
    BY <1>8, FreshNow, AnsweredFresh
  <2> QED
    BY <1>8, <2>1, FreshNow, FreshAfter
<1>9. ASSUME NEW t \in Tabs,
             VerifyOTP(t) \/ DirectLoginFails(t) \/ CreateUser(t)
      PROVE  Fresh'
  <2>1. tab[t] \in Request
    BY RequestFields
  <2>2. \E r : tab' = [tab EXCEPT ![t] = r] /\ r.pc = "respond"
    <3>1. CASE VerifyOTP(t)
      <4> DEFINE to == IF tab[t].sess.lastUrl = NoUrl THEN "dashboard"
                       ELSE tab[t].sess.lastUrl
                 s == WithVersionOf([tab[t].sess EXCEPT
                                       !.user = tab[t].me.user, !.totp = TRUE,
                                       !.lastUrl = NoUrl],
                                    Fetched(tab[t].me.user))
                 r == [tab[t] EXCEPT !.pc = "respond",
                                     !.me = Fetched(tab[t].me.user),
                                     !.sess = s, !.reply = to]
      <4>1. tab' = [tab EXCEPT ![t] = r]
        BY <3>1 DEF VerifyOTP
      <4>2. r.pc = "respond"
        BY <2>1 DEF Request
      <4> QED
        BY <4>1, <4>2
    <3>2. CASE DirectLoginFails(t)
      <4> DEFINE r == [tab[t] EXCEPT !.pc = "respond", !.reply = "login",
                                     !.invite = NoUser,
                                     !.writes = {"session", "invite"}]
      <4>1. tab' = [tab EXCEPT ![t] = r]
        BY <3>2 DEF DirectLoginFails
      <4>2. r.pc = "respond"
        BY <2>1 DEF Request
      <4> QED
        BY <4>1, <4>2
    <3>3. CASE CreateUser(t)
      <4> DEFINE r == [tab[t] EXCEPT !.pc = "respond", !.reply = "direct",
                                     !.invite = tab[t].who,
                                     !.writes = {"session", "invite"}]
      <4>1. tab' = [tab EXCEPT ![t] = r]
        BY <3>3 DEF CreateUser
      <4>2. r.pc = "respond"
        BY <2>1 DEF Request
      <4> QED
        BY <4>1, <4>2
    <3> QED
      BY <1>9, <3>1, <3>2, <3>3
  <2>3. arrival' = arrival
    BY <1>9 DEF VerifyOTP, DirectLoginFails, CreateUser
  <2> QED
    BY <1>8, <2>2, <2>3
<1>10. ASSUME Adminusers \/ UNCHANGED vars
       PROVE  Fresh'
  <2>1. tab' = tab /\ arrival' = arrival
    BY <1>10 DEF Adminusers, IncrementSessionVersion, LoseIncrement, Disable,
                 vars
  <2>2. SUFFICES ASSUME NEW o \in Tabs
                 PROVE  FreshOK(tab[o], arrival[o], account')
    BY <2>1 DEF Fresh
  <2>3. /\ account \in [Users -> Account] /\ account' \in [Users -> Account]
        /\ Grown(account, account')
    BY TypeStep, AccountsGrow DEF Typed, TypeOK
  <2> QED
    BY <2>3, FreshNow, StillFresh
<1>11. ASSUME NEW t \in Tabs, Visits(t)
       PROVE  Fresh'
  BY <1>1, <1>11, SessionAssumption DEF Visits, MaybeUser
<1> QED
  BY <1>2, <1>3, <1>4, <1>5, <1>6, <1>7, <1>9, <1>10, <1>11, WorkKinds
     DEF Next

\* No request has arrived at first.
LEMMA FreshAtStart == Init => Fresh
  BY DEF Init, Fresh, FreshOK, NoRequest, NotLoggedIn

\* Once the version is incremented nobody is served on an older cookie.
THEOREM RevokedStayOut == Spec => []RevokedSessionsStayOut
<1>1. Init => Typed /\ Fresh
  BY TypedAtStart, FreshAtStart
<1>2. Typed /\ Fresh /\ [Next]_vars => (Typed /\ Fresh)'
  BY TypeStep, FreshStep
<1>3. Typed /\ Fresh => RevokedSessionsStayOut
  <2> SUFFICES ASSUME Typed, Fresh, NEW t \in Tabs, tab[t].pc = "serve",
                      tab[t].route # "direct"
               PROVE  tab[t].sess.version >= arrival[t].version
    BY DEF RevokedSessionsStayOut
  <2>1. tab[t].me.version \in Nat /\ arrival[t].version \in Nat
    BY RequestFields, FreshNow DEF ReqUser
  <2> QED
    BY <2>1, FreshNow DEF FreshOK, HasValidSession
<1> QED
  BY <1>1, <1>2, <1>3, PTL DEF Spec

\* A user who is disabled when the request arrives is not served by it.
THEOREM DisabledStayOut == Spec => []DisabledUsersLockedOut
<1>1. Init => Typed /\ Fresh
  BY TypedAtStart, FreshAtStart
<1>2. Typed /\ Fresh /\ [Next]_vars => (Typed /\ Fresh)'
  BY TypeStep, FreshStep
<1>3. Typed /\ Fresh => DisabledUsersLockedOut
  <2> SUFFICES ASSUME Typed, Fresh, NEW t \in Tabs, tab[t].pc = "serve",
                      arrival[t].disabled,
                      arrival[t].user = tab[t].sess.user
               PROVE  FALSE
    BY DEF DisabledUsersLockedOut
  <2> QED
    BY FreshNow DEF FreshOK, FirstFactorHolds
<1> QED
  BY <1>1, <1>2, <1>3, PTL DEF Spec

-----------------------------------------------------------------------------
(* The refinement of AccessControl                                         *)

Versions == [u \in Users |-> account[u].version]
Admitted == [t \in Tabs |-> AdmittedUser(tab[t])]
Grants == <<secondFactor, registered>>

\* The steps of AccessControl, in terms of Session.
LEMMA Unnoticed ==
    ASSUME UNCHANGED <<Versions, Grants, Admitted>>
    PROVE  UNCHANGED Access!vars
  BY DEF Access!vars, Versions, Admitted, Grants

LEMMA OneAdmitted ==
    ASSUME Typed, NEW t \in Tabs, NEW r, tab' = [tab EXCEPT ![t] = r]
    PROVE  Admitted' = [Admitted EXCEPT ![t] = AdmittedUser(r)]
<1>1. \A o \in Tabs : tab'[o] = IF o = t THEN r ELSE tab[o]
  BY DEF Typed, TypeOK
<1>2. \A o \in Tabs :
        Admitted'[o] = IF o = t THEN AdmittedUser(r) ELSE Admitted[o]
  BY <1>1 DEF Admitted
<1> QED
  BY <1>2 DEF Admitted

LEMMA SameAdmitted ==
    ASSUME Typed, NEW t \in Tabs, NEW r, tab' = [tab EXCEPT ![t] = r],
           AdmittedUser(r) = AdmittedUser(tab[t])
    PROVE  Admitted' = Admitted
<1>1. Admitted' = [Admitted EXCEPT ![t] = AdmittedUser(r)]
  BY OneAdmitted
<1> QED
  BY <1>1 DEF Admitted

LEMMA LeavesOne ==
    ASSUME NEW t \in Tabs, UNCHANGED <<Versions, Grants>>,
           Admitted' = [Admitted EXCEPT ![t] = NoUser]
    PROVE  Access!Next
<1>1. Access!Leave(t)
  BY DEF Access!Leave, Versions, Admitted, Grants
<1> QED
  BY <1>1 DEF Access!Next

LEMMA AdmitsOne ==
    ASSUME NEW t \in Tabs, NEW u \in Users, UNCHANGED <<Versions, Grants>>,
           AdmittedUser(tab[t]) = NoUser,
           \/ <<BrowserOf[t], u, account[u].version>> \in secondFactor
           \/ <<BrowserOf[t], u>> \in registered,
           Admitted' = [Admitted EXCEPT ![t] = u]
    PROVE  Access!Next
<1>1. Access!Admit(t, u)
  BY DEF Access!Admit, Access!Trusted, Versions, Admitted, Grants
<1> QED
  BY <1>1 DEF Access!Next

LEMMA RevokesOne ==
    ASSUME Typed, NEW u \in Users, UNCHANGED <<Grants, Admitted>>,
           account' = [account EXCEPT ![u].version = @ + 1]
    PROVE  Access!Next
<1>1. \A o \in Users :
        account'[o].version = IF o = u THEN account[o].version + 1
                              ELSE account[o].version
  BY DEF Typed, TypeOK, Account
<1>2. Versions' = [Versions EXCEPT ![u] = Versions[u] + 1]
  BY <1>1 DEF Versions
<1>3. Access!Revoke(u)
  BY <1>2 DEF Access!Revoke, Versions, Admitted, Grants
<1> QED
  BY <1>3 DEF Access!Next

\* The version of nobody changes with a registration or a lock.
LEMMA SameVersions ==
    ASSUME Typed, NEW u \in Users,
           \/ account' = account
           \/ account' = [account EXCEPT ![u].registered = TRUE]
           \/ account' = [account EXCEPT ![u].disabled = TRUE]
    PROVE  Versions' = Versions
<1>1. \A o \in Users : account'[o].version = account[o].version
  BY DEF Typed, TypeOK, Account
<1> QED
  BY <1>1 DEF Versions

\* A handler admits nobody who was not admitted before.
LEMMA HandledAccess ==
    ASSUME Typed, NEW t \in Tabs, Handled(t), UNCHANGED <<Versions, Grants>>
    PROVE  [Access!Next]_(Access!vars)
<1> DEFINE q == tab[t]
<1>1. q \in Request /\ q.sess \in SessionCookie
  BY RequestFields
<1>2. PICK s \in SessionCookie :
         \/ \E reply \in Replies : Answer(t, s, reply)
         \/ \E pc \in Calls :
               /\ s.version = q.sess.version
               /\ s.totp = q.sess.totp
               /\ MayCall(q, pc)
               /\ Continue(t, pc, s)
  BY DEF Handled
<1>3. ASSUME NEW reply \in Replies, Answer(t, s, reply)
      PROVE  Access!Next
  <2> DEFINE r == [q EXCEPT !.pc = "respond", !.sess = s, !.reply = reply]
  <2>1. tab' = [tab EXCEPT ![t] = r]
    BY <1>3 DEF Answer
  <2>2. AdmittedUser(r) = NoUser
    BY <1>1 DEF Request, AdmittedUser
  <2> QED
    BY <2>1, <2>2, OneAdmitted, LeavesOne
<1>4. ASSUME NEW pc \in Calls, s.version = q.sess.version, s.totp = q.sess.totp,
             MayCall(q, pc), Continue(t, pc, s)
      PROVE  [Access!Next]_(Access!vars)
  <2> DEFINE r == [q EXCEPT !.pc = pc, !.sess = s]
  <2>1. tab' = [tab EXCEPT ![t] = r]
    BY <1>4 DEF Continue
  <2>2. r.pc = pc /\ r.sess = s /\ r.me = q.me
    BY <1>1 DEF Request
  <2>3. CASE pc # "serve"
    <3>1. AdmittedUser(r) = NoUser
      BY <2>2, <2>3 DEF AdmittedUser, Calls
    <3> QED
      BY <2>1, <3>1, OneAdmitted, LeavesOne
  <2>4. CASE pc = "serve"
    <3>1. AdmittedUser(r) = q.me.user /\ AdmittedUser(q) = q.me.user
      BY <1>4, <2>2, <2>4
         DEF AdmittedUser, MayCall, HasValidSession, FirstFactorHolds
    <3> QED
      BY <2>1, <3>1, SameAdmitted, Unnoticed
  <2> QED
    BY <2>3, <2>4
<1> QED
  BY <1>2, <1>3, <1>4

\* Who is admitted has a grant of the version that adminusers has now.
LEMMA DeserializeAccess ==
    ASSUME Typed, Established, NEW t \in Tabs, Deserialize(t)
    PROVE  [Access!Next]_(Access!vars)
<1> DEFINE q == tab[t]
           u == q.sess.user
           r == [q EXCEPT !.pc = "handle", !.me = Fetched(u),
                          !.writes = {"session"}]
<1>1. /\ q \in Request /\ q.pc = "deserialize" /\ q.sess \in SessionCookie
      /\ u # NoUser /\ u \in Users
  BY RequestFields DEF Deserialize, PointOK, MaybeUser
<1>2. tab' = [tab EXCEPT ![t] = r]
  BY DEF Deserialize
<1>3. UNCHANGED <<Versions, Grants>>
  BY DEF Deserialize, Backends, ghosts, Versions, Grants
<1>4. AdmittedUser(q) = NoUser
  BY <1>1 DEF AdmittedUser
<1>5. r.pc = "handle" /\ r.sess = q.sess /\ r.me = Fetched(u)
  BY <1>1 DEF Request
<1>6. CASE AdmittedUser(r) = NoUser
  BY <1>2, <1>3, <1>4, <1>6, SameAdmitted, Unnoticed
<1>7. CASE AdmittedUser(r) # NoUser
  <2>1. /\ AdmittedUser(r) = u /\ q.sess.totp
        /\ q.sess.version = account[u].version
    BY <1>5, <1>7 DEF AdmittedUser, HasValidSession, Fetched
  <2>2. \/ <<BrowserOf[t], u, account[u].version>> \in secondFactor
        \/ <<BrowserOf[t], u>> \in registered
    BY <1>1, <2>1, RequestOKNow DEF RequestOK, Identity
  <2>3. Admitted' = [Admitted EXCEPT ![t] = AdmittedUser(r)]
    BY <1>2, OneAdmitted
  <2>4. Admitted' = [Admitted EXCEPT ![t] = u]
    BY <2>1, <2>3
  <2> HIDE DEF r
  <2>5. Access!Next
    BY <1>1, <1>3, <1>4, <2>2, <2>4, AdmitsOne
  <2> QED
    BY <2>5
<1> QED
  BY <1>6, <1>7

\* Whoever is logged in directly has registered from there.
LEMMA DirectLoginAccess ==
    ASSUME Typed, Established, NEW t \in Tabs, DirectLogin(t)
    PROVE  [Access!Next]_(Access!vars)
<1> DEFINE q == tab[t]
           u == q.invite
           s == WithVersionOf([q.sess EXCEPT !.user = u, !.totp = TRUE], q.me)
           r == [q EXCEPT !.pc = "guard", !.sess = s, !.me = Fetched(u),
                          !.invite = NoUser, !.writes = {"session", "invite"}]
<1>1. q \in Request /\ q.pc = "findInvited" /\ u # NoUser /\ u \in Users
  BY RequestFields DEF DirectLogin, Request, MaybeUser
<1>2. tab' = [tab EXCEPT ![t] = r]
  BY DEF DirectLogin
<1>3. UNCHANGED <<Versions, Grants>>
  BY DEF DirectLogin, Backends, ghosts, Versions, Grants
<1>4. AdmittedUser(q) = NoUser
  BY <1>1 DEF AdmittedUser
<1>5. r.me.user = u
  BY <1>1 DEF Request, Fetched
<1>6. AdmittedUser(r) \in {u, NoUser}
  BY <1>5 DEF AdmittedUser
<1>7. CASE AdmittedUser(r) = NoUser
  BY <1>2, <1>3, <1>4, <1>7, SameAdmitted, Unnoticed
<1>8. CASE AdmittedUser(r) = u
  <2>1. <<BrowserOf[t], u>> \in registered
    BY <1>1, RequestOKNow DEF RequestOK, Invited
  <2>2. Admitted' = [Admitted EXCEPT ![t] = AdmittedUser(r)]
    BY <1>2, OneAdmitted
  <2>3. Admitted' = [Admitted EXCEPT ![t] = u]
    BY <1>8, <2>2
  <2> HIDE DEF r, s
  <2>4. Access!Next
    BY <1>1, <1>3, <1>4, <2>1, <2>3, AdmitsOne
  <2> QED
    BY <2>4
<1> QED
  BY <1>6, <1>7, <1>8

\* A code that is right is a grant of the version of that moment.
LEMMA VerifyOTPAccess ==
    ASSUME Typed, NEW t \in Tabs, VerifyOTP(t)
    PROVE  [Access!Next]_(Access!vars)
<1> DEFINE q == tab[t]
           u == q.me.user
           b == BrowserOf[t]
<1>1. q \in Request /\ q.pc = "verifyOTP" /\ u \in Users /\ b \in Browsers
  BY RequestFields DEF VerifyOTP, PointOK, MaybeUser, ReqUser, Request
<1>2. \E r : tab' = [tab EXCEPT ![t] = r] /\ r.pc = "respond"
  <2> DEFINE s == WithVersionOf([q.sess EXCEPT !.user = u, !.totp = TRUE,
                                               !.lastUrl = NoUrl], Fetched(u))
             r == [q EXCEPT !.pc = "respond", !.me = Fetched(u), !.sess = s,
                            !.reply = IF q.sess.lastUrl = NoUrl THEN "dashboard"
                                      ELSE q.sess.lastUrl]
  <2>1. tab' = [tab EXCEPT ![t] = r]
    BY DEF VerifyOTP
  <2>2. r.pc = "respond"
    BY <1>1 DEF Request
  <2> QED
    BY <2>1, <2>2
<1>3. Admitted' = Admitted
  BY <1>1, <1>2, SameAdmitted DEF AdmittedUser
<1>4. secondFactor' = secondFactor \cup {<<b, u, Versions[u]>>}
  BY <1>1 DEF VerifyOTP, Versions
<1>5. Versions' = Versions /\ registered' = registered
  BY DEF VerifyOTP, Backends, Versions
<1>6. Access!Grant(b, u)
  BY <1>3, <1>4, <1>5 DEF Access!Grant, Versions, Admitted
<1> QED
  BY <1>1, <1>6 DEF Access!Next

\* Every step is a step of AccessControl or a stutter.
LEMMA AccessStep ==
    ASSUME Typed, Established, [Next]_vars
    PROVE  [Access!Next]_(Access!vars)
<1> USE SessionAssumption DEF Backends, Cookies, ghosts
<1>1. ASSUME NEW t \in Tabs, NEW r, tab' = [tab EXCEPT ![t] = r],
             UNCHANGED <<account, secondFactor, registered>>,
             AdmittedUser(tab[t]) = NoUser, AdmittedUser(r) = NoUser
      PROVE  UNCHANGED Access!vars
  BY <1>1, SameAdmitted, Unnoticed DEF Versions, Grants
<1>2. \A route, who, s, i : AdmittedUser(Arriving(route, who, s, i)) = NoUser
  BY DEF Arriving, AdmittedUser, NotLoggedIn, FirstFactorHolds
<1>3. ASSUME NEW t \in Tabs, NEW route \in Routes, NEW who \in MaybeUser,
             Visit(t, route, who)
      PROVE  UNCHANGED Access!vars
  BY <1>1, <1>2, <1>3 DEF Visit, AdmittedUser
<1>4. ASSUME NEW t \in Tabs, Visits(t)
      PROVE  UNCHANGED Access!vars
  BY <1>3, <1>4 DEF Visits, MaybeUser
<1>5. ASSUME NEW t \in Tabs, Deliver(t) \/ Lose(t)
      PROVE  UNCHANGED Access!vars
  <2>1. AdmittedUser(NoRequest) = NoUser
    BY DEF AdmittedUser, NoRequest
  <2>2. AdmittedUser(tab[t]) = NoUser
    BY <1>5 DEF Deliver, Lose, AdmittedUser
  <2>3. /\ UNCHANGED <<account, secondFactor, registered>>
        /\ \E r : tab' = [tab EXCEPT ![t] = r] /\ AdmittedUser(r) = NoUser
    BY <1>2, <1>5, <2>1 DEF Deliver, Lose
  <2> QED
    BY <1>1, <2>2, <2>3
<1>6. ASSUME NEW t \in Tabs, Handler(t)
      PROVE  [Access!Next]_(Access!vars)
  BY <1>6, HandlerShape, HandlerFrame, HandledAccess DEF Versions, Grants
<1>7. ASSUME NEW t \in Tabs, Effect(t)
      PROVE  [Access!Next]_(Access!vars)
  <2>1. Handled(t) /\ UNCHANGED Grants
    BY <1>7, EffectShape, EffectFrame DEF Grants
  <2>2. CASE Versions' = Versions
    BY <2>1, <2>2, HandledAccess
  <2>3. ASSUME NEW ok \in BOOLEAN, CreateUserFails(t, ok)
        PROVE  Versions' = Versions
    <3>1. CASE ok /\ tab[t].who \in Invitees
      BY <2>3, <3>1, SameVersions DEF CreateUserFails
    <3>2. CASE ~(ok /\ tab[t].who \in Invitees)
      BY <2>3, <3>2 DEF CreateUserFails, Versions
    <3> QED
      BY <3>1, <3>2
  <2>4. ASSUME NEW ok \in BOOLEAN, FinishReset(t, ok)
        PROVE  [Access!Next]_(Access!vars)
    <3>1. tab[t].pc = "increment" /\ tab[t].who \in Users
      BY <2>4, RequestFields DEF FinishReset, PointOK, MaybeUser
    <3>2. CASE ~ok
      BY <2>2, <2>4, <3>2 DEF FinishReset, Versions
    <3>3. CASE ok
      <4> DEFINE r == [tab[t] EXCEPT !.pc = "respond", !.sess = EmptySession,
                                     !.reply = "login"]
      <4>1. tab' = [tab EXCEPT ![t] = r]
        BY <2>4 DEF FinishReset, Answer
      <4>2. AdmittedUser(r) = NoUser /\ AdmittedUser(tab[t]) = NoUser
        BY <3>1, RequestFields DEF Request, AdmittedUser
      <4>3. Admitted' = Admitted
        BY <4>1, <4>2, SameAdmitted
      <4> QED
        BY <2>1, <2>4, <3>1, <3>3, <4>3, RevokesOne DEF FinishReset
    <3> QED
      BY <3>2, <3>3
  <2>5. CASE SendOTP(t) \/ Logout(t) \/ \E ok \in BOOLEAN : SendOTPFails(t, ok)
    BY <2>2, <2>5 DEF SendOTP, Logout, SendOTPFails, Versions
  <2> QED
    BY <1>7, <2>2, <2>3, <2>4, <2>5 DEF Effect
<1>8. ASSUME NEW t \in Tabs, Authenticate(t)
      PROVE  UNCHANGED Access!vars
  <2> DEFINE r == [tab[t] EXCEPT !.pc = "getAccount",
                                 !.sess = [@ EXCEPT !.user = tab[t].who],
                                 !.me = Fetched(tab[t].who)]
  <2>1. tab' = [tab EXCEPT ![t] = r]
    BY <1>8 DEF Authenticate
  <2>2. AdmittedUser(r) = NoUser /\ AdmittedUser(tab[t]) = NoUser
    BY <1>8, RequestFields DEF Request, AdmittedUser, Authenticate
  <2> QED
    BY <1>1, <1>8, <2>1, <2>2 DEF Authenticate
<1>9. ASSUME NEW t \in Tabs, DirectLoginFails(t)
      PROVE  UNCHANGED Access!vars
  <2> DEFINE r == [tab[t] EXCEPT !.pc = "respond", !.reply = "login",
                                 !.invite = NoUser,
                                 !.writes = {"session", "invite"}]
  <2>1. tab' = [tab EXCEPT ![t] = r]
    BY <1>9 DEF DirectLoginFails
  <2>2. AdmittedUser(r) = NoUser /\ AdmittedUser(tab[t]) = NoUser
    BY <1>9, RequestFields DEF Request, AdmittedUser, DirectLoginFails
  <2> QED
    BY <1>1, <1>9, <2>1, <2>2 DEF DirectLoginFails
<1>10. ASSUME NEW t \in Tabs, CreateUser(t)
       PROVE  Access!Next
  <2> DEFINE u == tab[t].who
             b == BrowserOf[t]
             r == [tab[t] EXCEPT !.pc = "respond", !.reply = "direct",
                                 !.invite = u,
                                 !.writes = {"session", "invite"}]
  <2>1. tab' = [tab EXCEPT ![t] = r] /\ u \in Users /\ b \in Browsers
    BY <1>10 DEF CreateUser
  <2>2. AdmittedUser(r) = NoUser /\ AdmittedUser(tab[t]) = NoUser
    BY <1>10, RequestFields DEF Request, AdmittedUser, CreateUser
  <2>3. Admitted' = Admitted
    BY <2>1, <2>2, SameAdmitted
  <2>4. Versions' = Versions
    BY <1>10, <2>1, SameVersions DEF CreateUser
  <2>5. Access!Enrol(b, u)
    BY <1>10, <2>3, <2>4 DEF CreateUser, Access!Enrol, Versions, Admitted
  <2> QED
    BY <2>1, <2>5 DEF Access!Next
<1>11. ASSUME NEW u \in Users, NEW again \in BOOLEAN,
              IncrementSessionVersion(u, again)
       PROVE  Access!Next
  BY <1>11, RevokesOne DEF IncrementSessionVersion, Admitted, Grants
<1>12. ASSUME NEW u \in Users, LoseIncrement(u) \/ Disable(u)
       PROVE  UNCHANGED Access!vars
  <2>1. Versions' = Versions
    BY <1>12, SameVersions DEF LoseIncrement, Disable
  <2> QED
    BY <1>12, <2>1, Unnoticed DEF LoseIncrement, Disable, Admitted, Grants
<1>13. CASE Adminusers
  BY <1>11, <1>12, <1>13 DEF Adminusers
<1>14. CASE UNCHANGED vars
  BY <1>14, Unnoticed DEF vars, Versions, Admitted, Grants
<1>15. ASSUME NEW t \in Tabs, Work(t)
       PROVE  [Access!Next]_(Access!vars)
  BY <1>5, <1>6, <1>7, <1>8, <1>9, <1>10, <1>15, WorkKinds, DeserializeAccess,
     DirectLoginAccess, VerifyOTPAccess
<1> QED
  BY <1>4, <1>13, <1>14, <1>15 DEF Next

\* Cookies, stale copies and late responses taken together keep the promise of
\* AccessControl (the guards of auth_service.js:86, session_validator.js:11).
THEOREM SessionControlsAccess ==
    ASSUME Serviceless = {}
    PROVE  Spec => ImplementsAccessControl
<1>1. Init => Typed /\ Established /\ Access!Init
  BY TypedAtStart, EstablishedAtStart
     DEF Init, Access!Init, NoRequest, AdmittedUser
<1>2. Typed /\ Established /\ [Next]_vars => (Typed /\ Established)'
  BY TypeStep, EstablishedStep
<1>3. Typed /\ Established /\ [Next]_vars => [Access!Next]_(Access!vars)
  BY AccessStep
<1> QED
  BY <1>1, <1>2, <1>3, PTL DEF Spec, ImplementsAccessControl, Access!Spec
=============================================================================
