# A verification project for pay-selfservice

pay-selfservice is the portal in which the services that take payments
through GOV.UK Pay sign in, manage their accounts, look at transactions,
refund them and create payment links. It is an Express application that keeps
no database: what it remembers lives in three encrypted cookies of the browser
(`session`, `gateway_account`, `register_invite`) and in the back ends it calls
(adminusers, connector, direct-debit-connector, publicauth, products). A
request copies the cookies, calls back ends one after the other (every call an
await during which anything else may happen) and sends the cookies back. The
questions worth asking of such a program are about copies that went stale,
calls that failed half-way, answers that arrive late, and pages that send the
browser round in circles.

## Inventory

| Component | State it keeps | Operations | What is hard | What makes it correct |
|---|---|---|---|---|
| Sign-in and session (`services/auth_service.js`, `services/session_validator.js`, `middleware/csrf.js`, `controllers/login/*`, `utils/cookie.js`) | the session cookie (passport user, version, second factor, `sentCode`, `last_url`, CSRF secret); in adminusers the session version and the lock | login, one-time code, send again, logout, direct login after registration, the guards of every page | tabs overwrite each other's cookie; the user is read once per request; the increment of a logout is not awaited; passport changes `req.user` in the middle of a chain | both factors before any page; a revoked session stays out; a disabled user is locked out; every chain of redirects ends |
| Password reset (`controllers/forgotten_password_controller.js`) | the reset token and the password, in adminusers | request a mail, show the form, set the password | the increment of the version may fail after the password changed | sessions made before the reset stay out |
| Registration by invite (`controllers/invite_validation_controller.js`, `register_user_controller.js`, `invite_user_controller.js`) | the `register_invite` cookie; the invite in adminusers | validate, enter details, verify a code, join as an existing user | the cookie names whom to log in | an invite makes one user, who is logged in where the code was given |
| Creating and naming services (`controllers/register_service_controller.js`, `create_service_controller.js`, `edit_service_name_controller.js`, `services/service_service.js`, `services/service_registration_service.js`) | the service in adminusers, its account in connector, its name in adminusers, connector and products | register, add a service, rename | several back ends, no transaction, calls sent again when a connection breaks, parallel calls of which one fails | what is left over after a failure is invisible; an account has one service; names agree |
| Account selection and permissions (`auth_service.js`, `get_gateway_account.js`, `resolve_service.js`, `permission.js`, `my_services_controller.js`) | the `gateway_account` cookie | choose an account, resolve the service and the account of a request | every reply writes the cookie of all tabs; the cookie outlives the user's role; some routes resolve no service | a switch holds; a form works on the account it showed |
| Team members (`service_users_controller.js`, `service_roles_update_controller.js`, `invite_user_controller.js`, `services/user_service.js`) | roles and invitations in adminusers | show the team and a member, change a role, remove, invite | permissions are read when the request arrives, the change comes one or two calls later | a service keeps an administrator |
| Transactions and refunds (`controllers/transactions/*`, `services/transaction_service.js`, `models/charge.js`, `clients/connector_client.js`) | charges in connector; clients with listeners that live as long as the worker | list, filter, download, show, refund | the amount available travels through the page; the failure of one call is heard by every request; the pages of a download shift | a reading is refunded once; who is told of success has a refund; every request is answered; a file leaves nothing out |
| Transaction pages and filters (`utils/paginator.js`, `filters.js`, `states.js`, `transaction_view.js`, `views/transactions`) | the filter in the address and in the session | page links, page sizes, the filter form, the link to the file | what every link writes anew; totals that have changed when a link is followed; statuses with several names | links lead to transactions and keep the filter; nothing asked for is hidden |
| Payment links and demo service (`controllers/payment-links/*`, `test_with_your_users/*`, `make_a_demo_payment/*`) | what is typed, in the session; tokens in publicauth, products in products | typing, review, create, disable | a token is made before the product; tabs share what is typed; pounds become pence; any call may be sent again | a product is what its page showed; a live link has a product |
| Payment types and 3D Secure (`payment_types_*_controller.js`, `toggle_3ds_controller.js`) | the accepted card types and 3D Secure in connector | select type, select brands, summary, turn 3D Secure on and off | each setting restricts the other, and is read by the page before | Maestro only with 3D Secure; saving what is shown changes nothing |
| API keys (`api_keys_controller.js`, `clients/public_auth_client.js`) | tokens in publicauth | lists, create, rename, revoke | the account is the cookie's when the form arrives | a key is of the account whose form was filled in |
| Other settings (`email_notifications_controller.js`, `models/email.js`, `credentials_controller.js`, `edit_merchant_details`) | fields of the account or the service | one write each | a failed change of the e-mails is told to nobody | every request ends |
| Back-end clients (`clients/old_base_client.js`, `clients/base_client`) | – | every call of the components above | a call is sent again when the connection is reset, or (the newer client) after a 5xx as well | – |
| Dashboard (`controllers/dashboard`) | – | the activity of a period, and the lists it links to | both ends of the period are computed once and used twice; the states of the links are read by another page | the list behind a number has what was counted |
| Views, formatting, start-up, logging | – | – | pure output | – |

## Plan

The modules came in the order of what would hurt most if it went wrong.

| Order | Module | What it models | State |
|---|---|---|---|
| 1 | `Session`, abstractly `AccessControl` | sign-in, guards, cookies of concurrent tabs, session version | checked; proved, the refinement included |
| 2 | `ServiceSetup`, abstractly `ServiceOpening` | creating and naming services over three back ends | checked; proved, the refinement included |
| 3 | `Refunds` | the page of a transaction, refunds sent twice, again, and settled by each other's failures | checked; proved, the sums of amounts included |
| 4 | `TransactionLists`, `TransactionExport`, `TransactionPages`, `TransactionSearch` | lists and downloads, listeners, page links, the filter | checked; proved |
| 5 | `PaymentLinks` | what is typed in a session of several tabs, token, then product | checked; proved |
| 6 | `ApiKeys` | the cookie of the account, the switch, the permission, and the keys | checked; proved |
| 7 | `Team` | roles, removals and invitations with permissions read before | checked; proved |
| 8 | `Settings` | accepted cards, 3D Secure, e-mails | checked; proved |
| 9 | `Dashboard` | a period, its summary and its list | checked; proved |
| 10 | `Portal` | 3 and 5 to 9 together, over the same tabs | checked; proved, like its parts |

No module declares a RECURSIVE operator, so that all of them can be proved
about. All safety properties of
the passing runs are proved; liveness is checked. What would come next: the
invitations of people who have no account
(the `register_invite` cookie before the one-time code), composed with
`Session`'s direct login; and one abstract client for the retries of all
modules.

## `Session`

| In the model | In the code |
|---|---|
| `jar[b]` | the `session` cookie a browser holds (`utils/cookie.js`); a record of the fields the guards read |
| `invite[b]` | `register_invite.userExternalId` of that browser |
| `account[u]`, `increments[u]` | what adminusers returns for a user; PATCHes of `sessionVersion` on their way from a logout (the PATCH of a password reset belongs to the request that waits for it, and may be served more than once like the others: `Resetting`) |
| `tab[t]` | one request: `pc` (the await or handler it has reached), `route`, `sess` (`req.session`), `me` (`req.user`), `who` (the user a form names), `invite`, `writes` (the cookies the response sets) and `reply` |
| `arrival`, `firstFactor`, `secondFactor`, `registered`, `codesSent` | ghosts: what happened, kept for the properties |

A request is created by `Visit` or by following a redirect (`Deliver`), with a
copy of the cookies. It passes `Deserialize`, then the handler of its route
(one action per handler; a second one after every await), then `Deliver`, which
writes the whole copy back, or `Lose`. Between any two of these steps other
tabs, other browsers and adminusers act. `RedirectToLogin`, `FirstFactorHolds`,
`HasValidSession` and `CsrfPasses` are the guards of `auth_service.js`,
`session_validator.js` and `csrf.js`; the middleware of a route that runs
without an await is one step.

`AccessControl` is what all of this is for: a user is admitted only at a
version of the account at which that user gave a second factor, or right after
registering; an increment of the version ends everything admitted later on an
older one. `Session` implements it (`ImplementsAccessControl`) with the version
of each account, the pairs for which a code was checked and the user each
request is admitted for.

### What the runs show

| Run | Bounds | What it shows |
|---|---|---|
| `session` | two users, one of them an invitee; two tabs of one browser; four navigations; versions 0..1 | a page is served only after both factors of that user in that browser; version and second factor come and go together in every copy; `sentCode` means that a code went to this user; after an increment, a cookie made before and put back by a late response is not served; and the whole implements `AccessControl` |
| `session_answers` | one tab, every page and form, a user without services, a user disabled at any moment, failures and losses; five navigations | a request that arrives after the lock is not served, however complete its session; every chain of redirects ends |
| `session_cleans` | one tab, a user without a service | **violated**: see the findings |
| `session_direct` | one tab, one registration | **violated**: see the findings |

Two tabs are enough for one stale copy to overtake a fresh one; a third tab
adds another stale copy that is treated alike. Two users are enough for one to
inherit from the other. Four navigations (redirects are not counted) allow a
complete sign-in (password, code, page) and a second sign-in or logout inside
it; the run with every form has five, and one tab. `MaxVersion` = 1
distinguishes before and after an increment.

Fairness: `FairSpec` has weak fairness of `Work(t)`, the steps the portal, the
network and the back ends make for the request of a tab. That the back ends
answer, with an error at the latest, is an assumption about the environment:
neither base client sets a time-out, so a call whose back end keeps the
connection open for ever waits as long. The rest the code justifies: a browser
follows a redirect, and nothing holds one request back for another. People and adminusers on its
own account (`Visits`, `Adminusers`) have no fairness: nobody has to do
anything. Only `EveryNavigationEnds` uses it.

### Findings

* `PasswordLoginCleansSession`. A comment in `post-login-controller.js` and a
  test say that a password login cleans the session. For a user without a
  service `getAccount`, which runs first, throws, and the session keeps the
  second factor and version of whoever was signed in before, now under the new
  user. This is why `AccessNeedsBothFactors` and the refinement are stated for
  instances in which everybody has a service (`Serviceless = {}`).
* `DirectLoginCarriesOwnVersion`. The test of `localDirectStrategy` expects the
  session of a user who is logged in directly to carry that user's version; the
  code reads it from `req.user`, which is set afterwards. A request without a
  user stores version 0 (right for a user just created), a request that still
  carries another user's session stores that user's version.

## `ServiceSetup`

| In the model | In the code |
|---|---|
| `service[s]`, `admins[s]`, `registered` | adminusers: the services with their names and accounts, who administers them, the users |
| `account[a]`, `products[a]` | connector's accounts and the name they show; the name on the products of an account |
| `form[f]` | one form that is sent: self-registration (`register`), a service to add (`add`) or a new name (`rename`); `pc` is the call it waits for, `attempts` how often the client sent it, `pending` the calls of `updateServiceName` not answered yet |
| `lastRename`, `alone` | ghosts: the last rename of each service, and the renames sent while no other one of that service was under way |

Every call has three outcomes: it is served and answered (`CreateService`), it
is served, its connection breaks and the client sends it again
(`CreateServiceAgain`), or it fails (`CallFails`; a one-time code goes back to
its form or to an error page). `old_base_client.js` sends a
call at most three times; the model has the bound as `MaxAttempts`. The calls
of `updateServiceName` go out together and are answered in any order; `q.all`
rejects at the first failure while the others go on, so `pending` outlives the
answer. What the back ends do with a call is not in the repository: the model
takes them from how they are used (creating something new on every POST, one
transaction for `completeInvite`, replacing a name on PATCH).

`ServiceOpening` says what a person may rely on, after
`docs/arch/adr-001`: a service comes into anybody's sight in one step, with an
account of its own; a form that was told of success names a service its sender
can see, and no two forms name the same. A service without an administrator
and an account without a service are invisible, so `ServiceSetup` implements it
with the accounts of visible services, whatever fails half-way.

| Run | Bounds | What it shows |
|---|---|---|
| `setup` | two forms, one person and one invitee, two attempts, a service with two accounts and one with none at first, two services and two accounts more, two names | the refinement, with a registration sent twice at once, calls sent again and services left over; a rename on its own that is answered with success left the same name in adminusers, connector and products |

Two forms may be one registration sent twice, a registration and a rename, or
two renames of which one overtakes the other (`NamesAgree` then promises
nothing, which is the code's own behaviour). Two spare services and accounts
are taken by what is made twice. Two attempts make the difference between a
call sent once and sent again. Forms, spare services and spare accounts are
symmetric: no definition chooses among them.

## `Refunds`

| In the model | In the code |
|---|---|
| `refunds` | connector's refunds, each with the amount available on the page it came from (`seen`) |
| `tab[t].shows` | the page of a transaction: being read, open, refunding, or told how it ended |
| `tab[t].call` | the call of that tab which the client still works on; it may outlive the request |
| `Available(c)` | `refund_summary.amount_available` of a charge |

`models/charge.js` has one connector client for the whole process. Each request
hangs its listener on the client and none is taken off, so a failure (`Fail`)
settles every tab that waits (`Settle`), while the calls of the others go on:
a refund may be made for somebody who has been told that it failed. Connector
accepts a refund only if the amount available is still the one the page showed
(`Verdict`); that alone keeps a second tab, or a call sent again, from
refunding twice, and it does so only as long as no refund fails at the gateway,
because a failed refund restores the amount. `OneRefundPerReading` is stated
accordingly. The page may be opened, and a refund sent, after whatever end until
there are `MaxRefunds` refunds. `SuccessIsARefund` says that the refund a page
tells of is
of that tab, that charge and that amount, and was made on the reading of this
page: a success told for an older refund of the tab would not do.
`FullRefundsAll` follows a full refund through the conversion of
pence to a decimal text and back.

## The four modules about transactions

`TransactionLists` has the requests of one worker. A list is a search and then
the card types, a download is a search for page after page. The searches of all
requests settle each other's promises when one fails (`SearchFails`); the
listeners of the list controller answer requests directly, the oldest first,
and throw when they answer one a second time, which ends the worker
(`CardTypesFail`, `Dies`). `TransactionExport` has what a download puts together
while transactions arrive and stop matching; a transaction is the number of its
arrival, so that the newest first is the greatest first (`Rank`, `Found`).
`TransactionPages` has `utils/paginator.js` and the choice of page sizes with
totals that change; `LinksAreRight` compares the paginator with a definition by
sets. `TransactionSearch` has the filter on its way through form, address,
links, session and connector, and the table of statuses, error codes and names.
A payment that came to nothing may have any error code or none; it is shown with
the name of its code, but found by the codes of its status, so `NothingHidden`
speaks of transactions that are shown with a name of their own status
(`HasOwnName`).

`MCTransactions` plays one of the four in each behaviour (`scene`); they share
no state. The form offers every name of `AllDisplayStates` and nothing else
(the guard of `Filter`): a name written into the address by hand is not modelled.

| Run | Bounds | What it shows |
|---|---|---|
| `transactions` | three lists and two downloads of two pages; a download of five transactions, two to a page; page sizes 1, 2, 3, 4, 9 and up to 18 transactions, spread 2; two tabs, two e-mails, every single state, none and two | nobody waits without a call, and nobody for ever; a file leaves nothing out while nothing stops matching, and is in order; links lead to transactions; the filter hides nothing it should show |
| `lists_errors` | two lists and a download | **violated**: see the findings |
| `filter_links` | two tabs | **violated**: see the findings |

Three lists make a listener that was answered, one that is answered and one
after it. Up to 18 transactions by twos make nine pages: more than twice the
spread with a gap to either end; 4 and 9 stand for the page sizes 100 and 500.

## `PaymentLinks`

| In the model | In the code |
|---|---|
| `session` | `session.pageData` of the cookie, one `Data` for each kind of product |
| `tab[t].shown` | what the page showed |
| `tab[t].copy` | the session the request came with, and writes back |
| `tokens`, `products` | tokens of publicauth that were heard of; products |

Handlers without a call are one step. Making a product is two: the token
(`page = "token"`) and the product (`page = "product"`). Each may be served,
fail, or be served unheard and sent again. Prices are in tenths of a penny,
since pounds times 100 in floating point is not always whole: `Below` and
`Above` are the amounts for which it is a little less or more, and `Price` does
what `Math.trunc` (demo and test) or nothing at all (payment links) makes of
them. The form of the review page carries nothing of what it shows:
`ReviewedIsMade` is stated for a form that was sent while the session still had
it (`Current`), however the session changes after that. Only the title is told
apart among the texts of a product.

## `ApiKeys`

The cookie `gateway_account` is shared by all tabs. A request resolves its
service and account from the cookie it came with and the services of its user
(`Resolved`, `CurrentAccount`), asks for a permission with the role read when it
arrived (`MayAsk`), and its reply writes the account back. Two kinds of requests
resolve no service (`Unresolved`): a sign-in, and the page for the name of a new
service. The first service of the user stands in for it (`FirstService`), and an
account of another service is replaced in the cookie. `chosen` is a ghost: the
account switched to while no request was under way that could undo the switch.
Another tab's slow page may undo one otherwise, and so does a request that falls
back to another service; `SwitchHolds` says that nothing else does, whatever
fails and whichever services the user loses. `OwnAccountStays` says that nothing
takes away an account of the user's own within a session, and the code breaks
it. `role` changes at any time in the services of `Unsteady`.

## `Settings`

A request reads the account (which may fail: it then goes on without), then
makes the calls of `CallsOf` one after the other. `fresh` is a ghost: nothing of
what the page showed has changed since its request arrived. `MaestroNeeds3ds`
says that no change from a page that is still fresh leads to Maestro without
3D Secure; two pages open at once can, since the handlers that save check
nothing. `ResaveKeeps` says that saving what the form shows changes nothing.
A change of e-mails that fails is answered by nobody (`clientUnavailable` of
`models/email.js` rejects, and the controller has no handler): the tab ends
"hung". `Answered` counts that as an end, since the portal has ended its part.

## `Dashboard`

`now` passes, payments and refunds are made and succeed, and a summary is asked
for a period of which both ends are computed when the request arrives. A day has
few seconds. The list behind a number is opened any time later, with the ends
formatted to a second, one second added, and the states of the link
(`Searched`): names of the old statuses, which restrict the list of a user with
the old statuses and are lost on one with the new. `LinkListsWhatIsCounted` says
that the list has all that was counted and, with the old statuses, no more than
the transactions of that last second and those that have succeeded since. With
the new ones it has all of the period, and only the first half is promised.

## `Team`

Founders are administrators who act, each in a tab; outsiders may be invited and
may join. Who may do what is read when a request arrives; a change comes one or
two calls later. `AdminRemains` holds because nobody can remove or demote
themselves (`RefusedSelf`). It cannot hold when an administrator is demoted while
a change of that same person is under way: two administrators can demote each
other. The ghost `crossed` is set exactly then, and the property promises
nothing from then on; this is a limit of the code, not an omission of the model.

## `Portal`

`Portal` puts the six modules of the pages together over the same tabs: a
behaviour plays one of them, the scene, since they share no state. Each of its
properties is the one of the part. `PortalProofs` carries over what is proved of
the parts, and has the proofs about `Dashboard` and `Team` itself.

| Run | Bounds | What it shows |
|---|---|---|
| `portal` | two tabs, two attempts; a charge of 250 pence, refunds of 100 and of all of it, none sent after two, some failing at the gateway; each kind of product, one title, one amount that is a little less than whole in floating point, two tokens; two services of two and one account, an administrator of one of them whose role changes; three cards; days of three seconds, three seconds around midnight, a transaction of before at either border of a period and two in all; three users in a team | all safety properties of the six modules, and that every request ends |
| `refunds_repeat` | three tabs, two charges | **violated**: see the findings |
| `price` | the products of `portal` | **violated**: see the findings |
| `own_account` | the keys of `portal` | **violated**: see the findings |

Two tabs make every pair of requests overlap: what is stale is stale because of
one other tab. One charge is enough for the safety of refunds, since they meet
only in the amount of the same charge (the theorems cover any number);
`refunds_repeat`, where the failure of another charge matters, has two. A refund
of 100 can be made twice, but not a third time, and of one reading only once. Two
founders and an outsider who joins make three administrators, of whom one is
removed while two change each other.

Fairness: weak fairness of the calls of a tab (`Call(t)`). This is an assumption
about the back ends and the network, which answer or break every connection at
last: the clients bound the attempts of a call, but set no time-out. People
have none. A call that is served unheard is sent again as often as `MaxAttempts`
allows; in `Settings`, where attempts are not counted, sending again (`Repeat`)
is no part of `Call(t)`, so that fairness says that the attempts end.

### Findings

* `RepeatMeansSubmitted` (`refunds_repeat`). The refusal of one refund is told
  to every tab that waits: "already been submitted" of a charge that nobody has
  refunded, and whose own refund goes on to be made.
* `EveryErrorIsShown` (`lists_errors`). The card types fail after any list was
  answered: the listener of that list answers again, throws, and the worker ends
  with every request it had. A test says that any error shows an error page.
* `LinksKeepFilter` (`filter_links`). The form of another page size leaves the
  filter out; the links to other pages print several states as one text, and
  leave out the e-mail and the card brand.
* `OwnAccountStays` (`own_account`). The page for the name of a service resolves
  no service: who works on an account of their second service is back on the
  first one afterwards.
* `PriceIsInPence` (`price`). `products_client.js` documents a price in pence;
  0.29 pounds become 28 pence in a demo and 28.999999999999996 in a payment
  link. What is proved instead is that the price is within a penny.

Other limits of the code are in the model, and the premise of a property says
where its promise ends:

* A payment with the error code of another status is shown with the name of the
  code (a test has a cancelled payment with P0050 as an "Error") and is not in
  the list of that name; a failed payment without a code is shown as "Failed",
  which the form does not offer. `NothingHidden` has the premise `HasOwnName`.
* With the new statuses the list behind "Successful payments" has every payment
  and refund of the period (`_activity.njk:24`, `filters.js:22`).
  `LinkListsWhatIsCounted` promises what is not counted for the old ones only.
* "Previous 7 days" are eight, "Previous 30 days" are 31: they start a day
  earlier, as if they ended yesterday, and end at this midnight (`DaysAgo`).
* "Create link" under "Review your payment link details" creates what another
  tab typed into the session since. `ReviewedIsMade` has the premise `Current`.
* Of two pages opened before either is saved, one accepts Maestro and the other
  turns 3D Secure off. `MaestroNeeds3ds` has the premise `fresh`.
* Two administrators who demote each other at once leave a team without one.
  `AdminRemains` has the premise `crossed`.

## What is proved

Nothing is assumed but what the modules say of their constants: that absent
values are not members of the sets they stand apart from, and that the rest has
the right kind. `SessionAssumption`, `SetupAssumption` and the
`ConstantsAssumption` of `Portal` and of `MCTransactions` are ASSUMEs that TLC
evaluates in every run; the theorems of the other modules have their assumption
as a hypothesis, which `ConstantsAssumption` discharges for the portal and for
the transactions.

`SessionProofs` proves about `Session`, for every set of users, tabs and
browsers and for every bound:

* `TypeCorrect`: `TypeOK` is an invariant. It is not inductive; `Typed` adds
  `PointOK`, which says at which points of a handler a request has a user.
* `BothFactors` and `VersionWithFactor`: with `Serviceless = {}`, the
  invariants `AccessNeedsBothFactors` and `VersionExactlyWithSecondFactor`. The
  inductive invariant is `Established`: every copy of a session, in a browser,
  in a request or about to be written, has a second factor exactly for a user
  and a version established in that very browser. The assumption is needed
  (first finding).
* `RevokedStayOut` and `DisabledStayOut`, without any assumption on the users.
  The inductive invariant is `Fresh`: what a request knows of its user is not
  older than its arrival.
* `CodesWereSent`: with `Serviceless = {}`, the invariant
  `CodeAskedForWasSent`. The inductive invariant is `CodesOK`: every copy of a
  session that has `sentCode` and no second factor has a code sent from that
  browser to the user of the copy, except between the password and
  `postLogin`, where it may still have the flag of the user before.
* `SessionControlsAccess`: with `Serviceless = {}`, `Spec` implies
  `ImplementsAccessControl`. Each step is one step of `AccessControl` or none:
  `Deserialize` and `DirectLogin` admit, `VerifyOTP` grants, `CreateUser`
  enrols, an increment revokes, an answer leaves. That whoever is admitted has
  a grant of the current version is what `Established` says of the copy.

`ServiceSetupProofs` proves about `ServiceSetup`, for every set of people,
services, accounts, names and forms and any `MaxAttempts`:

* `SetupTypeCorrect`: `TypeOK` is an invariant.
* `SetupNamesAgree`: `NamesAgree` is an invariant.
* `SetupOpening`: `Spec` implies `ImplementsServiceOpening`, the refinement of
  `ServiceOpening`.

All three rest on one inductive invariant, `Inv`, whose parts depend on one
another. `Held` says what keeps the back ends together: what does not exist has
nobody; accounts exist before they are used; the account of a form is its own
and in no service in sight; forms that made a service made different ones;
services in sight share no account. `Renaming` says what a rename keeps: its
calls are about accounts of its service, no other rename joins one that is
alone, and wherever its call has been answered the name is the new one
(`Spread`). `Disjoint` is what makes a rename of another service harmless. The
proof first says of each action what it does to its form and to the back ends
(the lemmas ending in `Does`), then sorts the actions by what matters to an
invariant (`IdleCases`, `RenameCases`) and goes through the cases.

The parts of the portal, for every set of tabs, charges, titles, amounts,
services, accounts, cards and users, and for every number of attempts:

| Module | Theorems | Inductive invariant and argument |
|---|---|---|
| `RefundsProofs` | `SuccessHasARefund`, `RefundsAreAccounted` | `Told`: a tab that is told of success has a refund of its own, of the amount it chose; a settled tab keeps what it chose while its call goes on, so the failures of others cannot make it false, and a page opened again starts anew. `Books`: what is available is what was paid less the sum of the refunds; a refund leaves less available than its page showed, which no later page of that charge shows again until a refund fails |
| `PaymentLinksProofs` | `LinksTypeCorrect`, `ProductIsAsReviewed`, `LiveHasAProduct` | `TypeOK` with what a waiting tab knows of its copy. The two action properties follow from lemmas of one step (`ReviewedStep`, `LiveStep`), as `Price` is within a penny for every amount |
| `ApiKeysProofs` | `KeysTypeCorrect`, `SwitchIsKept`, `KeyIsOfShownAccount` | `TabsOK`: a request under way that resolved a service works on the account chosen, if there is one; only one that fell back (`AskFirstInv`) writes another one, and ends the choice. A list has keys that were made, and keys are never taken away (`OfList`). `KeyStep` says whose a new key is |
| `SettingsProofs` | `SettingsTypeCorrect`, `FreshChangesAreSafe`, `SavingAgainKeeps` | `PageOK`: the calls left of a request are its last ones, so that the one that changes something is known (`LastCalls`). `FreshOK`: what a fresh page offers, or sent, is what the settings still allow. `SavedOK`: the accepted cards were saved with one form, so that the form shows them all again |
| `PortalProofs`, on `Team` | `PortalAdminRemains` | `TeamInv`: a change under way is for somebody else (`Others`), a member has no open invitation (`Joined`). Whoever removes the last other administrator is one |
| `PortalProofs`, on `Dashboard` | `PortalLinkListsWhatIsCounted` | `DashboardInv`: what was counted are the transactions of the period that had succeeded and `open` those that had not (`CountHolds`); all that is made later is at or after its end (`MakeInv`), and what succeeds later was open (`SucceedInv`) |
| `PortalProofs` | the safety properties of `Portal` that its run checks | `ScenesInv`: the six invariants together. A step of the portal is a step of one part and stutters in the others (`Steps`), so the step lemma of each part carries over |

`FreshChangesAreSafe`, and `PortalMaestroNeeds3ds` after it, have a hypothesis
beyond the kinds of the constants, `BrandsAgree`: the cards of a brand agree on
whether they need 3D Secure. The page disables brands, not cards
(`payment_types_controller.js:15`), and offers a brand if one of its cards is
available; with a brand of which only the debit card needs 3D Secure the form
would offer both. The cards of the runs agree, as connector's do (Maestro has
debit cards only).

The sum of the refunds of a charge is a fold over a set, and the library's
induction theorems cannot be used here. `RefundsProofs` does without:
`NatSetInduction` is induction for a set of numbers instead of a predicate, from
the pigeonhole theorem of finite sets; `SubsetInduction` carries it over to the
subsets of a finite set; and with it `AddsExists` and `SumOf` say that the
function `MapThenSumSet` adds by exists, and that a sum is any one amount and
the sum of the others.

`TransactionsProofs` proves about `MCTransactions`, for any number of requests,
transactions, pages and tabs, any page sizes, and every choice of states, that
the safety properties of the four modules hold. Its invariant,
`TransactionsInv`, is that of the four:

| Part | Theorems | Inductive invariant and argument |
|---|---|---|
| lists and downloads | `WaitingHasItsCall` | `CallOK`: a promise not settled is of a request that waits for its search, and the other way round; who listens for the failure of the card types has none. A failure therefore answers everyone it settles |
| the file | `FileIsComplete`, `FileIsInOrder` | `Gathers`: the file has every transaction wanted whose rank among those that match is not after the page fetched last. Whatever arrives puts the others further back, never to the front (`RankInGrows`). A page is found by rank because each rank is taken by one transaction (`RankInTaken`: as many ranks as transactions, and no two the same) |
| the pages | `LinksLeadSomewhere`, `PageLinksAreRight` | types suffice; `LastPageIs` is about rounding up, and `JoinTo` and `JoinOrderly` about the five pieces the links are joined from |
| the filter | `NothingIsHidden` | `Follows`: the address of a tab has the states that were asked for or none, and the e-mail or none. What is shown with a name of its status is found by that name (`Statuses`, `ConnectorStates`) |

Only model-checked, and why:

* `Answered`, `EveryNavigationEnds`, `SomethingHappens`, `Ends`: liveness under
  fairness is beyond this prover.

## What is not modelled, and why

* Passwords, one-time codes, tokens and the encryption of cookies: a right or
  wrong one is an input; what adminusers does with them is not in the
  repository.
* The expiry of cookies: a cookie that is gone is a session that is empty,
  which a logout in another tab produces as well.
* Credentials of payment providers, merchant details and registration details:
  each is one write of texts that nothing in the portal reads back into a
  decision.
* Asking for an invite or for a password reset, and the pages that show a form:
  they change nothing the properties tell apart.
* The filters of accounts that still show the old statuses: one table less of
  what `TransactionSearch` has.
* The name of a service in a product: a rename while a product is made leaves
  the old name on it, and nothing in the code says otherwise.
* The texts of products, keys and e-mails beyond one that is told apart.
* Views, wording, formatting, analytics, start-up and logging.
