------------------------------- MODULE ApiKeys -------------------------------
(***************************************************************************)
(* The account a user works on, and the API keys of that account.          *)
(*                                                                         *)
(* The account is kept in the cookie gateway_account, which all tabs       *)
(* share.  A request works on the account of the cookie it came with and   *)
(* its reply writes that account back (getCurrentGatewayAccountId), so a   *)
(* slow page can undo a switch made in another tab.  Where no middleware   *)
(* finds the service of that account, the first service of the user stands *)
(* in for it, and the reply writes one of its accounts back.               *)
(***************************************************************************)
EXTENDS Naturals, Sequences, FiniteSets, SequencesExt

CONSTANTS
    Tabs,
    Services,       \* the accounts of each service, in their order
    RolesAtFirst,   \* the role of the user in each service at first
    Unsteady,       \* bound: the services in which it may change
    NoAccount,
    MaxKeys,        \* bound: no request for a key is sent after so many keys
    MaxAttempts     \* how often the client sends a call

AccountsOf(s) == ToSet(Services[s])

Accounts == UNION {AccountsOf(s) : s \in DOMAIN Services}

KeysAssumption ==
    /\ Services # <<>>
    /\ \A s \in DOMAIN Services : Services[s] \in Seq(AccountsOf(s)) \ {<<>>}
    /\ \A r, s \in DOMAIN Services : r # s => AccountsOf(r) \cap AccountsOf(s) = {}
    /\ RolesAtFirst \in [DOMAIN Services -> {"admin", "view", "none"}]
    /\ Unsteady \subseteq DOMAIN Services
    /\ NoAccount \notin Accounts
    /\ MaxKeys \in Nat /\ MaxAttempts \in Nat \ {0}

VARIABLES
    cookie,     \* gateway_account.currentGatewayAccountId
    chosen,     \* ghost: the account switched to, when no request was under
                \* way that could undo it, until one falls back to another
    role,       \* adminusers: the role of the user in each service
    keys,       \* publicauth: all keys, in the order they were made
    tab

vars == <<cookie, chosen, role, keys, tab>>

-----------------------------------------------------------------------------
\* What can be asked for, and the roles that may.
MayAsk == [active   |-> {"admin", "view"},
           revoked  |-> {"admin", "view"},
           generate |-> {"admin"},
           create   |-> {"admin"},
           update   |-> {"admin"},
           destroy  |-> {"admin"}]

\* A sign-in, and the page that sets the name of a new service, do not find
\* the service of the account.
Unresolved == {"login", "setName"}

Operations == DOMAIN MayAsk \cup Unresolved

\* The pages with something to send: the active keys, and a form for a key.
Pages == {"active", "generate", "other"}

Key == [account : Accounts, revoked : BOOLEAN]

\* account: the one of the request; listed: the keys of the list; asked: the
\* account of the form, forgotten when the cookie had another as it was sent.
Tab == [page : Pages, call : Operations \cup {"none"},
        account : Accounts \cup {NoAccount}, asked : Accounts \cup {NoAccount},
        listed : SUBSET Nat, key : Nat, attempt : 1 .. MaxAttempts]

\* A list has keys there are, and a change is of one of them.
OfList(r) == r.listed \subseteq DOMAIN keys /\ r.key \in r.listed \cup {0}

TypeOK == /\ cookie \in Accounts \cup {NoAccount}
          /\ chosen \in Accounts \cup {NoAccount}
          /\ role \in [DOMAIN Services -> {"admin", "view", "none"}]
          /\ keys \in Seq(Key)
          /\ tab \in [Tabs -> Tab]
          /\ \A t \in Tabs : OfList(tab[t])

At(p) == [page |-> p, call |-> "none", account |-> NoAccount,
          asked |-> NoAccount, listed |-> {}, key |-> 0, attempt |-> 1]

Init == /\ cookie = NoAccount /\ chosen = NoAccount
        /\ role = RolesAtFirst
        /\ keys = <<>>
        /\ tab = [t \in Tabs |-> At("other")]

-----------------------------------------------------------------------------
(* The current account                                                     *)

Busy(t) == tab[t].call # "none"

Member == {s \in DOMAIN Services : role[s] # "none"}

\* resolve_service: the service the account of the cookie belongs to.
Resolved == {s \in Member : cookie \in AccountsOf(s)}

\* The first service of the user, whom a request does not name a service for.
FirstService == {s \in Member : \A r \in Member : s <= r}

\* (without the account of the cookie)
FirstAccount(s, account) == Head(Services[s])

\* The account of the cookie when the service has it, else its first.
CurrentAccount(s, account) ==
    IF account \in AccountsOf(s) THEN account ELSE Head(Services[s])

-----------------------------------------------------------------------------
(* Requests                                                                *)

Show(t, page) == tab' = [tab EXCEPT ![t] = page]

\* The request goes on to the account of service s.
Send(t, op, s, k) ==
    Show(t, [At("other") EXCEPT
                !.call = op, !.account = CurrentAccount(s, cookie), !.key = k,
                !.listed = IF k # 0 THEN tab[t].listed ELSE {},
                !.asked = IF op = "create" /\ tab[t].asked = cookie
                          THEN cookie ELSE NoAccount])

\* Of a user of no service, a sign-in ends in an exception, and the name is
\* not asked for but the switcher shown.
AskFirst(t, op) ==
    /\ ~Busy(t)
    /\ IF FirstService = {}
       THEN Show(t, At("other"))
       ELSE \E s \in FirstService : Send(t, op, s, 0)
    /\ UNCHANGED <<cookie, chosen, role, keys>>

\* Signing in: the cookie outlives a logout and may be another user's.
Login(t) == AskFirst(t, "login")

\* The form for the name of the first service, or its answer.
SetName(t) == AskFirst(t, "setName")

\* The page a request is sent from.
From(t, op, k) ==
    CASE op = "create"               -> tab[t].page = "generate" /\ k = 0
      [] op \in {"update", "destroy"} -> tab[t].page = "active" /\ k \in tab[t].listed
      [] OTHER                       -> k = 0

NewKeys == Cardinality({t \in Tabs : tab[t].call = "create"})

\* Without services the switcher is shown, without a service of the cookie's
\* account or without the permission an error.
Ask(t, op, k) ==
    /\ ~Busy(t) /\ From(t, op, k)
    /\ op = "create" => Len(keys) + NewKeys < MaxKeys
    /\ IF \E s \in Resolved : role[s] \in MayAsk[op]
       THEN \E s \in Resolved : Send(t, op, s, k)
       ELSE Show(t, At("other"))
    /\ UNCHANGED <<cookie, chosen, role, keys>>

\* The switcher itself reads no account; an account of none of the services
\* is not switched to.
Switch(t, account) ==
    /\ ~Busy(t)
    /\ IF \E s \in Member : account \in AccountsOf(s)
       THEN /\ cookie' = account
            /\ chosen' = IF \E u \in Tabs : Busy(u) THEN NoAccount ELSE account
            /\ Show(t, At("other"))
       ELSE /\ Show(t, At("other"))
            /\ UNCHANGED <<cookie, chosen>>
    /\ UNCHANGED <<role, keys>>

-----------------------------------------------------------------------------
(* Calls                                                                   *)

KeysOf(account, revoked) ==
    {k \in DOMAIN keys : keys[k].account = account /\ keys[k].revoked = revoked}

\* (of the account the cookie has by now)
PayloadOfCookie(t) == [account |-> cookie, revoked |-> FALSE]

Payload(t) == [account |-> tab[t].account, revoked |-> FALSE]

\* publicauth finds a key to change by its link alone, and one to revoke
\* among those of the account.
Accepted(t) ==
    LET k == tab[t].key IN
    /\ tab[t].call \in {"update", "destroy"} => ~keys[k].revoked
    /\ tab[t].call = "destroy" => keys[k].account = tab[t].account

Serve(t) ==
    LET k == tab[t].key IN
    keys' = CASE tab[t].call = "create"  -> Append(keys, Payload(t))
              [] tab[t].call = "destroy" -> [keys EXCEPT ![k].revoked = TRUE]
              [] OTHER                   -> keys

\* The reply: the cookie has the account of the request.
Reply(t, page) ==
    /\ cookie' = tab[t].account
    /\ chosen' = IF tab[t].call \in Unresolved /\ tab[t].account # chosen
                 THEN NoAccount ELSE chosen
    /\ Show(t, page)

List(listed) == [At("active") EXCEPT !.listed = listed]

\* A revoked key leaves the list of the page, one with a new name stays.
PageOf(t) ==
    CASE tab[t].call = "active"   -> List(KeysOf(tab[t].account, FALSE))
      [] tab[t].call = "generate" -> [At("generate") EXCEPT !.asked = tab[t].account]
      [] tab[t].call = "update"   -> List(tab[t].listed)
      [] tab[t].call = "destroy"  -> List(tab[t].listed \ {tab[t].key})
      [] OTHER                    -> At("other")

Served(t) ==
    /\ Busy(t) /\ Accepted(t)
    /\ Serve(t)
    /\ Reply(t, PageOf(t))
    /\ UNCHANGED role

\* Refused, or broken down before or after it was served.  Of the pages that
\* call connector alone (get_gateway_account), its failure is not told.
Fails(t) ==
    /\ Busy(t) /\ tab[t].call \notin {"login", "generate"}
    /\ (Accepted(t) /\ Serve(t)) \/ UNCHANGED keys
    /\ Reply(t, IF tab[t].key # 0 THEN List(tab[t].listed) ELSE At("other"))
    /\ UNCHANGED role

\* The connection is reset, and the client sends the call again.
SendAgain(t) ==
    /\ tab[t].call \in {"create", "update", "destroy"}
    /\ tab[t].attempt < MaxAttempts
    /\ (Accepted(t) /\ Serve(t)) \/ UNCHANGED keys
    /\ tab' = [tab EXCEPT ![t].attempt = @ + 1]
    /\ UNCHANGED <<cookie, chosen, role>>

Call(t) == Served(t) \/ Fails(t)

\* An administrator changes the role of the user, or removes them.
ChangeRole ==
    /\ \E s \in Unsteady, r \in {"view", "none"} :
          role[s] = "admin" /\ role' = [role EXCEPT ![s] = r]
    /\ UNCHANGED <<cookie, chosen, keys, tab>>

Next == \/ \E t \in Tabs :
              \/ Login(t) \/ SetName(t)
              \/ \E op \in DOMAIN MayAsk, k \in 0 .. Len(keys) : Ask(t, op, k)
              \/ \E account \in Accounts : Switch(t, account)
              \/ Call(t) \/ SendAgain(t)
        \/ ChangeRole

\* The back ends answer every call: the clients themselves wait without limit.
Spec == Init /\ [][Next]_vars /\ \A t \in Tabs : WF_vars(Call(t))

-----------------------------------------------------------------------------
(* Properties                                                              *)

\* The account switched to while nothing was under way stays the account of
\* the session until the next switch, or until a sign-in or the naming of a
\* service has fallen back to the first service (OwnAccountStays): whatever
\* other pages are opened, refused or fail, in whatever order they are
\* answered, and whichever services the user loses.
SwitchHolds == chosen # NoAccount => cookie = chosen

\* "retrieve user's gatewayAccountIds ... check if we don't have Cookie value
\* or if it's different user / different userGatewayAccountIds"
\* (auth_service.js:139, 145): within one session, nothing but a switch takes
\* away an account that was switched to and is still one of the user's.
OwnAccountStays ==
    [][\A t \in Tabs :
          /\ Busy(t) /\ ~Busy(t)' /\ tab[t].call # "login"
          /\ \E s \in Member : chosen \in AccountsOf(s)
          => cookie' = chosen]_vars

\* A key is made for the account whose form was filled in, unless the cookie
\* had another account by the time the form was sent.
KeyOfShownAccount ==
    [][\A t \in Tabs :
          /\ tab[t].call = "create" /\ tab'[t] # tab[t]
          /\ tab[t].asked # NoAccount /\ Len(keys') > Len(keys)
          => Last(keys').account = tab[t].asked]_vars

\* Every request is answered: no tab waits for ever.
Answered == \A t \in Tabs : []<>~Busy(t)
=============================================================================
