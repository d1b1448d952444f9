---------------------------- MODULE ApiKeysProofs ----------------------------
(***************************************************************************)
(* Theorems about ApiKeys, for all services, accounts and tabs, however    *)
(* many keys are made and calls are sent.                                  *)
(***************************************************************************)
EXTENDS ApiKeys, TLAPS

\* What a tab has under way: a request has an account, and one for a key that
\* of its form; none but those that find no service has another account than
\* the one chosen.
TabOK(r, c) ==
    r.call # "none" =>
        /\ r.account \in Accounts
        /\ r.call = "create" /\ r.asked # NoAccount => r.account = r.asked
        /\ c # NoAccount /\ r.call \notin Unresolved => r.account = c

TabsOK == \A t \in Tabs : TabOK(tab[t], chosen)

Inv == TypeOK /\ TabsOK /\ SwitchHolds

-----------------------------------------------------------------------------
LEMMA AtShape ==
    ASSUME KeysAssumption, NEW p \in Pages
    PROVE  /\ At(p) \in Tab /\ At(p).call = "none" /\ \A c : TabOK(At(p), c)
           /\ At(p).listed = {} /\ At(p).key = 0
BY DEF At, Tab, TabOK, Operations, Unresolved, KeysAssumption

LEMMA OtherPage ==
    ASSUME KeysAssumption
    PROVE  /\ At("other") \in Tab /\ At("other").call = "none"
           /\ \A c : TabOK(At("other"), c)
           /\ OfList(At("other"))
BY AtShape DEF Pages, OfList

LEMMA InitInv == ASSUME KeysAssumption, Init PROVE Inv
<1>1. TypeOK
  BY OtherPage DEF Init, TypeOK, KeysAssumption
<1> QED
  BY <1>1, OtherPage DEF Init, Inv, TabsOK, SwitchHolds

\* A tab that shows something else disturbs no other, and a key stays.
LEMMA ListsKeep ==
    ASSUME NEW t \in Tabs, NEW r \in Tab, TypeOK, Show(t, r), OfList(r),
           DOMAIN keys \subseteq DOMAIN keys'
    PROVE  tab' \in [Tabs -> Tab] /\ \A u \in Tabs : OfList(tab[u])'
BY DEF Show, TypeOK, OfList

LEMMA ShowKeeps ==
    ASSUME NEW t \in Tabs, NEW r \in Tab, Inv, Show(t, r), OfList(r),
           TabOK(r, chosen), UNCHANGED <<cookie, chosen, role, keys>>
    PROVE  Inv'
<1>1. tab' \in [Tabs -> Tab] /\ \A u \in Tabs : OfList(tab[u])'
  BY ListsKeep DEF Inv
<1>2. TabsOK'
  BY DEF Show, Inv, TypeOK, TabsOK
<1> QED
  BY <1>1, <1>2 DEF Inv, TypeOK, SwitchHolds

LEMMA CurrentAccountOfService ==
    ASSUME KeysAssumption, NEW s \in DOMAIN Services,
           NEW account \in Accounts \cup {NoAccount}
    PROVE  /\ CurrentAccount(s, account) \in Accounts
           /\ account \in AccountsOf(s) => CurrentAccount(s, account) = account
<1>1. Services[s] \in Seq(AccountsOf(s)) /\ Services[s] # <<>>
  BY DEF KeysAssumption
<1>2. Head(Services[s]) \in AccountsOf(s)
  BY <1>1
<1>3. AccountsOf(s) \subseteq Accounts
  BY DEF Accounts
<1> QED
  BY <1>2, <1>3 DEF CurrentAccount

\* A request goes on to the account of the cookie if its service has it.
LEMMA SendInv ==
    ASSUME KeysAssumption, Inv, NEW t \in Tabs, NEW op \in Operations,
           NEW s \in DOMAIN Services, NEW k \in Nat,
           op \notin Unresolved => cookie \in AccountsOf(s),
           k # 0 => k \in tab[t].listed,
           Send(t, op, s, k), UNCHANGED <<cookie, chosen, role, keys>>
    PROVE  Inv'
<1> DEFINE r == [At("other") EXCEPT
                    !.call = op, !.account = CurrentAccount(s, cookie), !.key = k,
                    !.listed = IF k # 0 THEN tab[t].listed ELSE {},
                    !.asked = IF op = "create" /\ tab[t].asked = cookie
                              THEN cookie ELSE NoAccount]
<1>1. /\ CurrentAccount(s, cookie) \in Accounts
      /\ cookie \in AccountsOf(s) => CurrentAccount(s, cookie) = cookie
  BY CurrentAccountOfService DEF Inv, TypeOK
<1>2. /\ tab[t].listed \in SUBSET Nat /\ cookie \in Accounts \cup {NoAccount}
      /\ tab[t].listed \subseteq DOMAIN keys
  BY DEF Inv, TypeOK, Tab, OfList
<1>3. r \in Tab
  BY <1>1, <1>2, OtherPage DEF Tab
<1>4. /\ r.call = op /\ r.account = CurrentAccount(s, cookie)
      /\ op = "create" /\ r.asked # NoAccount => r.asked = cookie
      /\ r.key = k /\ r.listed = IF k # 0 THEN tab[t].listed ELSE {}
  BY DEF At
<1>5. Show(t, r)
  BY DEF Send
<1> HIDE DEF r
<1>6. TabOK(r, chosen)
  BY <1>1, <1>4 DEF Inv, SwitchHolds, TabOK, Unresolved
<1>7. OfList(r)
  BY <1>2, <1>4 DEF OfList
<1> QED
  BY <1>3, <1>5, <1>6, <1>7, ShowKeeps

\* A sign-in or the naming of a service, of the first service.
LEMMA AskFirstInv ==
    ASSUME KeysAssumption, Inv, NEW t \in Tabs, NEW op \in Unresolved,
           AskFirst(t, op)
    PROVE  Inv'
<1>1. CASE FirstService = {}
  BY <1>1, OtherPage, ShowKeeps DEF AskFirst
<1>2. CASE FirstService # {}
  <2>1. PICK s \in FirstService : Send(t, op, s, 0)
    BY <1>2 DEF AskFirst
  <2>2. s \in DOMAIN Services
    BY DEF FirstService, Member
  <2>3. op \in Operations
    BY DEF Operations
  <2> QED
    BY <2>1, <2>2, <2>3, SendInv DEF AskFirst
<1> QED
  BY <1>1, <1>2

LEMMA AskInv ==
    ASSUME KeysAssumption, Inv, NEW t \in Tabs, NEW op \in DOMAIN MayAsk,
           NEW k \in 0 .. Len(keys), Ask(t, op, k)
    PROVE  Inv'
<1>1. op \in Operations /\ op \notin Unresolved /\ k \in Nat
  BY DEF Operations, Unresolved, MayAsk, Inv, TypeOK
<1>4. k # 0 => k \in tab[t].listed
  BY DEF Ask, From
<1>2. CASE \E s \in Resolved : role[s] \in MayAsk[op]
  <2>1. PICK s \in Resolved : Send(t, op, s, k)
    BY <1>2 DEF Ask
  <2>2. s \in DOMAIN Services /\ cookie \in AccountsOf(s)
    BY DEF Resolved, Member
  <2> QED
    BY <1>1, <1>4, <2>1, <2>2, SendInv DEF Ask
<1>3. CASE ~\E s \in Resolved : role[s] \in MayAsk[op]
  BY <1>3, OtherPage, ShowKeeps DEF Ask
<1> QED
  BY <1>2, <1>3

\* After a switch that nothing can undo, nothing is under way.
LEMMA SwitchInv ==
    ASSUME KeysAssumption, Inv, NEW t \in Tabs, NEW account \in Accounts,
           Switch(t, account)
    PROVE  Inv'
<1>1. At("other") \in Tab /\ At("other").call = "none"
      /\ \A c : TabOK(At("other"), c)
  BY OtherPage
<1>2. keys' = keys /\ role' = role /\ Show(t, At("other"))
  BY DEF Switch
<1>3. CASE UNCHANGED <<cookie, chosen>>
  BY <1>2, <1>3, OtherPage, ShowKeeps
<1>4. CASE cookie' = account /\ chosen' = (IF \E u \in Tabs : Busy(u) THEN NoAccount
                                            ELSE account)
  <2>1. TypeOK'
    BY <1>2, <1>4, OtherPage, ListsKeep DEF Inv, TypeOK
  <2>2. tab'[t] = At("other") /\ \A u \in Tabs \ {t} : tab'[u] = tab[u]
    BY <1>2 DEF Show, Inv, TypeOK
  <2>3. \A u \in Tabs \ {t} : TabOK(tab[u], chosen')
    BY <1>4 DEF Inv, TabsOK, TabOK, Busy
  <2>4. TabsOK'
    BY <1>1, <2>2, <2>3 DEF TabsOK
  <2>5. SwitchHolds'
    BY <1>4 DEF SwitchHolds
  <2> QED
    BY <2>1, <2>4, <2>5 DEF Inv
<1> QED
  BY <1>3, <1>4 DEF Switch

\* What publicauth does with a call: at most one key more, of the account of
\* the request.
LEMMA ServeKeeps ==
    ASSUME Inv, NEW t \in Tabs, Busy(t), Accepted(t), Serve(t)
    PROVE  /\ keys' \in Seq(Key) /\ DOMAIN keys \subseteq DOMAIN keys'
           /\ tab[t].call = "create" => keys' = Append(keys, Payload(t))
           /\ tab[t].call # "create" => Len(keys') = Len(keys)
<1>1. keys \in Seq(Key) /\ tab[t].account \in Accounts
  BY DEF Inv, TypeOK, TabsOK, TabOK, Busy
<1>2. CASE tab[t].call = "create"
  <2>1. keys' = Append(keys, Payload(t))
    BY <1>2 DEF Serve
  <2>2. Payload(t) \in Key
    BY <1>1 DEF Payload, Key
  <2>3. keys' \in Seq(Key) /\ Len(keys') = Len(keys) + 1
    BY <1>1, <2>1, <2>2
  <2>4. DOMAIN keys \subseteq DOMAIN keys'
    BY <1>1, <2>3
  <2> QED
    BY <1>2, <2>1, <2>3, <2>4
<1>3. CASE tab[t].call = "destroy"
  <2>1. keys' = [keys EXCEPT ![tab[t].key].revoked = TRUE]
    BY <1>3 DEF Serve
  <2>2. \A k \in 1 .. Len(keys) : [keys[k] EXCEPT !.revoked = TRUE] \in Key
    <3> SUFFICES ASSUME NEW k \in 1 .. Len(keys)
                 PROVE  [keys[k] EXCEPT !.revoked = TRUE] \in Key
      OBVIOUS
    <3>1. keys[k] \in Key
      BY <1>1
    <3> QED
      BY <3>1 DEF Key
  <2>3. keys' \in [1 .. Len(keys) -> Key]
    <3> DEFINE r == [keys[tab[t].key] EXCEPT !.revoked = TRUE]
    <3>1. keys' = [keys EXCEPT ![tab[t].key] = r]
      BY <2>1
    <3>2. tab[t].key \in 1 .. Len(keys) => r \in Key
      BY <2>2
    <3>3. keys \in [1 .. Len(keys) -> Key]
      BY <1>1
    <3> HIDE DEF r
    <3> QED
      BY <3>1, <3>2, <3>3
  <2>4. Len(keys) \in Nat
    BY <1>1
  <2>5. keys' \in Seq(Key) /\ Len(keys') = Len(keys)
    BY <2>3, <2>4
  <2> QED
    BY <1>1, <1>3, <2>5
<1>4. CASE tab[t].call \notin {"create", "destroy"}
  <2>1. keys' = keys
    BY <1>4 DEF Serve
  <2> QED
    BY <1>1, <1>4, <2>1
<1> QED
  BY <1>2, <1>3, <1>4

LEMMA ReplyInv ==
    ASSUME Inv, NEW t \in Tabs, NEW r \in Tab, r.call = "none", Busy(t),
           Reply(t, r), OfList(r),
           keys' \in Seq(Key), DOMAIN keys \subseteq DOMAIN keys', role' = role
    PROVE  Inv'
<1>1. /\ tab[t].account \in Accounts
      /\ chosen # NoAccount /\ tab[t].call \notin Unresolved => tab[t].account = chosen
  BY DEF Inv, TabsOK, TabOK, Busy
<1>2. /\ cookie' = tab[t].account
      /\ chosen' = (IF tab[t].call \in Unresolved /\ tab[t].account # chosen
                  THEN NoAccount ELSE chosen)
      /\ Show(t, r)
  BY DEF Reply
<1>3. tab' \in [Tabs -> Tab] /\ tab'[t] = r
      /\ \A u \in Tabs \ {t} : tab'[u] = tab[u]
  BY <1>2 DEF Show, Inv, TypeOK
<1>7. \A u \in Tabs : OfList(tab[u])'
  BY <1>2, ListsKeep DEF Inv
<1>4. \A u \in Tabs : TabOK(tab[u], chosen')
  BY <1>2 DEF Inv, TabsOK, TabOK
<1>5. TabsOK'
  BY <1>3, <1>4 DEF TabsOK, TabOK
<1>6. SwitchHolds'
  BY <1>1, <1>2 DEF SwitchHolds
<1> QED
  BY <1>1, <1>2, <1>3, <1>5, <1>6, <1>7 DEF Inv, TypeOK

LEMMA PageShape ==
    ASSUME KeysAssumption, Inv, NEW t \in Tabs
    PROVE  /\ PageOf(t) \in Tab /\ PageOf(t).call = "none" /\ OfList(PageOf(t))
           /\ \A listed \in SUBSET DOMAIN keys :
                 /\ List(listed) \in Tab /\ List(listed).call = "none"
                 /\ OfList(List(listed))
<1>1. /\ tab[t].listed \in SUBSET DOMAIN keys
      /\ tab[t].account \in Accounts \cup {NoAccount}
  BY DEF Inv, TypeOK, Tab, OfList
<1>2. KeysOf(tab[t].account, FALSE) \in SUBSET DOMAIN keys
  BY DEF KeysOf
<1>3. ASSUME NEW listed \in SUBSET DOMAIN keys
      PROVE  List(listed) \in Tab /\ List(listed).call = "none" /\ OfList(List(listed))
  <2>1. /\ At("active") \in Tab /\ At("active").call = "none"
        /\ At("active").key = 0
    BY AtShape DEF Pages
  <2>2. listed \in SUBSET Nat
    BY DEF Inv, TypeOK
  <2>3. /\ List(listed) \in Tab /\ List(listed).call = "none"
        /\ List(listed).listed = listed /\ List(listed).key = 0
    BY <2>1, <2>2 DEF List, Tab
  <2> QED
    BY <2>3 DEF OfList
<1>4. LET g == [At("generate") EXCEPT !.asked = tab[t].account]
      IN  g \in Tab /\ g.call = "none" /\ OfList(g)
  <2>1. /\ At("generate") \in Tab /\ At("generate").call = "none"
        /\ At("generate").key = 0 /\ At("generate").listed = {}
    BY AtShape DEF Pages
  <2> QED
    BY <1>1, <2>1 DEF Tab, OfList
<1> QED
  BY <1>1, <1>2, <1>3, <1>4, OtherPage DEF PageOf

LEMMA CallInv ==
    ASSUME KeysAssumption, Inv, NEW t \in Tabs, Call(t)
    PROVE  Inv'
<1>1. keys' \in Seq(Key) /\ DOMAIN keys \subseteq DOMAIN keys' /\ role' = role
  BY ServeKeeps DEF Call, Served, Fails, Inv, TypeOK
<1>2. CASE Served(t)
  BY <1>1, <1>2, PageShape, ReplyInv DEF Served
<1>3. CASE Fails(t)
  <2> DEFINE r == IF tab[t].key # 0 THEN List(tab[t].listed) ELSE At("other")
  <2>1. tab[t].listed \in SUBSET DOMAIN keys
    BY DEF Inv, TypeOK, OfList
  <2>2. r \in Tab /\ r.call = "none" /\ OfList(r)
    BY <2>1, PageShape, OtherPage
  <2>3. Busy(t) /\ Reply(t, r)
    BY <1>3 DEF Fails
  <2> HIDE DEF r
  <2> QED
    BY <1>1, <2>2, <2>3, ReplyInv
<1> QED
  BY <1>2, <1>3 DEF Call

LEMMA SendAgainInv ==
    ASSUME KeysAssumption, Inv, NEW t \in Tabs, SendAgain(t)
    PROVE  Inv'
<1>1. Busy(t) /\ UNCHANGED <<cookie, chosen, role>> /\ tab[t].attempt < MaxAttempts
      /\ tab' = [tab EXCEPT ![t].attempt = @ + 1]
  BY DEF SendAgain, Busy
<1>2. keys' \in Seq(Key) /\ DOMAIN keys \subseteq DOMAIN keys'
  BY <1>1, ServeKeeps DEF SendAgain, Inv, TypeOK
<1>3. tab' \in [Tabs -> Tab]
  <2> DEFINE r == [tab[t] EXCEPT !.attempt = @ + 1]
  <2>1. tab \in [Tabs -> Tab] /\ tab[t] \in Tab
    BY DEF Inv, TypeOK
  <2>2. tab[t].attempt + 1 \in 1 .. MaxAttempts
    BY <1>1, <2>1 DEF Tab, KeysAssumption
  <2>4. r \in Tab
    BY <2>1, <2>2 DEF Tab
  <2>3. tab' = [tab EXCEPT ![t] = r]
    BY <1>1
  <2> HIDE DEF r
  <2> QED
    BY <2>1, <2>3, <2>4
<1>4. \A u \in Tabs : /\ tab'[u].call = tab[u].call
                      /\ tab'[u].account = tab[u].account
                      /\ tab'[u].asked = tab[u].asked
                      /\ tab'[u].listed = tab[u].listed /\ tab'[u].key = tab[u].key
  BY <1>1 DEF Inv, TypeOK, Tab
<1>5. TabsOK'
  BY <1>1, <1>4 DEF Inv, TabsOK, TabOK
<1>6. \A u \in Tabs : OfList(tab[u])'
  BY <1>2, <1>4 DEF Inv, TypeOK, OfList
<1> QED
  BY <1>1, <1>2, <1>3, <1>5, <1>6 DEF Inv, TypeOK, SwitchHolds

LEMMA StepInv == ASSUME KeysAssumption, Inv, [Next]_vars PROVE Inv'
<1>1. ASSUME UNCHANGED <<cookie, chosen, keys, tab>>,
             role' \in [DOMAIN Services -> {"admin", "view", "none"}]
      PROVE  Inv'
  BY <1>1 DEF Inv, TypeOK, TabsOK, SwitchHolds, OfList
<1>2. CASE UNCHANGED vars \/ ChangeRole
  BY <1>1, <1>2 DEF vars, ChangeRole, Inv, TypeOK
<1> QED
  BY <1>2, AskFirstInv, AskInv, SwitchInv, CallInv, SendAgainInv
  DEF Next, Login, SetName, Unresolved

THEOREM KeysInvariant == KeysAssumption => (Spec => []Inv)
<1> SUFFICES ASSUME KeysAssumption PROVE Spec => []Inv
  OBVIOUS
<1>1. Init => Inv
  BY InitInv
<1>2. Inv /\ [Next]_vars => Inv'
  BY StepInv
<1> QED
  BY <1>1, <1>2, PTL DEF Spec

\* The types of ApiKeys, of all its pages and calls: a list that is shown, and
\* one that is kept for the answer to a change (api_keys_controller.js:97, 131),
\* has keys that there are.
THEOREM KeysTypeCorrect == KeysAssumption => (Spec => []TypeOK)
<1>1. Inv => TypeOK
  BY DEF Inv
<1> QED
  BY <1>1, KeysInvariant, PTL

\* The account switched to while nothing was under way is the account of the
\* session until the next switch, or until a sign-in or the naming of a
\* service falls back to the first service (auth_service.js:131, 140,
\* my_services_controller.js:78), for all services and any number of tabs.
THEOREM SwitchIsKept == KeysAssumption => (Spec => []SwitchHolds)
<1>1. Inv => SwitchHolds
  BY DEF Inv
<1> QED
  BY <1>1, KeysInvariant, PTL

-----------------------------------------------------------------------------
\* A key that a request adds is of the account of its form.
LEMMA KeyAdded ==
    ASSUME Inv, NEW t \in Tabs, Busy(t),
           (Accepted(t) /\ Serve(t)) \/ UNCHANGED keys,
           tab[t].call = "create", tab[t].asked # NoAccount,
           Len(keys') > Len(keys)
    PROVE  Last(keys').account = tab[t].asked
<1>1. keys \in Seq(Key) /\ keys' # keys
  BY DEF Inv, TypeOK
<1>2. keys' = Append(keys, Payload(t))
  BY <1>1, ServeKeeps
<1>3. Payload(t) \in Key /\ Payload(t).account = tab[t].account
  BY DEF Payload, Key, Inv, TabsOK, TabOK, Busy
<1>4. Last(keys') = Payload(t)
  BY <1>1, <1>2, <1>3 DEF Last
<1>5. tab[t].account = tab[t].asked
  BY DEF Inv, TabsOK, TabOK, Busy
<1> QED
  BY <1>3, <1>4, <1>5

LEMMA KeyStep ==
    ASSUME Inv, [Next]_vars, NEW t \in Tabs,
           tab[t].call = "create", tab'[t] # tab[t],
           tab[t].asked # NoAccount, Len(keys') > Len(keys)
    PROVE  Last(keys').account = tab[t].asked
<1>1. keys' # keys
  BY DEF Inv, TypeOK
<1>2. PICK u \in Tabs : Call(u) \/ SendAgain(u)
  BY <1>1 DEF Next, vars, Login, SetName, AskFirst, Ask, Switch, ChangeRole
<1>3. \A v \in Tabs \ {u} : tab'[v] = tab[v]
  BY <1>2 DEF Inv, TypeOK, Call, Served, Fails, SendAgain, Reply, Show
<1>4. u = t
  BY <1>3
<1>5. Busy(t)
  BY DEF Busy
<1>6. (Accepted(t) /\ Serve(t)) \/ UNCHANGED keys
  BY <1>2, <1>4 DEF Call, Served, Fails, SendAgain
<1> QED
  BY <1>5, <1>6, KeyAdded

\* A key is made for the account whose form was filled in, as long as the
\* cookie still has that account when the form is sent
\* (api_keys_controller.js:73): however slow or often repeated the call is.
THEOREM KeyIsOfShownAccount == KeysAssumption => (Spec => KeyOfShownAccount)
<1> SUFFICES ASSUME KeysAssumption PROVE Spec => KeyOfShownAccount
  OBVIOUS
<1>1. Inv /\ [Next]_vars =>
        [\A t \in Tabs :
            /\ tab[t].call = "create" /\ tab'[t] # tab[t]
            /\ tab[t].asked # NoAccount /\ Len(keys') > Len(keys)
            => Last(keys').account = tab[t].asked]_vars
  BY KeyStep
<1> QED
  BY <1>1, KeysInvariant, PTL DEF Spec, KeyOfShownAccount
=============================================================================
