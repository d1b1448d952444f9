------------------------- MODULE ServiceSetupProofs -------------------------
(***************************************************************************)
(* Theorems about ServiceSetup, for every number of people, services,      *)
(* accounts, forms and attempts.  First what each action does, said        *)
(* once (the Does lemmas) and by kind (IdleCases, RenameCases); then that  *)
(* each part of the invariant Inv survives every step; then that every     *)
(* step is one of ServiceOpening.                                          *)
(***************************************************************************)
EXTENDS ServiceSetup, TLAPS

(* What holds the three back ends together.                                *)

\* What does not exist yet has nothing, and nobody.
NothingBefore ==
    \A s \in Services :
        ~service[s].exists => service[s].accounts = {} /\ ~Visible(s)

\* The form has an account that it may still put into a service of its own.
Building(f) ==
    \/ form[f].pc \in {"createService", "assignRole"}
    \/ form[f].pc = "completeInvite" /\ form[f].user \notin registered

AccountsExist ==
    /\ \A s \in Services : \A a \in service[s].accounts : account[a].exists
    /\ \A f \in Forms : Building(f) => /\ form[f].account \in Accounts
                                       /\ account[form[f].account].exists

\* The account of a form is its own, and in no service that can be seen but
\* the one it is about to be told of.
AccountsOwn ==
    /\ \A f, g \in Forms :
          Building(f) /\ Building(g) /\ f # g
          => form[f].account # form[g].account
    /\ \A f \in Forms, s \in Services :
          Building(f) /\ Visible(s) /\ form[f].account \in service[s].accounts
          => form[f].pc = "assignRole" /\ form[f].target = s

\* The form names a service that it made: one without a role so far, or one
\* it was told of.
Naming(f) ==
    \/ form[f].pc = "assignRole"
    \/ form[f].pc = "ok" /\ Creates(f)

ServicesNamed ==
    /\ \A f \in Forms : Naming(f) => /\ form[f].target \in Services
                                     /\ service[form[f].target].exists
    /\ \A f, g \in Forms : Naming(f) /\ Naming(g) /\ f # g
                           => form[f].target # form[g].target

ServicesMade ==
    \A f \in Forms : form[f].pc = "assignRole" =>
        /\ service[form[f].target].accounts = {form[f].account}
        /\ admins[form[f].target] \subseteq {form[f].user}

Senders ==
    \A f \in Forms :
        /\ form[f].pc \in {"verifyOtp", "createAccount", "createService",
                           "assignRole", "completeInvite"}
           => form[f].user \in Users /\ Creates(f)
        /\ form[f].pc \in {"createService", "assignRole"}
           => form[f].kind = "add"

Disjoint ==
    \A s1, s2 \in Services :
        Visible(s1) /\ Visible(s2) /\ s1 # s2
        => service[s1].accounts \cap service[s2].accounts = {}

Held ==
    /\ NothingBefore
    /\ AccountsExist
    /\ AccountsOwn
    /\ ServicesNamed
    /\ ServicesMade
    /\ Senders
    /\ Disjoint

(* What a rename keeps while it is under way.                              *)

\* A rename is about a service somebody can see, and its calls about the
\* accounts of that service.
RenamesOK ==
    \A f \in Forms :
        /\ form[f].kind = "rename" =>
              /\ form[f].target \in Services
              /\ Visible(form[f].target)
              /\ form[f].pending
                    \subseteq Backends \X service[form[f].target].accounts
        /\ form[f].pc = "updateName" =>
              form[f].kind = "rename" /\ form[f].pending = {}
        /\ form[f].pc \in {"updateName", "patchNames"} =>
              form[f].name \in Names
        /\ form[f].pending # {} =>
              form[f].kind = "rename" /\ form[f].pc \in {"patchNames", "error"}

LastOK ==
    /\ \A s \in Services : \A f \in Forms :
          lastRename[s] = f =>
              /\ form[f].kind = "rename"
              /\ form[f].target = s
              /\ form[f].pc # "unsent"
    /\ \A f \in alone : form[f].pc # "unsent"

AloneOK ==
    \A s \in Services : \A f, g \in Forms :
        lastRename[s] = f /\ f \in alone /\ g # f /\ UnderWay(g)
        => form[g].target # s

\* Where the call of the last rename has been answered, or there was none to
\* make, the name is the new one.
Spread ==
    \A s \in Services : \A f \in Forms :
        lastRename[s] = f /\ f \in alone /\ form[f].pc \in {"patchNames", "ok"}
        => /\ service[s].name = form[f].name
           /\ \A a \in service[s].accounts :
                 /\ \/ <<"connector", a>> \in form[f].pending
                    \/ account[a].name = form[f].name
                 /\ \/ <<"products", a>> \in form[f].pending
                    \/ products[a] \in {form[f].name, NoName}

Renaming == RenamesOK /\ LastOK /\ AloneOK /\ Spread

Inv == TypeOK /\ Held /\ Renaming

-----------------------------------------------------------------------------
(* How a form changes                                                      *)

Calls == Backends \X Accounts

\* Only f changes, and nothing of it but its progress.
Moved(f, pc, target, made, pending) ==
    /\ form' \in [Forms -> Request]
    /\ \A g \in Forms : g # f => form'[g] = form[g]
    /\ form'[f].pc = pc
    /\ form'[f].target = target
    /\ form'[f].account = made
    /\ form'[f].pending = pending
    /\ form'[f].kind = form[f].kind
    /\ form'[f].user = form[f].user
    /\ form'[f].name = form[f].name

\* Only f changes, which was not sent before.
Sent(f, pc, kind, u, s, n) ==
    /\ form' \in [Forms -> Request]
    /\ \A g \in Forms : g # f => form'[g] = form[g]
    /\ form[f].pc = "unsent"
    /\ form'[f].pc = pc
    /\ form'[f].target = s
    /\ form'[f].pending = {}
    /\ form'[f].kind = kind
    /\ form'[f].user = u
    /\ form'[f].name = n

\* The fields of a form.
LEMMA FormFields ==
    ASSUME TypeOK, NEW f \in Forms
    PROVE  /\ form[f] \in Request
           /\ form[f].pc \in PC
           /\ form[f].kind \in {"register", "add", "rename"}
           /\ form[f].user \in Users \cup {NoUser}
           /\ form[f].target \in Services \cup {NoService}
           /\ form[f].name \in MaybeName
           /\ form[f].account \in Accounts \cup {NoAccount}
           /\ form[f].attempts \in Nat
           /\ form[f].pending \subseteq Calls
  BY DEF TypeOK, Request, Calls

\* An action that gives one form another progress moves it.
LEMMA Moving ==
    ASSUME TypeOK, NEW f \in Forms, NEW r \in Request,
           form' = [form EXCEPT ![f] = r],
           r.kind = form[f].kind, r.user = form[f].user,
           r.name = form[f].name
    PROVE  Moved(f, r.pc, r.target, r.account, r.pending)
<1>1. form' \in [Forms -> Request]
  BY DEF TypeOK
<1>2. form'[f] = r /\ \A g \in Forms : g # f => form'[g] = form[g]
  BY DEF TypeOK
<1> QED
  BY <1>1, <1>2 DEF Moved

\* An answered call takes the form to its next one.
LEMMA AdvanceMoves ==
    ASSUME TypeOK, NEW f \in Forms, NEW pc \in PC,
           Advance(f, pc)
    PROVE  Moved(f, pc, form[f].target, form[f].account, form[f].pending)
<1> DEFINE r == [form[f] EXCEPT !.pc = pc, !.attempts = 1]
<1>1. r \in Request
  BY FormFields DEF Request, PC
<1>2. form' = [form EXCEPT ![f] = r]
  BY DEF Advance, TypeOK
<1>3. /\ r.kind = form[f].kind /\ r.user = form[f].user
      /\ r.name = form[f].name
      /\ r.pc = pc
      /\ r.target = form[f].target
      /\ r.account = form[f].account
      /\ r.pending = form[f].pending
  BY FormFields DEF Request
<1> HIDE DEF r
<1> QED
  BY <1>1, <1>2, <1>3, Moving

\* A call that is sent again leaves the form where it was.
LEMMA SendAgainMoves ==
    ASSUME TypeOK, NEW f \in Forms, SendAgain(f)
    PROVE  Moved(f, form[f].pc, form[f].target, form[f].account,
                 form[f].pending)
<1> DEFINE r == [form[f] EXCEPT !.attempts = @ + 1]
<1>1. r \in Request
  BY FormFields DEF Request, PC
<1>2. form' = [form EXCEPT ![f] = r]
  BY DEF SendAgain, TypeOK
<1>3. /\ r.kind = form[f].kind /\ r.user = form[f].user
      /\ r.name = form[f].name
      /\ r.pc = form[f].pc
      /\ r.target = form[f].target
      /\ r.account = form[f].account
      /\ r.pending = form[f].pending
  BY FormFields DEF Request
<1> HIDE DEF r
<1> QED
  BY <1>1, <1>2, <1>3, Moving

AfterAccount(f) == IF form[f].kind = "register" THEN "completeInvite"
                   ELSE "createService"

\* The account that connector answered with becomes the one of the form.
LEMMA CreateAccountMoves ==
    ASSUME TypeOK, NEW f \in Forms, NEW a \in Accounts, CreateAccount(f, a)
    PROVE  Moved(f, AfterAccount(f), form[f].target, a, form[f].pending)
<1> DEFINE r == [form[f] EXCEPT !.account = a, !.attempts = 1,
                               !.pc = AfterAccount(f)]
<1>1. r \in Request
  BY FormFields DEF Request, PC, AfterAccount
<1>2. form' = [form EXCEPT ![f] = r]
  BY DEF CreateAccount, AfterAccount, TypeOK
<1>3. /\ r.kind = form[f].kind /\ r.user = form[f].user
      /\ r.name = form[f].name
      /\ r.pc = AfterAccount(f)
      /\ r.target = form[f].target
      /\ r.account = a
      /\ r.pending = form[f].pending
  BY FormFields DEF Request
<1> HIDE DEF r
<1> QED
  BY <1>1, <1>2, <1>3, Moving

\* The service that adminusers answered with becomes the one of the form.
LEMMA CreateServiceMoves ==
    ASSUME TypeOK, NEW f \in Forms, NEW s \in Services, CreateService(f, s)
    PROVE  Moved(f, "assignRole", s, form[f].account, form[f].pending)
<1> DEFINE r == [form[f] EXCEPT !.pc = "assignRole", !.attempts = 1,
                               !.target = s]
<1>1. r \in Request
  BY FormFields DEF Request, PC
<1>2. form' = [form EXCEPT ![f] = r]
  BY DEF CreateService, TypeOK
<1>3. /\ r.kind = form[f].kind /\ r.user = form[f].user
      /\ r.name = form[f].name
      /\ r.pc = "assignRole"
      /\ r.target = s
      /\ r.account = form[f].account
      /\ r.pending = form[f].pending
  BY FormFields DEF Request
<1> HIDE DEF r
<1> QED
  BY <1>1, <1>2, <1>3, Moving

\* So it does when an invite is completed.
LEMMA CompleteInviteMoves ==
    ASSUME TypeOK, NEW f \in Forms, NEW s \in Services, CompleteInvite(f, s)
    PROVE  Moved(f, "ok", s, form[f].account, form[f].pending)
<1> DEFINE r == [form[f] EXCEPT !.pc = "ok", !.target = s]
<1>1. r \in Request
  BY FormFields DEF Request, PC
<1>2. form' = [form EXCEPT ![f] = r]
  BY DEF CompleteInvite, TypeOK
<1>3. /\ r.kind = form[f].kind /\ r.user = form[f].user
      /\ r.name = form[f].name
      /\ r.pc = "ok"
      /\ r.target = s
      /\ r.account = form[f].account
      /\ r.pending = form[f].pending
  BY FormFields DEF Request
<1> HIDE DEF r
<1> QED
  BY <1>1, <1>2, <1>3, Moving

\* The calls that an answered rename makes.
CallsOf(f) == Backends \X service[form[f].target].accounts

AfterName(f) == IF CallsOf(f) = {} THEN "ok" ELSE "patchNames"

\* An answered rename has a call to make for every account and back end.
LEMMA UpdateNameMoves ==
    ASSUME TypeOK, NEW f \in Forms, UpdateName(f),
           form[f].target \in Services
    PROVE  Moved(f, AfterName(f), form[f].target, form[f].account, CallsOf(f))
<1> DEFINE r == [form[f] EXCEPT !.pending = CallsOf(f), !.attempts = 1,
                               !.pc = AfterName(f)]
<1>1. service[form[f].target].accounts \subseteq Accounts
  BY DEF TypeOK, Service
<1>2. CallsOf(f) \in SUBSET (Backends \X Accounts) /\ AfterName(f) \in PC
  BY <1>1 DEF CallsOf, AfterName, PC
<1>3. form' = [form EXCEPT ![f] = r]
  BY DEF UpdateName, CallsOf, AfterName, TypeOK
<1> HIDE DEF CallsOf, AfterName
<1>4. r \in Request
  BY <1>2, FormFields DEF Request
<1>5. /\ r.kind = form[f].kind /\ r.user = form[f].user
      /\ r.name = form[f].name
      /\ r.pc = AfterName(f)
      /\ r.target = form[f].target
      /\ r.account = form[f].account
      /\ r.pending = CallsOf(f)
  BY <1>2, FormFields DEF Request
<1> HIDE DEF r
<1> QED
  BY <1>3, <1>4, <1>5, Moving

\* How a rename stands after one of its calls.
AfterCall(f, call, succeeded) ==
    IF form[f].pc = "error" \/ ~succeeded THEN "error"
    ELSE IF form[f].pending \ {call} = {} THEN "ok" ELSE form[f].pc

\* An answered call of a rename is one call less.
LEMMA SettleMoves ==
    ASSUME TypeOK, NEW f \in Forms, NEW call \in Calls,
           NEW succeeded \in BOOLEAN, Settle(f, call, succeeded)
    PROVE  Moved(f, AfterCall(f, call, succeeded), form[f].target,
                 form[f].account, form[f].pending \ {call})
<1> DEFINE r == [form[f] EXCEPT !.pending = form[f].pending \ {call},
                               !.pc = AfterCall(f, call, succeeded)]
<1>1. r \in Request
  BY FormFields DEF Request, PC, AfterCall
<1>2. form' = [form EXCEPT ![f] = r]
  BY DEF Settle, AfterCall, TypeOK
<1>3. /\ r.kind = form[f].kind /\ r.user = form[f].user
      /\ r.name = form[f].name
      /\ r.pc = AfterCall(f, call, succeeded)
      /\ r.target = form[f].target
      /\ r.account = form[f].account
      /\ r.pending = form[f].pending \ {call}
  BY FormFields DEF Request
<1> HIDE DEF r
<1> QED
  BY <1>1, <1>2, <1>3, Moving

\* A form that is sent is a request.
LEMMA SendSends ==
    ASSUME TypeOK, NEW f \in Forms, NEW pc \in PC,
           NEW kind \in {"register", "add", "rename"}, NEW u \in Users,
           NEW s \in Services \cup {NoService}, NEW n \in MaybeName,
           Send(f, pc, kind, u, s, n)
    PROVE  Sent(f, pc, kind, u, s, n)
<1> DEFINE r == [pc |-> pc, kind |-> kind, user |-> u, target |-> s,
                 name |-> n, account |-> NoAccount, attempts |-> 1,
                 pending |-> {}]
<1>1. r \in Request
  BY DEF Request
<1>2. form' = [form EXCEPT ![f] = r]
  BY DEF Send
<1>3. form' \in [Forms -> Request]
  BY <1>1, <1>2 DEF TypeOK
<1>4. form'[f] = r /\ \A g \in Forms : g # f => form'[g] = form[g]
  BY <1>2 DEF TypeOK
<1> QED
  BY <1>3, <1>4 DEF Sent, Send

-----------------------------------------------------------------------------
(* What each action does to a form and to the rest                         *)

\* Only the form changes.
Quietly == UNCHANGED <<service, admins, registered, account, products,
                       lastRename, alone>>

\* A service is made with the account of f.
Made(f, s) ==
    /\ ~service[s].exists
    /\ service' \in [Services -> Service]
    /\ service'[s].exists
    /\ service'[s].accounts = {form[f].account}
    /\ \A other \in Services : other # s => service'[other] = service[other]

\* What NewService does to adminusers.
LEMMA NewServiceMakes ==
    ASSUME TypeOK, NEW f \in Forms, NEW s \in Services, NewService(f, s),
           form[f].account \in Accounts
    PROVE  Made(f, s)
<1> DEFINE r == [exists |-> TRUE, name |-> form[f].name,
                 accounts |-> {form[f].account}]
<1>1. r \in Service
  BY FormFields DEF Service
<1>2. service' = [service EXCEPT ![s] = r] /\ ~service[s].exists
  BY DEF NewService
<1> HIDE DEF r
<1>3. service' \in [Services -> Service]
  BY <1>1, <1>2 DEF TypeOK
<1>4. /\ service'[s] = r
      /\ \A other \in Services : other # s => service'[other] = service[other]
  BY <1>2 DEF TypeOK
<1>5. r.exists /\ r.accounts = {form[f].account}
  BY DEF r
<1> QED
  BY <1>2, <1>3, <1>4, <1>5 DEF Made

\* A service gets the name of f.
Named(f, s) ==
    /\ service' \in [Services -> Service]
    /\ service'[s].exists = service[s].exists
    /\ service'[s].accounts = service[s].accounts
    /\ service'[s].name = form[f].name
    /\ \A other \in Services : other # s => service'[other] = service[other]

\* What NewName does to adminusers.
LEMMA NewNameNames ==
    ASSUME TypeOK, NEW f \in Forms, NEW s \in Services,
           service' = [service EXCEPT ![s].name = form[f].name]
    PROVE  Named(f, s)
<1> DEFINE r == [service[s] EXCEPT !.name = form[f].name]
<1>1. service[s] \in Service
  BY DEF TypeOK
<1>2. r \in Service
  BY <1>1, FormFields DEF Service
<1>3. service' = [service EXCEPT ![s] = r]
  BY DEF TypeOK
<1>4. /\ r.exists = service[s].exists /\ r.accounts = service[s].accounts
      /\ r.name = form[f].name
  BY <1>1 DEF Service
<1> HIDE DEF r
<1>5. service' \in [Services -> Service]
  BY <1>2, <1>3 DEF TypeOK
<1>6. /\ service'[s] = r
      /\ \A other \in Services : other # s => service'[other] = service[other]
  BY <1>3 DEF TypeOK
<1> QED
  BY <1>4, <1>5, <1>6 DEF Named

\* An account exists and shows the name of f.
Opened(f, a) ==
    /\ account' \in [Accounts -> Account]
    /\ account'[a].exists
    /\ account'[a].name = form[f].name
    /\ \A other \in Accounts : other # a => account'[other] = account[other]

\* What NewAccount does to connector.
LEMMA NewAccountOpens ==
    ASSUME TypeOK, NEW f \in Forms, NEW a \in Accounts,
           account' = [account EXCEPT ![a] = [exists |-> TRUE,
                                              name |-> form[f].name]]
    PROVE  Opened(f, a)
<1> DEFINE r == [exists |-> TRUE, name |-> form[f].name]
<1>1. r \in Account
  BY FormFields DEF Account
<1>2. account' = [account EXCEPT ![a] = r]
  OBVIOUS
<1>3. r.exists /\ r.name = form[f].name
  OBVIOUS
<1> HIDE DEF r
<1>4. account' \in [Accounts -> Account]
  BY <1>1, <1>2 DEF TypeOK
<1>5. /\ account'[a] = r
      /\ \A other \in Accounts : other # a => account'[other] = account[other]
  BY <1>2 DEF TypeOK
<1> QED
  BY <1>3, <1>4, <1>5 DEF Opened

\* One copy of the name changes, of an account or of its products.
Patched(f, call) ==
    /\ account' \in [Accounts -> Account]
    /\ products' \in [Accounts -> MaybeName]
    /\ \A a \in Accounts : account'[a].exists = account[a].exists
    /\ \A a \in Accounts :
          IF call = <<"connector", a>>
          THEN account'[a].name = form[f].name
          ELSE account'[a].name = account[a].name
    /\ \A a \in Accounts :
          IF call = <<"products", a>>
          THEN products'[a] \in {form[f].name, NoName}
          ELSE products'[a] = products[a]

\* What PatchName does to connector and to products.
LEMMA PatchNamePatches ==
    ASSUME TypeOK, NEW f \in Forms, NEW call \in Calls, PatchName(f, call)
    PROVE  Patched(f, call)
<1>1. PICK a \in Accounts : call \in {<<"connector", a>>, <<"products", a>>}
  BY DEF Calls, Backends
<1> DEFINE r == [account[a] EXCEPT !.name = form[f].name]
<1>2. account[a] \in Account /\ products[a] \in MaybeName
  BY DEF TypeOK
<1>3. r \in Account /\ form[f].name \in MaybeName
  BY <1>2, FormFields DEF Account
<1>4. r.exists = account[a].exists /\ r.name = form[f].name
  BY <1>2 DEF Account
<1>5. CASE call = <<"connector", a>>
  <2>1. account' = [account EXCEPT ![a] = r] /\ products' = products
    BY <1>5 DEF PatchName, TypeOK
  <2> HIDE DEF r
  <2>2. account' \in [Accounts -> Account]
    BY <1>3, <2>1 DEF TypeOK
  <2>3. /\ account'[a] = r
        /\ \A b \in Accounts : b # a => account'[b] = account[b]
    BY <2>1 DEF TypeOK
  <2>4. \A b \in Accounts : /\ <<"connector", b>> = call <=> b = a
                            /\ <<"products", b>> # call
    BY <1>5
  <2> QED
    BY <1>4, <2>1, <2>2, <2>3, <2>4 DEF Patched, TypeOK
<1>6. CASE call = <<"products", a>>
  <2>1. /\ account' = account
        /\ products' = [products EXCEPT ![a] = IF products[a] = NoName
                                               THEN products[a]
                                               ELSE form[f].name]
    BY <1>6 DEF PatchName, TypeOK
  <2>2. products' \in [Accounts -> MaybeName]
    BY <1>2, <1>3, <2>1 DEF TypeOK
  <2>3. /\ products'[a] \in {form[f].name, NoName}
        /\ \A b \in Accounts : b # a => products'[b] = products[b]
    BY <2>1 DEF TypeOK
  <2>4. \A b \in Accounts : /\ <<"products", b>> = call <=> b = a
                            /\ <<"connector", b>> # call
    BY <1>6
  <2> QED
    BY <2>1, <2>2, <2>3, <2>4 DEF Patched, TypeOK
<1> QED
  BY <1>1, <1>5, <1>6

\* The code of a registration is sent.
LEMMA PostOtpDoes ==
    ASSUME TypeOK, NEW f \in Forms, NEW u \in Users, PostOtp(f, u)
    PROVE  /\ Sent(f, "verifyOtp", "register", u, NoService, NoName)
           /\ Quietly
<1>1. Send(f, "verifyOtp", "register", u, NoService, NoName)
  BY DEF PostOtp
<1>2. "verifyOtp" \in PC /\ NoName \in MaybeName
  BY DEF PC, MaybeName
<1> QED
  BY <1>1, <1>2, SendSends DEF PostOtp, Quietly, Adminusers, ghosts

\* The name of a new service is sent; a bad one comes back.
LEMMA PostNewServiceDoes ==
    ASSUME TypeOK, NEW f \in Forms, NEW u \in Users,
           NEW n \in Names \cup {BadName}, PostNewService(f, u, n)
    PROVE  /\ \/ Sent(f, "back", "add", u, NoService, NoName)
              \/ /\ n \in Names
                 /\ Sent(f, "createAccount", "add", u, NoService, n)
           /\ Quietly
<1>1. {"back", "createAccount"} \subseteq PC
  BY DEF PC
<1>2. CASE n = BadName
  <2>1. Send(f, "back", "add", u, NoService, NoName)
    BY <1>2 DEF PostNewService
  <2> QED
    BY <1>1, SendSends
       DEF PostNewService, Quietly, Adminusers, ghosts, MaybeName
<1>3. CASE n # BadName
  <2>1. Send(f, "createAccount", "add", u, NoService, n) /\ n \in Names
    BY <1>3 DEF PostNewService
  <2> QED
    BY <1>1, SendSends
       DEF PostNewService, Quietly, Adminusers, ghosts, MaybeName
<1> QED
  BY <1>2, <1>3

\* Another name of a service is sent; a bad one comes back.
LEMMA PostNameDoes ==
    ASSUME TypeOK, NEW f \in Forms, NEW u \in Users, NEW s \in Services,
           NEW n \in Names \cup {BadName}, PostName(f, u, s, n)
    PROVE  /\ u \in admins[s]
           /\ \/ Sent(f, "back", "rename", u, s, NoName) /\ Quietly
              \/ /\ n \in Names
                 /\ Sent(f, "updateName", "rename", u, s, n)
                 /\ lastRename' = [lastRename EXCEPT ![s] = f]
                 /\ alone' = IF \E g \in Forms :
                                   form[g].target = s /\ UnderWay(g)
                             THEN alone
                             ELSE alone \cup {f}
                 /\ UNCHANGED <<service, admins, registered, account,
                                products>>
<1>1. {"back", "updateName"} \subseteq PC
  BY DEF PC
<1>2. CASE n = BadName
  <2>1. Send(f, "back", "rename", u, s, NoName) /\ UNCHANGED ghosts
    BY <1>2 DEF PostName
  <2> QED
    BY <1>1, SendSends DEF PostName, Quietly, Adminusers, ghosts, MaybeName
<1>3. CASE n # BadName
  <2>1. /\ Send(f, "updateName", "rename", u, s, n) /\ n \in Names
        /\ lastRename' = [lastRename EXCEPT ![s] = f]
        /\ alone' = IF \E g \in Forms : form[g].target = s /\ UnderWay(g)
                    THEN alone
                    ELSE alone \cup {f}
    BY <1>3 DEF PostName
  <2> QED
    BY <1>1, <2>1, SendSends DEF PostName, Adminusers, MaybeName
<1> QED
  BY <1>2, <1>3

\* The code was the right one.
LEMMA VerifyOtpDoes ==
    ASSUME TypeOK, NEW f \in Forms, VerifyOtp(f)
    PROVE  /\ form[f].pc = "verifyOtp"
           /\ Moved(f, "createAccount", form[f].target, form[f].account,
                    form[f].pending)
           /\ Quietly
<1>1. "createAccount" \in PC
  BY DEF PC
<1> QED
  BY <1>1, AdvanceMoves DEF VerifyOtp, Quietly, Adminusers, ghosts

\* A call fails and the form is told of it.
LEMMA CallFailsDoes ==
    ASSUME TypeOK, NEW f \in Forms, CallFails(f)
    PROVE  /\ form[f].pc \in {"verifyOtp", "createAccount", "createService",
                              "assignRole", "completeInvite", "updateName"}
           /\ \E pc \in {"back", "error"} :
                 Moved(f, pc, form[f].target, form[f].account,
                       form[f].pending)
           /\ Quietly
<1>1. {"back", "error"} \subseteq PC
  BY DEF PC
<1>2. \E pc \in {"back", "error"} : Advance(f, pc)
  BY DEF CallFails
<1> QED
  BY <1>1, <1>2, AdvanceMoves DEF CallFails, Quietly, Adminusers, ghosts

\* An answered call, or one that is sent again.
LEMMA CreateAccountDoes ==
    ASSUME TypeOK, NEW f \in Forms, NEW a \in Accounts,
           CreateAccount(f, a) \/ CreateAccountAgain(f, a)
    PROVE  /\ form[f].pc = "createAccount"
           /\ ~account[a].exists
           /\ Opened(f, a)
           /\ \/ Moved(f, AfterAccount(f), form[f].target, a,
                       form[f].pending)
              \/ Moved(f, "createAccount", form[f].target, form[f].account,
                       form[f].pending)
           /\ UNCHANGED <<service, admins, registered, products, lastRename,
                          alone>>
<1>1. NewAccount(f, a) /\ UNCHANGED <<Adminusers, products, ghosts>>
  BY DEF CreateAccount, CreateAccountAgain
<1>2. Opened(f, a)
  BY <1>1, NewAccountOpens DEF NewAccount
<1>3. CASE CreateAccount(f, a)
  BY <1>1, <1>2, <1>3, CreateAccountMoves
     DEF NewAccount, Adminusers, ghosts
<1>4. CASE CreateAccountAgain(f, a)
  BY <1>1, <1>2, <1>4, SendAgainMoves
     DEF CreateAccountAgain, NewAccount, Adminusers, ghosts
<1> QED
  BY <1>3, <1>4

\* A service is made, and the form hears of it or asks again.
LEMMA CreateServiceDoes ==
    ASSUME TypeOK, NEW f \in Forms, NEW s \in Services,
           form[f].account \in Accounts,
           CreateService(f, s) \/ CreateServiceAgain(f, s)
    PROVE  /\ form[f].pc = "createService"
           /\ Made(f, s)
           /\ \/ Moved(f, "assignRole", s, form[f].account, form[f].pending)
              \/ Moved(f, "createService", form[f].target, form[f].account,
                       form[f].pending)
           /\ UNCHANGED <<admins, registered, account, products, lastRename,
                          alone>>
<1>1. /\ form[f].pc = "createService"
      /\ NewService(f, s)
      /\ UNCHANGED <<admins, registered, account, products, ghosts>>
  BY DEF CreateService, CreateServiceAgain
<1>2. CASE CreateService(f, s)
  BY <1>1, <1>2, NewServiceMakes, CreateServiceMoves DEF ghosts
<1>3. CASE CreateServiceAgain(f, s)
  BY <1>1, <1>3, NewServiceMakes, SendAgainMoves
     DEF CreateServiceAgain, ghosts
<1> QED
  BY <1>2, <1>3

\* A role is given, and the form hears of it or asks again.
LEMMA AssignRoleDoes ==
    ASSUME TypeOK, NEW f \in Forms, AssignRole(f) \/ AssignRoleAgain(f)
    PROVE  /\ form[f].pc = "assignRole"
           /\ admins' = [admins EXCEPT
                            ![form[f].target] = @ \cup {form[f].user}]
           /\ \E pc \in {"ok", "assignRole"} :
                 Moved(f, pc, form[f].target, form[f].account,
                       form[f].pending)
           /\ UNCHANGED <<service, registered, account, products, lastRename,
                          alone>>
<1>1. NewRole(f) /\ UNCHANGED <<service, registered, account, products,
                                ghosts>>
  BY DEF AssignRole, AssignRoleAgain
<1>2. "ok" \in PC
  BY DEF PC
<1>3. CASE AssignRole(f)
  BY <1>1, <1>2, <1>3, AdvanceMoves DEF AssignRole, NewRole, ghosts
<1>4. CASE AssignRoleAgain(f)
  BY <1>1, <1>4, SendAgainMoves DEF AssignRoleAgain, NewRole, ghosts
<1> QED
  BY <1>3, <1>4

\* An invite is completed, and the form hears of it or asks again.
LEMMA CompleteInviteDoes ==
    ASSUME TypeOK, NEW f \in Forms, NEW s \in Services,
           form[f].account \in Accounts,
           CompleteInvite(f, s) \/ CompleteInviteAgain(f, s)
    PROVE  /\ form[f].pc = "completeInvite"
           /\ form[f].user \notin registered
           /\ Made(f, s)
           /\ registered' = registered \cup {form[f].user}
           /\ admins' = [admins EXCEPT ![s] = {form[f].user}]
           /\ \/ Moved(f, "ok", s, form[f].account, form[f].pending)
              \/ Moved(f, "completeInvite", form[f].target, form[f].account,
                       form[f].pending)
           /\ UNCHANGED <<account, products, lastRename, alone>>
<1>1. NewUser(f, s) /\ UNCHANGED <<account, products, ghosts>>
  BY DEF CompleteInvite, CompleteInviteAgain
<1>2. CASE CompleteInvite(f, s)
  BY <1>1, <1>2, NewServiceMakes, CompleteInviteMoves
     DEF NewUser, ghosts
<1>3. CASE CompleteInviteAgain(f, s)
  BY <1>1, <1>3, NewServiceMakes, SendAgainMoves
     DEF CompleteInviteAgain, NewUser, ghosts
<1> QED
  BY <1>2, <1>3

\* adminusers changes a name, and the form hears of it or asks again.
LEMMA UpdateNameDoes ==
    ASSUME TypeOK, NEW f \in Forms, form[f].target \in Services,
           UpdateName(f) \/ UpdateNameAgain(f)
    PROVE  /\ form[f].pc = "updateName"
           /\ Named(f, form[f].target)
           /\ \/ Moved(f, AfterName(f), form[f].target, form[f].account,
                       CallsOf(f))
              \/ Moved(f, "updateName", form[f].target, form[f].account,
                       form[f].pending)
           /\ UNCHANGED <<admins, registered, account, products, lastRename,
                          alone>>
<1>1. /\ NewName(f)
      /\ UNCHANGED <<admins, registered, account, products, ghosts>>
  BY DEF UpdateName, UpdateNameAgain
<1>2. CASE UpdateName(f)
  BY <1>1, <1>2, NewNameNames, UpdateNameMoves DEF NewName, ghosts
<1>3. CASE UpdateNameAgain(f)
  BY <1>1, <1>3, NewNameNames, SendAgainMoves
     DEF UpdateNameAgain, NewName, ghosts
<1> QED
  BY <1>2, <1>3

\* A copy of the name changes, and the form hears of it or asks again.
LEMMA PatchNameDoes ==
    ASSUME TypeOK, NEW f \in Forms, NEW call \in Calls,
           PatchNameDone(f, call) \/ PatchNameAgain(f, call)
    PROVE  /\ call \in form[f].pending
           /\ Patched(f, call)
           /\ \/ Moved(f, AfterCall(f, call, TRUE), form[f].target,
                       form[f].account, form[f].pending \ {call})
              \/ UNCHANGED form
           /\ UNCHANGED <<service, admins, registered, lastRename, alone>>
<1>1. PatchName(f, call) /\ UNCHANGED <<Adminusers, ghosts>>
  BY DEF PatchNameDone, PatchNameAgain
<1>2. CASE PatchNameDone(f, call)
  BY <1>1, <1>2, PatchNamePatches, SettleMoves
     DEF PatchNameDone, PatchName, Adminusers, ghosts
<1>3. CASE PatchNameAgain(f, call)
  BY <1>1, <1>3, PatchNamePatches
     DEF PatchNameAgain, PatchName, Adminusers, ghosts
<1> QED
  BY <1>2, <1>3

\* A copy of the name does not change and the form hears of it.
LEMMA PatchNameFailsDoes ==
    ASSUME TypeOK, NEW f \in Forms, NEW call \in Calls,
           PatchNameFails(f, call)
    PROVE  /\ call \in form[f].pending
           /\ Moved(f, "error", form[f].target, form[f].account,
                    form[f].pending \ {call})
           /\ Quietly
<1>1. Moved(f, AfterCall(f, call, FALSE), form[f].target, form[f].account,
            form[f].pending \ {call})
  BY SettleMoves DEF PatchNameFails
<1> QED
  BY <1>1 DEF PatchNameFails, AfterCall, Quietly, Adminusers, ghosts

-----------------------------------------------------------------------------
(* Type correctness                                                        *)

\* What a form names where a call needs it.
LEMMA Pointed ==
    ASSUME Inv, NEW f \in Forms
    PROVE  /\ form[f].pc = "updateName" => form[f].target \in Services
           /\ form[f].pc = "assignRole" => form[f].target \in Services
           /\ form[f].pc = "createService" => form[f].account \in Accounts
           /\ form[f].pc = "completeInvite" /\ form[f].user \notin registered
              => form[f].account \in Accounts
           /\ form[f].pc \in {"assignRole", "completeInvite"}
              => form[f].user \in Users
<1>1. form[f].pc = "updateName" => form[f].target \in Services
  BY DEF Inv, Renaming, RenamesOK
<1>2. form[f].pc = "assignRole" => form[f].target \in Services
  BY DEF Inv, Held, ServicesNamed, Naming
<1>3. Building(f) => form[f].account \in Accounts
  BY DEF Inv, Held, AccountsExist
<1>4. form[f].pc \in {"assignRole", "completeInvite"} => form[f].user \in Users
  BY DEF Inv, Held, Senders
<1> QED
  BY <1>1, <1>2, <1>3, <1>4 DEF Building

\* Every step leaves every variable in its type.
LEMMA TypeStep ==
    ASSUME Inv, [Next]_vars
    PROVE  TypeOK'
<1> USE DEF Inv
<1>1. ASSUME NEW f \in Forms, NEW u \in Users,
       PostOtp(f, u)
      PROVE  TypeOK'
  BY <1>1, PostOtpDoes
     DEF TypeOK, Moved, Sent, Quietly
<1>2. ASSUME NEW f \in Forms, NEW u \in Users,
       NEW n \in Names \cup {BadName}, PostNewService(f, u, n)
      PROVE  TypeOK'
  BY <1>2, PostNewServiceDoes
     DEF TypeOK, Moved, Sent, Quietly
<1>3. ASSUME NEW f \in Forms, NEW u \in Users, NEW s \in Services,
       NEW n \in Names \cup {BadName}, PostName(f, u, s, n)
      PROVE  TypeOK'
  <2>1. CASE Quietly
    BY <1>3, <2>1, PostNameDoes DEF TypeOK, Sent, Quietly
  <2>2. CASE ~Quietly
    BY <1>3, <2>2, PostNameDoes DEF TypeOK, Sent
  <2> QED
    BY <2>1, <2>2
<1>4. ASSUME NEW f \in Forms, VerifyOtp(f)
      PROVE  TypeOK'
  BY <1>4, VerifyOtpDoes
     DEF TypeOK, Moved, Sent, Quietly
<1>5. ASSUME NEW f \in Forms, CallFails(f)
      PROVE  TypeOK'
  BY <1>5, CallFailsDoes
     DEF TypeOK, Moved, Sent, Quietly
<1>6. ASSUME NEW f \in Forms, NEW a \in Accounts,
       CreateAccount(f, a) \/ CreateAccountAgain(f, a)
      PROVE  TypeOK'
  BY <1>6, CreateAccountDoes DEF TypeOK, Moved, Opened
<1>7. ASSUME NEW f \in Forms, NEW s \in Services,
       CreateService(f, s) \/ CreateServiceAgain(f, s)
      PROVE  TypeOK'
  <2>1. form[f].account \in Accounts
    BY <1>7, Pointed DEF CreateService, CreateServiceAgain
  <2> QED
    BY <1>7, <2>1, CreateServiceDoes DEF TypeOK, Moved, Made
<1>8. ASSUME NEW f \in Forms, AssignRole(f) \/ AssignRoleAgain(f)
      PROVE  TypeOK'
  <2>1. form[f].target \in Services /\ form[f].user \in Users
    BY <1>8, AssignRoleDoes, Pointed
  <2>2. admins' \in [Services -> SUBSET Users]
    BY <1>8, <2>1, AssignRoleDoes DEF TypeOK
  <2> QED
    BY <1>8, <2>2, AssignRoleDoes DEF TypeOK, Moved
<1>9. ASSUME NEW f \in Forms, NEW s \in Services,
       CompleteInvite(f, s) \/ CompleteInviteAgain(f, s)
      PROVE  TypeOK'
  <2>1. form[f].account \in Accounts /\ form[f].user \in Users
    BY <1>9, Pointed DEF CompleteInvite, CompleteInviteAgain, NewUser
  <2>2. admins' \in [Services -> SUBSET Users]
    BY <1>9, <2>1, CompleteInviteDoes DEF TypeOK
  <2> QED
    BY <1>9, <2>1, <2>2, CompleteInviteDoes DEF TypeOK, Moved, Made
<1>10. ASSUME NEW f \in Forms, UpdateName(f) \/ UpdateNameAgain(f)
      PROVE  TypeOK'
  <2>1. form[f].target \in Services
    BY <1>10, Pointed DEF UpdateName, UpdateNameAgain, NewName
  <2> QED
    BY <1>10, <2>1, UpdateNameDoes DEF TypeOK, Moved, Named
<1>11. ASSUME NEW f \in Forms, NEW call \in Calls,
       PatchNameDone(f, call) \/ PatchNameAgain(f, call)
      PROVE  TypeOK'
  BY <1>11, PatchNameDoes DEF TypeOK, Moved, Patched
<1>12. ASSUME NEW f \in Forms, NEW call \in Calls,
       PatchNameFails(f, call)
      PROVE  TypeOK'
  BY <1>12, PatchNameFailsDoes
     DEF TypeOK, Moved, Sent, Quietly
<1>13. CASE UNCHANGED vars
  BY <1>13 DEF vars, TypeOK
<1> QED
  BY <1>1, <1>2, <1>3, <1>4, <1>5, <1>6, <1>7, <1>8, <1>9, <1>10, <1>11,
     <1>12, <1>13
     DEF Next, Post, Create, Rename, Calls


-----------------------------------------------------------------------------
(* What holds the back ends together                                       *)

\* Services, people and accounts stay as they are, but for the names.
Steady ==
    /\ \A s \in Services : /\ service'[s].exists = service[s].exists
                           /\ service'[s].accounts = service[s].accounts
    /\ \A a \in Accounts : account'[a].exists = account[a].exists
    /\ admins' = admins
    /\ registered' = registered

\* A form changes that neither builds nor names a service of its own.
Idle(f) ==
    /\ Steady
    /\ \A g \in Forms : g # f => form'[g] = form[g]
    /\ ~Building(f)'
    /\ ~Naming(f)'
    /\ Told(f) \in {"waiting", Told(f)'}

\* The actions that create something.
Creating(f) ==
    \/ \E a \in Accounts : CreateAccount(f, a) \/ CreateAccountAgain(f, a)
    \/ \E s \in Services : CreateService(f, s) \/ CreateServiceAgain(f, s)
    \/ AssignRole(f) \/ AssignRoleAgain(f)
    \/ \E s \in Services : CompleteInvite(f, s) \/ CompleteInviteAgain(f, s)

\* A form that is not a creation neither builds nor names.
LEMMA RenamesIdle ==
    ASSUME Inv, NEW f \in Forms,
           form[f].pc = "updateName" \/ form[f].pending # {}
    PROVE  /\ form[f].kind = "rename"
           /\ form[f].pc \in {"updateName", "patchNames", "error"}
  BY DEF Inv, Renaming, RenamesOK

\* Every step is idle, creates something or stutters.
LEMMA IdleCases ==
    ASSUME Inv, [Next]_vars
    PROVE  \/ \E f \in Forms : Idle(f) \/ Creating(f)
           \/ UNCHANGED vars
<1> USE DEF Inv
<1>1. ASSUME NEW f \in Forms, NEW u \in Users,
       PostOtp(f, u)
      PROVE  Idle(f)
  BY <1>1, PostOtpDoes DEF Idle, Steady, Quietly, Sent, Building, Naming, Told
<1>2. ASSUME NEW f \in Forms, NEW u \in Users,
       NEW n \in Names \cup {BadName}, PostNewService(f, u, n)
      PROVE  Idle(f)
  BY <1>2, PostNewServiceDoes
     DEF Idle, Steady, Quietly, Sent, Building, Naming, Told
<1>3. ASSUME NEW f \in Forms, NEW u \in Users, NEW s \in Services,
       NEW n \in Names \cup {BadName}, PostName(f, u, s, n)
      PROVE  Idle(f)
  <2>1. Steady
    BY <1>3, PostNameDoes DEF Steady, Quietly
  <2> QED
    BY <1>3, <2>1, PostNameDoes DEF Idle, Sent, Building, Naming, Told
<1>4. ASSUME NEW f \in Forms, VerifyOtp(f)
      PROVE  Idle(f)
  BY <1>4, VerifyOtpDoes
     DEF Idle, Steady, Quietly, Moved, Building, Naming, Told
<1>5. ASSUME NEW f \in Forms, CallFails(f)
      PROVE  Idle(f)
  BY <1>5, CallFailsDoes
     DEF Idle, Steady, Quietly, Moved, Building, Naming, Told
<1>6. ASSUME NEW f \in Forms, UpdateName(f) \/ UpdateNameAgain(f)
      PROVE  Idle(f)
  <2>1. form[f].target \in Services /\ form[f].kind = "rename"
    BY <1>6, Pointed, RenamesIdle
       DEF UpdateName, UpdateNameAgain, NewName
  <2>2. Steady
    BY <1>6, <2>1, UpdateNameDoes DEF Steady, Named
  <2> QED
    BY <1>6, <2>1, <2>2, UpdateNameDoes
       DEF Idle, Moved, Building, Naming, Creates, Told, AfterName
<1>7. ASSUME NEW f \in Forms, NEW call \in Calls,
       PatchNameDone(f, call) \/ PatchNameAgain(f, call)
      PROVE  Idle(f)
  <2>1. /\ form[f].kind = "rename"
        /\ form[f].pc \in {"updateName", "patchNames", "error"}
    BY <1>7, PatchNameDoes, RenamesIdle
  <2>2. Steady
    BY <1>7, PatchNameDoes DEF Steady, Patched
  <2> QED
    BY <1>7, <2>1, <2>2, PatchNameDoes
       DEF Idle, Moved, Building, Naming, Creates, Told, AfterCall
<1>8. ASSUME NEW f \in Forms, NEW call \in Calls,
       PatchNameFails(f, call)
      PROVE  Idle(f)
  <2>1. form[f].kind = "rename"
    BY <1>8, PatchNameFailsDoes, RenamesIdle
  <2> QED
    BY <1>8, <2>1, PatchNameFailsDoes
       DEF Idle, Steady, Quietly, Moved, Building, Naming, Told, Creates
<1> QED
  BY <1>1, <1>2, <1>3, <1>4, <1>5, <1>6, <1>7, <1>8
     DEF Next, Post, Create, Rename, Creating, Calls

-----------------------------------------------------------------------------
(* The back ends stay together                                             *)

\* A form that does not change names what it named.
LEMMA Others ==
    ASSUME NEW g \in Forms, form'[g] = form[g]
    PROVE  Naming(g)' <=> Naming(g)
  BY DEF Naming, Creates

\* A service gets accounts and people only when it exists.
LEMMA NothingBeforeStep ==
    ASSUME Inv, TypeOK', [Next]_vars
    PROVE  NothingBefore'
<1>1. ASSUME NEW f \in Forms, Idle(f)
      PROVE  NothingBefore'
  BY <1>1 DEF NothingBefore, Visible, Inv, Held, Idle, Steady
<1>2. ASSUME NEW f \in Forms, NEW a \in Accounts,
       CreateAccount(f, a) \/ CreateAccountAgain(f, a)
      PROVE  NothingBefore'
  BY <1>2, CreateAccountDoes DEF NothingBefore, Visible, Inv, Held
<1>3. ASSUME NEW f \in Forms, NEW s \in Services,
       CreateService(f, s) \/ CreateServiceAgain(f, s),
       form[f].account \in Accounts
      PROVE  NothingBefore'
  BY <1>3, CreateServiceDoes DEF NothingBefore, Visible, Inv, Held, Made
<1>4. ASSUME NEW f \in Forms, AssignRole(f) \/ AssignRoleAgain(f)
      PROVE  NothingBefore'
  <2>1. form[f].target \in Services /\ service[form[f].target].exists
    BY <1>4, AssignRoleDoes DEF Inv, Held, ServicesNamed, Naming
  <2> QED
    BY <1>4, <2>1, AssignRoleDoes
       DEF NothingBefore, Visible, TypeOK, Inv, Held
<1>5. ASSUME NEW f \in Forms, NEW s \in Services,
       CompleteInvite(f, s) \/ CompleteInviteAgain(f, s),
       form[f].account \in Accounts
      PROVE  NothingBefore'
  BY <1>5, CompleteInviteDoes
     DEF NothingBefore, Visible, Inv, Held, Made, TypeOK
<1>6. CASE UNCHANGED vars
  BY <1>6 DEF vars, NothingBefore, Visible, Inv, Held
<1>7. ASSUME NEW f \in Forms, NEW s \in Services,
              \/ CreateService(f, s) \/ CreateServiceAgain(f, s)
              \/ CompleteInvite(f, s) \/ CompleteInviteAgain(f, s)
      PROVE  form[f].account \in Accounts
  BY <1>7, Pointed
     DEF CreateService, CreateServiceAgain, CompleteInvite,
         CompleteInviteAgain, NewUser
<1> QED
  BY <1>1, <1>2, <1>3, <1>4, <1>5, <1>6, <1>7, IdleCases DEF Creating

\* Accounts exist before a service or a form has them.
LEMMA AccountsExistStep ==
    ASSUME Inv, TypeOK', [Next]_vars
    PROVE  AccountsExist'
<1>1. ASSUME NEW f \in Forms, Idle(f)
      PROVE  AccountsExist'
  BY <1>1
     DEF AccountsExist, Building, Inv, Held, Idle, Steady, TypeOK, Service
<1>2. ASSUME NEW f \in Forms, NEW a \in Accounts,
       CreateAccount(f, a) \/ CreateAccountAgain(f, a)
      PROVE  AccountsExist'
  <2>1. \A b \in Accounts : account[b].exists => account'[b].exists
    BY <1>2, CreateAccountDoes DEF Opened, Inv
  <2>2. ASSUME NEW s \in Services, NEW b \in service'[s].accounts
        PROVE  account'[b].exists
    BY <1>2, <2>1, CreateAccountDoes
       DEF Inv, Held, AccountsExist, TypeOK, Service
  <2>3. ASSUME NEW g \in Forms, Building(g)'
        PROVE  /\ form'[g].account \in Accounts
               /\ account'[form'[g].account].exists
    <3>1. CASE g = f
      BY <1>2, <2>3, <3>1, CreateAccountDoes DEF Moved, Opened, Inv, Building
    <3>2. CASE g # f
      <4>1. form'[g] = form[g] /\ registered' = registered
        BY <1>2, <3>2, CreateAccountDoes DEF Moved, Inv
      <4>2. Building(g)
        BY <2>3, <4>1 DEF Building
      <4> QED
        BY <2>1, <4>1, <4>2 DEF Inv, Held, AccountsExist
    <3> QED
      BY <3>1, <3>2
  <2> QED
    BY <2>2, <2>3 DEF AccountsExist
<1>3. ASSUME NEW f \in Forms, NEW s \in Services,
       CreateService(f, s) \/ CreateServiceAgain(f, s),
       form[f].account \in Accounts
      PROVE  AccountsExist'
  BY <1>3, CreateServiceDoes
     DEF AccountsExist, Building, Inv, Held, Moved, Made
<1>4. ASSUME NEW f \in Forms, AssignRole(f) \/ AssignRoleAgain(f)
      PROVE  AccountsExist'
  BY <1>4, AssignRoleDoes DEF AccountsExist, Building, Inv, Held, Moved
<1>5. ASSUME NEW f \in Forms, NEW s \in Services,
       CompleteInvite(f, s) \/ CompleteInviteAgain(f, s),
       form[f].account \in Accounts
      PROVE  AccountsExist'
  BY <1>5, CompleteInviteDoes
     DEF AccountsExist, Building, Inv, Held, NothingBefore, Moved, Made
<1>6. CASE UNCHANGED vars
  BY <1>6 DEF vars, AccountsExist, Building, Inv, Held
<1>7. ASSUME NEW f \in Forms, NEW s \in Services,
              \/ CreateService(f, s) \/ CreateServiceAgain(f, s)
              \/ CompleteInvite(f, s) \/ CompleteInviteAgain(f, s)
      PROVE  form[f].account \in Accounts
  BY <1>7, Pointed
     DEF CreateService, CreateServiceAgain, CompleteInvite,
         CompleteInviteAgain, NewUser
<1> QED
  BY <1>1, <1>2, <1>3, <1>4, <1>5, <1>6, <1>7, IdleCases DEF Creating

\* No two forms, and no form and a service in sight, share an account.
LEMMA AccountsOwnStep ==
    ASSUME Inv, TypeOK', [Next]_vars
    PROVE  AccountsOwn'
<1>1. ASSUME NEW f \in Forms, Idle(f)
      PROVE  AccountsOwn'
  <2>1. \A g \in Forms :
           Building(g)' => g # f /\ form'[g] = form[g] /\ Building(g)
    BY <1>1 DEF Idle, Steady, Building
  <2>2. \A s \in Services : /\ Visible(s)' <=> Visible(s)
                           /\ service'[s].accounts = service[s].accounts
    BY <1>1 DEF Idle, Steady, Visible
  <2> QED
    BY <2>1, <2>2 DEF Inv, Held, AccountsOwn
<1>2. ASSUME NEW f \in Forms, NEW a \in Accounts,
       CreateAccount(f, a) \/ CreateAccountAgain(f, a)
      PROVE  AccountsOwn'
  BY <1>2, CreateAccountDoes
     DEF AccountsOwn, Building, Visible, Inv, Held, NothingBefore,
         AccountsExist, Moved
<1>3. ASSUME NEW f \in Forms, NEW s \in Services,
       CreateService(f, s) \/ CreateServiceAgain(f, s),
       form[f].account \in Accounts
      PROVE  AccountsOwn'
  <2>1. \A g \in Forms :
           Building(g)' => /\ Building(g)
                           /\ form'[g].account = form[g].account
    BY <1>3, CreateServiceDoes DEF Moved, Building, Inv
  <2>2. \A other \in Services :
           /\ Visible(other)' <=> Visible(other)
           /\ Visible(other) => other # s /\ service'[other] = service[other]
    BY <1>3, CreateServiceDoes DEF Made, Visible, Inv, Held, NothingBefore
  <2>3. \A g \in Forms : form[g].pc = "assignRole" =>
           form'[g] = form[g]
    BY <1>3, CreateServiceDoes DEF Moved, Inv
  <2> QED
    BY <2>1, <2>2, <2>3 DEF Inv, Held, AccountsOwn
<1>4. ASSUME NEW f \in Forms, AssignRole(f) \/ AssignRoleAgain(f)
      PROVE  AccountsOwn'
  <2> DEFINE t == form[f].target
  <2>1. /\ t \in Services
        /\ service[t].accounts = {form[f].account}
        /\ Building(f)
    BY <1>4, AssignRoleDoes, Pointed
       DEF Inv, Held, ServicesMade, Building
  <2>2. \A g \in Forms :
           Building(g)' => /\ Building(g)
                           /\ form'[g].account = form[g].account
    BY <1>4, AssignRoleDoes DEF Moved, Building, Inv
  <2>3. \A other \in Services :
            other # t => (Visible(other)' <=> Visible(other))
    BY <1>4, <2>1, AssignRoleDoes DEF Visible, TypeOK, Inv
  <2>4. /\ UNCHANGED service
        /\ \A g \in Forms : g # f => form'[g] = form[g]
        /\ form'[f].target = t
        /\ Building(f)' => form'[f].pc = "assignRole"
    BY <1>4, AssignRoleDoes DEF Moved, Inv, Building
  <2>5. \A g1, g2 \in Forms :
           Building(g1)' /\ Building(g2)' /\ g1 # g2
           => form'[g1].account # form'[g2].account
    BY <2>2 DEF Inv, Held, AccountsOwn
  <2>6. ASSUME NEW g \in Forms, NEW s \in Services, Building(g)', Visible(s)',
               form'[g].account \in service'[s].accounts
        PROVE  form'[g].pc = "assignRole" /\ form'[g].target = s
    <3>1. CASE g # f
      <4>1. s # t
        BY <2>1, <2>2, <2>4, <2>6, <3>1 DEF Inv, Held, AccountsOwn
      <4> QED
        BY <2>2, <2>3, <2>4, <2>6, <3>1, <4>1 DEF Inv, Held, AccountsOwn
    <3>2. CASE g = f /\ s # t
      BY <2>2, <2>3, <2>4, <2>6, <3>2 DEF Inv, Held, AccountsOwn
    <3>3. CASE g = f /\ s = t
      BY <2>4, <2>6, <3>3
    <3> QED
      BY <3>1, <3>2, <3>3
  <2> QED
    BY <2>5, <2>6 DEF AccountsOwn
<1>5. ASSUME NEW f \in Forms, NEW s \in Services,
       CompleteInvite(f, s) \/ CompleteInviteAgain(f, s),
       form[f].account \in Accounts
      PROVE  AccountsOwn'
  <2>1. Building(f) /\ ~Building(f)'
    BY <1>5, CompleteInviteDoes DEF Moved, Building, Inv
  <2>2. \A g \in Forms :
           Building(g)' => g # f /\ Building(g) /\ form'[g] = form[g]
    BY <1>5, <2>1, CompleteInviteDoes DEF Moved, Building, Inv
  <2>3. \A other \in Services : other # s =>
           /\ Visible(other)' <=> Visible(other)
           /\ service'[other] = service[other]
    BY <1>5, CompleteInviteDoes DEF Made, Visible, TypeOK, Inv
  <2>4. service'[s].accounts = {form[f].account}
    BY <1>5, CompleteInviteDoes DEF Made, Inv
  <2> QED
    BY <2>1, <2>2, <2>3, <2>4 DEF Inv, Held, AccountsOwn
<1>6. CASE UNCHANGED vars
  BY <1>6 DEF vars, AccountsOwn, Building, Visible, Inv, Held
<1>7. ASSUME NEW f \in Forms, NEW s \in Services,
              \/ CreateService(f, s) \/ CreateServiceAgain(f, s)
              \/ CompleteInvite(f, s) \/ CompleteInviteAgain(f, s)
      PROVE  form[f].account \in Accounts
  BY <1>7, Pointed
     DEF CreateService, CreateServiceAgain, CompleteInvite,
         CompleteInviteAgain, NewUser
<1> QED
  BY <1>1, <1>2, <1>3, <1>4, <1>5, <1>6, <1>7, IdleCases DEF Creating

\* No two forms name the same service.
LEMMA ServicesNamedStep ==
    ASSUME Inv, TypeOK', [Next]_vars
    PROVE  ServicesNamed'
<1>1. ASSUME NEW f \in Forms, Idle(f)
      PROVE  ServicesNamed'
  <2>1. \A g \in Forms : Naming(g)' => Naming(g) /\ form'[g] = form[g]
    BY <1>1, Others DEF Idle
  <2> QED
    BY <1>1, <2>1 DEF Idle, Steady, Inv, Held, ServicesNamed
<1>2. ASSUME NEW f \in Forms, NEW a \in Accounts,
       CreateAccount(f, a) \/ CreateAccountAgain(f, a)
      PROVE  ServicesNamed'
  BY <1>2, CreateAccountDoes
     DEF ServicesNamed, Naming, Creates, Inv, Held, Senders, Moved,
         AfterAccount
<1>3. ASSUME NEW f \in Forms, NEW s \in Services,
       CreateService(f, s) \/ CreateServiceAgain(f, s),
       form[f].account \in Accounts
      PROVE  ServicesNamed'
  BY <1>3, CreateServiceDoes
     DEF ServicesNamed, Naming, Creates, Inv, Held, Moved, Made
<1>4. ASSUME NEW f \in Forms, AssignRole(f) \/ AssignRoleAgain(f)
      PROVE  ServicesNamed'
  BY <1>4, AssignRoleDoes DEF ServicesNamed, Naming, Creates, Inv, Held, Moved
<1>5. ASSUME NEW f \in Forms, NEW s \in Services,
       CompleteInvite(f, s) \/ CompleteInviteAgain(f, s),
       form[f].account \in Accounts
      PROVE  ServicesNamed'
  BY <1>5, CompleteInviteDoes
     DEF ServicesNamed, Naming, Creates, Inv, Held, Moved, Made
<1>6. CASE UNCHANGED vars
  BY <1>6 DEF vars, ServicesNamed, Naming, Creates, Inv, Held
<1>7. ASSUME NEW f \in Forms, NEW s \in Services,
              \/ CreateService(f, s) \/ CreateServiceAgain(f, s)
              \/ CompleteInvite(f, s) \/ CompleteInviteAgain(f, s)
      PROVE  form[f].account \in Accounts
  BY <1>7, Pointed
     DEF CreateService, CreateServiceAgain, CompleteInvite,
         CompleteInviteAgain, NewUser
<1> QED
  BY <1>1, <1>2, <1>3, <1>4, <1>5, <1>6, <1>7, IdleCases DEF Creating

\* A service that waits for a role has nobody but who asked for it.
LEMMA ServicesMadeStep ==
    ASSUME Inv, TypeOK', [Next]_vars
    PROVE  ServicesMade'
<1>1. ASSUME NEW f \in Forms, Idle(f)
      PROVE  ServicesMade'
  <2>1. \A g \in Forms : form'[g].pc = "assignRole" =>
           /\ form'[g] = form[g]
           /\ form[g].target \in Services
    BY <1>1 DEF Idle, Naming, Inv, Held, ServicesNamed
  <2> QED
    BY <1>1, <2>1 DEF Idle, Steady, Inv, Held, ServicesMade
<1>2. ASSUME NEW f \in Forms, NEW a \in Accounts,
       CreateAccount(f, a) \/ CreateAccountAgain(f, a)
      PROVE  ServicesMade'
  BY <1>2, CreateAccountDoes
     DEF ServicesMade, Inv, Held, ServicesNamed, Naming, Moved, AfterAccount,
         TypeOK
<1>3. ASSUME NEW f \in Forms, NEW s \in Services,
       CreateService(f, s) \/ CreateServiceAgain(f, s),
       form[f].account \in Accounts
      PROVE  ServicesMade'
  BY <1>3, CreateServiceDoes
     DEF ServicesMade, Inv, Held, ServicesNamed, NothingBefore, Naming,
         Visible, Moved, Made, TypeOK
<1>4. ASSUME NEW f \in Forms, AssignRole(f) \/ AssignRoleAgain(f)
      PROVE  ServicesMade'
  BY <1>4, AssignRoleDoes
     DEF ServicesMade, Inv, Held, ServicesNamed, Naming, Moved, TypeOK
<1>5. ASSUME NEW f \in Forms, NEW s \in Services,
       CompleteInvite(f, s) \/ CompleteInviteAgain(f, s),
       form[f].account \in Accounts
      PROVE  ServicesMade'
  BY <1>5, CompleteInviteDoes
     DEF ServicesMade, Inv, Held, ServicesNamed, Naming, Moved, Made, TypeOK
<1>6. CASE UNCHANGED vars
  BY <1>6 DEF vars, ServicesMade, Inv, Held
<1>7. ASSUME NEW f \in Forms, NEW s \in Services,
              \/ CreateService(f, s) \/ CreateServiceAgain(f, s)
              \/ CompleteInvite(f, s) \/ CompleteInviteAgain(f, s)
      PROVE  form[f].account \in Accounts
  BY <1>7, Pointed
     DEF CreateService, CreateServiceAgain, CompleteInvite,
         CompleteInviteAgain, NewUser
<1> QED
  BY <1>1, <1>2, <1>3, <1>4, <1>5, <1>6, <1>7, IdleCases DEF Creating

\* No two services in sight share an account.
LEMMA DisjointStep ==
    ASSUME Inv, TypeOK', [Next]_vars
    PROVE  Disjoint'
<1>1. ASSUME NEW f \in Forms, Idle(f)
      PROVE  Disjoint'
  BY <1>1 DEF Disjoint, Visible, Inv, Held, Idle, Steady
<1>2. ASSUME NEW f \in Forms, NEW a \in Accounts,
       CreateAccount(f, a) \/ CreateAccountAgain(f, a)
      PROVE  Disjoint'
  BY <1>2, CreateAccountDoes
     DEF Disjoint, Visible, Inv, Held, AccountsOwn, Building
<1>3. ASSUME NEW f \in Forms, NEW s \in Services,
       CreateService(f, s) \/ CreateServiceAgain(f, s),
       form[f].account \in Accounts
      PROVE  Disjoint'
  BY <1>3, CreateServiceDoes
     DEF Disjoint, Visible, Inv, Held, AccountsOwn, Building, Made
<1>4. ASSUME NEW f \in Forms, AssignRole(f) \/ AssignRoleAgain(f)
      PROVE  Disjoint'
  BY <1>4, AssignRoleDoes
     DEF Disjoint, Visible, Inv, Held, AccountsOwn, Building, ServicesMade,
         TypeOK
<1>5. ASSUME NEW f \in Forms, NEW s \in Services,
       CompleteInvite(f, s) \/ CompleteInviteAgain(f, s),
       form[f].account \in Accounts
      PROVE  Disjoint'
  BY <1>5, CompleteInviteDoes
     DEF Disjoint, Visible, Inv, Held, AccountsOwn, Building, Made, TypeOK
<1>6. CASE UNCHANGED vars
  BY <1>6 DEF vars, Disjoint, Visible, Inv, Held
<1>7. ASSUME NEW f \in Forms, NEW s \in Services,
              \/ CreateService(f, s) \/ CreateServiceAgain(f, s)
              \/ CompleteInvite(f, s) \/ CompleteInviteAgain(f, s)
      PROVE  form[f].account \in Accounts
  BY <1>7, Pointed
     DEF CreateService, CreateServiceAgain, CompleteInvite,
         CompleteInviteAgain, NewUser
<1> QED
  BY <1>1, <1>2, <1>3, <1>4, <1>5, <1>6, <1>7, IdleCases DEF Creating

\* People who send a form stay people who sent it.
LEMMA SendersStep ==
    ASSUME Inv, [Next]_vars
    PROVE  Senders'
<1>1. ASSUME NEW f \in Forms, NEW u \in Users,
       PostOtp(f, u)
      PROVE  Senders'
  BY <1>1, PostOtpDoes DEF Senders, Creates, Inv, Held, Sent
<1>2. ASSUME NEW f \in Forms, NEW u \in Users,
       NEW n \in Names \cup {BadName}, PostNewService(f, u, n)
      PROVE  Senders'
  BY <1>2, PostNewServiceDoes DEF Senders, Creates, Inv, Held, Sent
<1>3. ASSUME NEW f \in Forms, NEW u \in Users, NEW s \in Services,
       NEW n \in Names \cup {BadName}, PostName(f, u, s, n)
      PROVE  Senders'
  BY <1>3, PostNameDoes DEF Senders, Creates, Inv, Held, Sent
<1>4. ASSUME NEW f \in Forms, VerifyOtp(f)
      PROVE  Senders'
  BY <1>4, VerifyOtpDoes DEF Senders, Creates, Inv, Held, Moved
<1>5. ASSUME NEW f \in Forms, CallFails(f)
      PROVE  Senders'
  BY <1>5, CallFailsDoes DEF Senders, Creates, Inv, Held, Moved
<1>6. ASSUME NEW f \in Forms, NEW a \in Accounts,
       CreateAccount(f, a) \/ CreateAccountAgain(f, a)
      PROVE  Senders'
  <2>1. form[f].kind # "register" => form[f].kind = "add"
    BY <1>6, CreateAccountDoes DEF Inv, Held, Senders, Creates
  <2> QED
    BY <1>6, CreateAccountDoes
       DEF Senders, Creates, Inv, Held, Moved, AfterAccount
<1>7. ASSUME NEW f \in Forms, NEW s \in Services,
       CreateService(f, s) \/ CreateServiceAgain(f, s)
      PROVE  Senders'
  <2>1. form[f].account \in Accounts
    BY <1>7, Pointed DEF CreateService, CreateServiceAgain
  <2> QED
    BY <1>7, <2>1, CreateServiceDoes DEF Senders, Creates, Inv, Held, Moved
<1>8. ASSUME NEW f \in Forms, AssignRole(f) \/ AssignRoleAgain(f)
      PROVE  Senders'
  BY <1>8, AssignRoleDoes DEF Senders, Creates, Inv, Held, Moved
<1>9. ASSUME NEW f \in Forms, NEW s \in Services,
       CompleteInvite(f, s) \/ CompleteInviteAgain(f, s)
      PROVE  Senders'
  <2>1. form[f].account \in Accounts
    BY <1>9, Pointed DEF CompleteInvite, CompleteInviteAgain,
                            NewUser
  <2> QED
    BY <1>9, <2>1, CompleteInviteDoes DEF Senders, Creates, Inv, Held, Moved
<1>10. ASSUME NEW f \in Forms, UpdateName(f) \/ UpdateNameAgain(f)
      PROVE  Senders'
  <2>1. form[f].target \in Services
    BY <1>10, Pointed DEF UpdateName, UpdateNameAgain, NewName
  <2> QED
    BY <1>10, <2>1, UpdateNameDoes
       DEF Senders, Creates, Inv, Held, Moved, AfterName
<1>11. ASSUME NEW f \in Forms, NEW call \in Calls,
       PatchNameDone(f, call) \/ PatchNameAgain(f, call)
      PROVE  Senders'
  <2>1. /\ form[f].kind = "rename"
        /\ form[f].pc \in {"updateName", "patchNames", "error"}
    BY <1>11, PatchNameDoes, RenamesIdle DEF Inv
  <2> QED
    BY <1>11, PatchNameDoes DEF Senders, Creates, Inv, Held, Moved, AfterCall
<1>12. ASSUME NEW f \in Forms, NEW call \in Calls,
       PatchNameFails(f, call)
      PROVE  Senders'
  BY <1>12, PatchNameFailsDoes DEF Senders, Creates, Inv, Held, Moved
<1>13. CASE UNCHANGED vars
  BY <1>13 DEF vars, Senders, Creates, Inv, Held
<1> QED
  BY <1>1, <1>2, <1>3, <1>4, <1>5, <1>6, <1>7, <1>8, <1>9, <1>10, <1>11,
     <1>12, <1>13
     DEF Next, Post, Create, Rename, Calls


\* All of it.
LEMMA HeldStep ==
    ASSUME Inv, [Next]_vars
    PROVE  Held'
  BY TypeStep, NothingBeforeStep, AccountsExistStep, AccountsOwnStep,
     ServicesNamedStep, ServicesMadeStep, SendersStep, DisjointStep DEF Held

-----------------------------------------------------------------------------
(* Renames                                                                 *)

\* A form changes that is not a rename under way, and no rename notices.
Aside(f) ==
    /\ \A g \in Forms : g # f => form'[g] = form[g]
    /\ UNCHANGED <<products, lastRename, alone>>
    /\ \A s \in Services : Visible(s) => Visible(s)' /\ service'[s] = service[s]
    /\ \A a \in Accounts : account[a].exists => account'[a] = account[a]
    /\ form'[f].pc \notin {"unsent", "updateName", "patchNames"}
    /\ form'[f].pending = {}
    /\ form'[f].kind = "rename" => /\ form'[f].pc # "ok"
                                   /\ form'[f].target \in Services
                                   /\ Visible(form'[f].target)
    /\ form[f].pc # "unsent" =>
          /\ form'[f].kind = form[f].kind
          /\ form[f].kind = "rename" => form'[f].target = form[f].target

\* The rename f, of the name n, is sent.
Asks(f, s, n) ==
    /\ n \in Names
    /\ Visible(s)
    /\ Sent(f, "updateName", "rename", form'[f].user, s, n)
    /\ lastRename' = [lastRename EXCEPT ![s] = f]
    /\ alone' = IF \E g \in Forms : form[g].target = s /\ UnderWay(g)
                THEN alone
                ELSE alone \cup {f}
    /\ UNCHANGED <<service, admins, registered, account, products>>

\* A call that a creation waits for leaves no call of a rename.
LEMMA NoCalls ==
    ASSUME Inv, NEW f \in Forms, form[f].pc \notin {"patchNames", "error"}
    PROVE  form[f].pending = {}
  BY DEF Inv, Renaming, RenamesOK

\* What exists already is not made again.
LEMMA MadeAside ==
    ASSUME Inv, NEW f \in Forms, NEW s \in Services, Made(f, s)
    PROVE  /\ ~Visible(s)
           /\ \A other \in Services :
                 Visible(other) => other # s /\ service'[other] = service[other]
  BY DEF Inv, Held, NothingBefore, Made

\* Every step leaves the renames aside, sends one, continues one or stutters.
LEMMA RenameCases ==
    ASSUME Inv, [Next]_vars
    PROVE  \/ \E f \in Forms :
                 \/ Aside(f)
                 \/ \E s \in Services : \E n \in Names : Asks(f, s, n)
                 \/ UpdateName(f) \/ UpdateNameAgain(f)
                 \/ \E call \in Calls : \/ PatchNameDone(f, call)
                                        \/ PatchNameAgain(f, call)
                                        \/ PatchNameFails(f, call)
           \/ UNCHANGED vars
<1> USE DEF Inv
<1>1. ASSUME NEW f \in Forms, NEW u \in Users, PostOtp(f, u)
      PROVE  Aside(f)
  BY <1>1, PostOtpDoes DEF Aside, Quietly, Sent, Visible
<1>2. ASSUME NEW f \in Forms, NEW u \in Users,
       NEW n \in Names \cup {BadName}, PostNewService(f, u, n)
      PROVE  Aside(f)
  BY <1>2, PostNewServiceDoes DEF Aside, Quietly, Sent, Visible
<1>3. ASSUME NEW f \in Forms, NEW u \in Users, NEW s \in Services,
       NEW n \in Names \cup {BadName}, PostName(f, u, s, n)
      PROVE  Aside(f) \/ (n \in Names /\ Asks(f, s, n))
  <2>1. Visible(s)
    BY <1>3, PostNameDoes DEF Visible
  <2>2. CASE Sent(f, "back", "rename", u, s, NoName) /\ Quietly
    BY <2>1, <2>2 DEF Aside, Quietly, Sent, Visible
  <2>3. CASE ~(Sent(f, "back", "rename", u, s, NoName) /\ Quietly)
    <3>1. /\ n \in Names
          /\ Sent(f, "updateName", "rename", u, s, n)
          /\ lastRename' = [lastRename EXCEPT ![s] = f]
          /\ alone' = IF \E g \in Forms : form[g].target = s /\ UnderWay(g)
                      THEN alone
                      ELSE alone \cup {f}
          /\ UNCHANGED <<service, admins, registered, account, products>>
      BY <1>3, <2>3, PostNameDoes
    <3>2. Sent(f, "updateName", "rename", form'[f].user, s, n)
      BY <3>1 DEF Sent
    <3> QED
      BY <2>1, <3>1, <3>2, Zenon DEF Asks
  <2> QED
    BY <2>2, <2>3
<1>4. ASSUME NEW f \in Forms, VerifyOtp(f)
      PROVE  Aside(f)
  <2>1. form[f].pc = "verifyOtp" /\ form[f].kind # "rename"
    BY <1>4, VerifyOtpDoes DEF Held, Senders, Creates
  <2> QED
    BY <1>4, <2>1, VerifyOtpDoes, NoCalls DEF Aside, Quietly, Moved, Visible
<1>5. ASSUME NEW f \in Forms, CallFails(f)
      PROVE  Aside(f)
  <2>1. form[f].kind = "rename" =>
           form[f].target \in Services /\ Visible(form[f].target)
    BY DEF Renaming, RenamesOK
  <2> QED
    BY <1>5, <2>1, CallFailsDoes, NoCalls DEF Aside, Quietly, Moved, Visible
<1>6. ASSUME NEW f \in Forms, NEW a \in Accounts,
       CreateAccount(f, a) \/ CreateAccountAgain(f, a)
      PROVE  Aside(f)
  <2>1. form[f].pc = "createAccount" /\ form[f].kind # "rename"
    BY <1>6, CreateAccountDoes DEF Held, Senders, Creates
  <2>2. \A b \in Accounts : account[b].exists => account'[b] = account[b]
    BY <1>6, CreateAccountDoes DEF Opened
  <2> QED
    BY <1>6, <2>1, <2>2, CreateAccountDoes, NoCalls
       DEF Aside, Moved, Visible, AfterAccount
<1>7. ASSUME NEW f \in Forms, NEW s \in Services,
       CreateService(f, s) \/ CreateServiceAgain(f, s)
      PROVE  Aside(f)
  <2>1. form[f].account \in Accounts
    BY <1>7, Pointed DEF CreateService, CreateServiceAgain
  <2>2. form[f].pc = "createService" /\ form[f].kind # "rename"
    BY <1>7, <2>1, CreateServiceDoes DEF Held, Senders, Creates
  <2> QED
    BY <1>7, <2>1, <2>2, CreateServiceDoes, MadeAside, NoCalls
       DEF Aside, Moved, Visible
<1>8. ASSUME NEW f \in Forms, AssignRole(f) \/ AssignRoleAgain(f)
      PROVE  Aside(f)
  <2>1. form[f].pc = "assignRole" /\ form[f].kind # "rename"
    BY <1>8, AssignRoleDoes DEF Held, Senders, Creates
  <2>2. \A s \in Services : Visible(s) => Visible(s)'
    BY <1>8, AssignRoleDoes DEF Visible, TypeOK
  <2> QED
    BY <1>8, <2>1, <2>2, AssignRoleDoes, NoCalls DEF Aside, Moved
<1>9. ASSUME NEW f \in Forms, NEW s \in Services,
       CompleteInvite(f, s) \/ CompleteInviteAgain(f, s)
      PROVE  Aside(f)
  <2>1. form[f].account \in Accounts
    BY <1>9, Pointed DEF CompleteInvite, CompleteInviteAgain, NewUser
  <2>2. form[f].pc = "completeInvite" /\ form[f].kind # "rename"
    BY <1>9, <2>1, CompleteInviteDoes DEF Held, Senders, Creates
  <2>3. \A other \in Services : Visible(other) => Visible(other)'
    BY <1>9, <2>1, CompleteInviteDoes, MadeAside DEF Visible, TypeOK
  <2> QED
    BY <1>9, <2>1, <2>2, <2>3, CompleteInviteDoes, MadeAside, NoCalls
       DEF Aside, Moved
<1> QED
  BY <1>1, <1>2, <1>3, <1>4, <1>5, <1>6, <1>7, <1>8, <1>9
     DEF Next, Post, Create, Rename, Calls

\* A rename under way goes on: one of its calls is answered or sent again.
Continues(f) ==
    /\ UnderWay(f)
    /\ \A g \in Forms : g # f => form'[g] = form[g]
    /\ form'[f].kind = "rename"
    /\ form'[f].target = form[f].target
    /\ form'[f].name = form[f].name
    /\ form'[f].pc \in {"updateName", "patchNames", "ok", "error"}
    /\ form'[f].pending \subseteq Backends \X service[form[f].target].accounts
    /\ form'[f].pc = "updateName" => form'[f].pending = {}
    /\ form'[f].pc \in {"updateName", "patchNames"} => form[f].name \in Names
    /\ form'[f].pending # {} => form'[f].pc \in {"patchNames", "error"}
    /\ UNCHANGED <<admins, lastRename, alone>>
    /\ \A s \in Services :
          /\ service'[s].accounts = service[s].accounts
          /\ s # form[f].target => service'[s].name = service[s].name
    /\ \A a \in Accounts : a \notin service[form[f].target].accounts =>
          account'[a].name = account[a].name /\ products'[a] = products[a]

\* What a rename that has calls to make is about.
LEMMA Calling ==
    ASSUME Inv, NEW f \in Forms, NEW call \in form[f].pending
    PROVE  /\ UnderWay(f)
           /\ form[f].kind = "rename"
           /\ form[f].target \in Services
           /\ form[f].pc \in {"patchNames", "error"}
           /\ form[f].pc = "patchNames" => form[f].name \in Names
           /\ form[f].pending
                 \subseteq Backends \X service[form[f].target].accounts
           /\ \E a \in service[form[f].target].accounts :
                 a \in Accounts
                 /\ call \in {<<"connector", a>>, <<"products", a>>}
<1>1. /\ form[f].kind = "rename"
      /\ form[f].pc \in {"patchNames", "error"}
      /\ form[f].target \in Services
      /\ form[f].pending \subseteq Backends \X service[form[f].target].accounts
      /\ form[f].pc = "patchNames" => form[f].name \in Names
  BY DEF Inv, Renaming, RenamesOK
<1>2. \E a \in service[form[f].target].accounts :
         call \in {<<"connector", a>>, <<"products", a>>}
  BY <1>1 DEF Backends
<1>3. service[form[f].target].accounts \subseteq Accounts
  BY <1>1 DEF Inv, TypeOK, Service
<1>4. UnderWay(f)
  BY <1>1 DEF UnderWay
<1> QED
  BY <1>1, <1>2, <1>3, <1>4

\* Changing the name in adminusers continues a rename.
LEMMA UpdateNameContinues ==
    ASSUME Inv, NEW f \in Forms, UpdateName(f) \/ UpdateNameAgain(f)
    PROVE  Continues(f) /\ form[f].pc = "updateName"
<1>1. form[f].pc = "updateName"
  BY DEF UpdateName, UpdateNameAgain, NewName
<1>2. /\ form[f].kind = "rename"
      /\ form[f].target \in Services
      /\ form[f].pending = {}
      /\ form[f].name \in Names
  BY <1>1 DEF Inv, Renaming, RenamesOK
<1>3. TypeOK
  BY DEF Inv
<1>4. UnderWay(f)
  BY <1>1, <1>2 DEF UnderWay
<1>5. /\ \A g \in Forms : g # f => form'[g] = form[g]
      /\ form'[f].kind = "rename"
      /\ form'[f].target = form[f].target
      /\ form'[f].name = form[f].name
      /\ \/ form'[f].pc = AfterName(f) /\ form'[f].pending = CallsOf(f)
         \/ form'[f].pc = "updateName" /\ form'[f].pending = {}
  BY <1>2, <1>3, UpdateNameDoes DEF Moved
<1>6. /\ UNCHANGED <<admins, lastRename, alone, account, products>>
      /\ Named(f, form[f].target)
  BY <1>2, <1>3, UpdateNameDoes
<1>7. /\ form'[f].pc \in {"updateName", "patchNames", "ok", "error"}
      /\ form'[f].pending
            \subseteq Backends \X service[form[f].target].accounts
      /\ form'[f].pc = "updateName" => form'[f].pending = {}
      /\ form'[f].pending # {} => form'[f].pc \in {"patchNames", "error"}
  BY <1>5 DEF AfterName, CallsOf
<1> QED
  BY <1>1, <1>2, <1>4, <1>5, <1>6, <1>7 DEF Continues, Named

\* So does every other call of it, whatever its outcome.
LEMMA PatchNameContinues ==
    ASSUME Inv, NEW f \in Forms, NEW call \in Calls,
           \/ PatchNameDone(f, call) \/ PatchNameAgain(f, call)
           \/ PatchNameFails(f, call)
    PROVE  Continues(f) /\ form[f].pc # "updateName"
<1>1. call \in form[f].pending
  BY DEF PatchNameDone, PatchNameAgain, PatchNameFails, PatchName
<1>2. TypeOK
  BY DEF Inv
<1>3. /\ \A g \in Forms : g # f => form'[g] = form[g]
      /\ form'[f].kind = "rename"
      /\ form'[f].target = form[f].target
      /\ form'[f].name = form[f].name
      /\ \/ /\ form'[f].pc \in {AfterCall(f, call, TRUE), "error"}
            /\ form'[f].pending = form[f].pending \ {call}
         \/ form'[f].pc = form[f].pc /\ form'[f].pending = form[f].pending
  <2>1. CASE UNCHANGED form
    BY <1>1, <2>1, Calling
  <2>2. ASSUME NEW pc \in {AfterCall(f, call, TRUE), "error"},
               Moved(f, pc, form[f].target, form[f].account,
                     form[f].pending \ {call})
        PROVE  form'[f].pc = pc /\ form'[f].pending = form[f].pending \ {call}
    BY <2>2 DEF Moved
  <2>3. \/ UNCHANGED form
        \/ \E pc \in {AfterCall(f, call, TRUE), "error"} :
              Moved(f, pc, form[f].target, form[f].account,
                    form[f].pending \ {call})
    BY <1>2, PatchNameDoes, PatchNameFailsDoes
  <2> QED
    BY <1>1, <2>1, <2>2, <2>3, Calling DEF Moved
<1>4. /\ UNCHANGED <<admins, lastRename, alone, service>>
      /\ Patched(f, call) \/ UNCHANGED <<account, products>>
  BY <1>2, PatchNameDoes, PatchNameFailsDoes DEF Quietly
<1>5. \A a \in Accounts : a \notin service[form[f].target].accounts =>
         account'[a].name = account[a].name /\ products'[a] = products[a]
  BY <1>1, <1>4, Calling DEF Patched
<1>6. /\ form'[f].pc \in {"updateName", "patchNames", "ok", "error"}
      /\ form'[f].pending
            \subseteq Backends \X service[form[f].target].accounts
      /\ form'[f].pc # "updateName"
      /\ form'[f].pc = "patchNames" => form[f].name \in Names
      /\ form'[f].pending # {} => form'[f].pc \in {"patchNames", "error"}
  BY <1>1, <1>3, Calling DEF AfterCall
<1> QED
  BY <1>1, <1>3, <1>4, <1>5, <1>6, Calling DEF Continues

\* The calls of a rename stay calls about the accounts of its service.
LEMMA RenamesOKStep ==
    ASSUME Inv, [Next]_vars
    PROVE  RenamesOK'
<1> USE DEF Inv, Renaming
<1>1. ASSUME NEW f \in Forms, Aside(f)
      PROVE  RenamesOK'
  BY <1>1 DEF Aside, RenamesOK
<1>2. ASSUME NEW f \in Forms, NEW s \in Services, NEW n \in Names,
             Asks(f, s, n)
      PROVE  RenamesOK'
  BY <1>2 DEF Asks, Sent, RenamesOK, Visible
<1>3. ASSUME NEW f \in Forms, Continues(f)
      PROVE  RenamesOK'
  BY <1>3 DEF Continues, UnderWay, RenamesOK, Visible
<1>4. CASE UNCHANGED vars
  BY <1>4 DEF vars, RenamesOK, Visible
<1> QED
  BY <1>1, <1>2, <1>3, <1>4, RenameCases, UpdateNameContinues,
     PatchNameContinues

\* The last rename of a service stays a rename of it.
LEMMA LastOKStep ==
    ASSUME Inv, [Next]_vars
    PROVE  LastOK'
<1> USE DEF Inv, Renaming
<1>1. ASSUME NEW f \in Forms, Aside(f)
      PROVE  LastOK'
  BY <1>1 DEF Aside, LastOK, TypeOK
<1>2. ASSUME NEW f \in Forms, NEW s \in Services, NEW n \in Names,
             Asks(f, s, n)
      PROVE  LastOK'
  BY <1>2 DEF Asks, Sent, LastOK, TypeOK
<1>3. ASSUME NEW f \in Forms, Continues(f)
      PROVE  LastOK'
  BY <1>3 DEF Continues, LastOK, TypeOK
<1>4. CASE UNCHANGED vars
  BY <1>4 DEF vars, LastOK
<1> QED
  BY <1>1, <1>2, <1>3, <1>4, RenameCases, UpdateNameContinues,
     PatchNameContinues

\* No rename joins the last one of a service if that one is alone.
LEMMA AloneOKStep ==
    ASSUME Inv, [Next]_vars
    PROVE  AloneOK'
<1> USE DEF Inv, Renaming
<1>1. ASSUME NEW f \in Forms, Aside(f)
      PROVE  AloneOK'
  BY <1>1 DEF Aside, AloneOK, UnderWay
<1>2. ASSUME NEW f \in Forms, NEW s \in Services, NEW n \in Names,
             Asks(f, s, n)
      PROVE  AloneOK'
  BY <1>2 DEF Asks, Sent, AloneOK, LastOK, UnderWay, TypeOK
<1>3. ASSUME NEW f \in Forms, Continues(f)
      PROVE  AloneOK'
  BY <1>3 DEF Continues, AloneOK, UnderWay
<1>4. CASE UNCHANGED vars
  BY <1>4 DEF vars, AloneOK, UnderWay
<1> QED
  BY <1>1, <1>2, <1>3, <1>4, RenameCases, UpdateNameContinues,
     PatchNameContinues

\* How far the name n of the rename f has spread over the service s.
SpreadTo(f, s) ==
    /\ service[s].name = form[f].name
    /\ \A a \in service[s].accounts :
          /\ \/ <<"connector", a>> \in form[f].pending
             \/ account[a].name = form[f].name
          /\ \/ <<"products", a>> \in form[f].pending
             \/ products[a] \in {form[f].name, NoName}

\* Spread, said with SpreadTo.
LEMMA SpreadMeans ==
    Spread <=> \A s \in Services : \A f \in Forms :
                  /\ lastRename[s] = f
                  /\ f \in alone
                  /\ form[f].pc \in {"patchNames", "ok"}
                  => SpreadTo(f, s)
  BY DEF Spread, SpreadTo

\* A name that has spread is not taken back by any other step.
LEMMA SpreadStep ==
    ASSUME Inv, [Next]_vars
    PROVE  Spread'
<1> SUFFICES ASSUME NEW s \in Services, NEW f \in Forms,
                    lastRename'[s] = f, f \in alone',
                    form'[f].pc \in {"patchNames", "ok"}
             PROVE  SpreadTo(f, s)'
  BY DEF Spread, SpreadTo
<1> USE DEF Inv, Renaming
<1>1. ASSUME NEW g \in Forms, Aside(g)
      PROVE  SpreadTo(f, s)'
  <2>1. lastRename[s] = f /\ f \in alone
    BY <1>1 DEF Aside
  <2>2. form[f].kind = "rename" /\ form[f].pc # "unsent"
    BY <2>1 DEF LastOK
  <2>3. f # g
    BY <1>1, <2>2 DEF Aside
  <2>4. form'[f] = form[f]
    BY <1>1, <2>3 DEF Aside
  <2>5. SpreadTo(f, s)
    BY <2>1, <2>4, SpreadMeans
  <2>6. service'[s] = service[s] /\ products' = products
    BY <1>1, <2>1, <2>2 DEF Aside, RenamesOK, LastOK
  <2>7. \A a \in service[s].accounts : account'[a] = account[a]
    BY <1>1 DEF Aside, Held, AccountsExist, TypeOK, Service
  <2> QED
    BY <2>4, <2>5, <2>6, <2>7 DEF SpreadTo
<1>2. ASSUME NEW g \in Forms, NEW t \in Services, NEW n \in Names,
             Asks(g, t, n)
      PROVE  SpreadTo(f, s)'
  <2>1. f # g
    BY <1>2 DEF Asks, Sent
  <2>2. lastRename[s] = f /\ f \in alone /\ form'[f] = form[f]
    BY <1>2, <2>1 DEF Asks, Sent, TypeOK
  <2>3. SpreadTo(f, s)
    BY <2>2, SpreadMeans
  <2> QED
    BY <1>2, <2>2, <2>3 DEF Asks, SpreadTo
<1>3. ASSUME NEW g \in Forms, g # f, Continues(g)
      PROVE  SpreadTo(f, s)'
  <2>1. lastRename[s] = f /\ f \in alone /\ form'[f] = form[f]
    BY <1>3 DEF Continues
  <2>2. SpreadTo(f, s)
    BY <2>1, SpreadMeans
  <2>3. form[g].target # s
    BY <1>3, <2>1 DEF Continues, AloneOK
  <2>4. form[f].target = s /\ form[f].kind = "rename"
    BY <2>1 DEF LastOK
  <2>5. Visible(s)
    BY <2>4 DEF RenamesOK
  <2>6. form[g].target \in Services /\ Visible(form[g].target)
    BY <1>3 DEF Continues, UnderWay, RenamesOK
  <2>7. service[s].accounts \cap service[form[g].target].accounts = {}
    BY <2>3, <2>5, <2>6 DEF Held, Disjoint
  <2>8. service[s].accounts \subseteq Accounts
    BY DEF TypeOK, Service
  <2>9. \A a \in service[s].accounts :
           account'[a].name = account[a].name /\ products'[a] = products[a]
    BY <1>3, <2>7, <2>8 DEF Continues
  <2>10. service'[s].name = service[s].name
         /\ service'[s].accounts = service[s].accounts
    BY <1>3, <2>3 DEF Continues
  <2> QED
    BY <2>1, <2>2, <2>9, <2>10 DEF SpreadTo
<1>4. ASSUME UpdateName(f) \/ UpdateNameAgain(f)
      PROVE  SpreadTo(f, s)'
  <2>1. Continues(f) /\ form[f].pc = "updateName"
    BY <1>4, UpdateNameContinues
  <2>2. form[f].kind = "rename" /\ form[f].target = s
    BY <2>1 DEF Continues, LastOK
  <2>3. /\ service'[s].name = form[f].name
        /\ service'[s].accounts = service[s].accounts
        /\ form'[f].name = form[f].name
        /\ form'[f].pending = CallsOf(f)
    BY <1>4, <2>1, <2>2, UpdateNameDoes DEF Named, Moved
  <2>4. \A a \in service[s].accounts :
           {<<"connector", a>>, <<"products", a>>} \subseteq form'[f].pending
    BY <2>2, <2>3 DEF CallsOf, Backends
  <2> QED
    BY <2>3, <2>4 DEF SpreadTo
<1>5. ASSUME NEW call \in Calls,
             \/ PatchNameDone(f, call) \/ PatchNameAgain(f, call)
             \/ PatchNameFails(f, call)
      PROVE  SpreadTo(f, s)'
  <2>1. call \in form[f].pending
    BY <1>5 DEF PatchNameDone, PatchNameAgain, PatchNameFails, PatchName
  <2>2. ~PatchNameFails(f, call)
    BY PatchNameFailsDoes DEF Moved
  <2>3. /\ Patched(f, call)
        /\ service' = service
        /\ lastRename[s] = f /\ f \in alone
        /\ form'[f].name = form[f].name
        /\ form'[f].pending \in {form[f].pending, form[f].pending \ {call}}
        /\ form'[f].pc \in {AfterCall(f, call, TRUE), form[f].pc}
    BY <1>5, <2>2, PatchNameDoes DEF Moved
  <2>4. form[f].pc = "patchNames"
    BY <2>1, <2>3, Calling DEF AfterCall
  <2>5. SpreadTo(f, s)
    BY <2>3, <2>4, SpreadMeans
  <2>6. service[s].accounts \subseteq Accounts
    BY DEF TypeOK, Service
  <2>7. ASSUME NEW a \in service[s].accounts
        PROVE  /\ \/ <<"connector", a>> \in form'[f].pending
                  \/ account'[a].name = form[f].name
               /\ \/ <<"products", a>> \in form'[f].pending
                  \/ products'[a] \in {form[f].name, NoName}
    BY <2>3, <2>5, <2>6 DEF SpreadTo, Patched
  <2> QED
    BY <2>3, <2>5, <2>7 DEF SpreadTo
<1>6. CASE UNCHANGED vars
  BY <1>6 DEF vars, Spread, SpreadTo
<1> QED
  BY <1>1, <1>2, <1>3, <1>4, <1>5, <1>6, RenameCases, UpdateNameContinues,
     PatchNameContinues

-----------------------------------------------------------------------------
(* The invariant                                                           *)

\* The invariant holds at first.
LEMMA InitInv ==
    ASSUME Init
    PROVE  Inv
<1> USE DEF Init
<1>1. /\ FirstServices \subseteq Services
      /\ \A s \in FirstServices : FirstAccounts[s] \subseteq Accounts
      /\ FirstOwned \subseteq Accounts
      /\ \A s \in FirstServices : FirstAccounts[s] \subseteq FirstOwned
      /\ FirstName \in MaybeName /\ NoName \in MaybeName
  BY SetupAssumption DEF FirstOwned, MaybeName
<1>2. \A f \in Forms : /\ form[f] = Unsent
                       /\ Unsent.pc = "unsent"
                       /\ Unsent.kind = "register"
                       /\ Unsent.pending = {}
  BY DEF Unsent
<1>3. TypeOK
  <2>1. service \in [Services -> Service]
    BY <1>1 DEF Service, NothingYet
  <2>2. admins \in [Services -> SUBSET Users] /\ registered \subseteq Users
    OBVIOUS
  <2>3. account \in [Accounts -> Account]
    BY <1>1 DEF Account
  <2>4. products \in [Accounts -> MaybeName]
    BY <1>1
  <2>5. Unsent \in Request
    BY <1>1 DEF Unsent, Request, PC
  <2> QED
    BY <2>1, <2>2, <2>3, <2>4, <2>5 DEF TypeOK
<1>4. \A f \in Forms : ~Building(f) /\ ~Naming(f) /\ ~UnderWay(f)
  BY <1>2 DEF Building, Naming, UnderWay
<1>5. NothingBefore
  BY DEF NothingBefore, NothingYet, Visible
<1>6. \A s \in Services : \A a \in service[s].accounts :
         s \in FirstServices /\ a \in FirstAccounts[s]
  BY DEF NothingYet
<1>7. AccountsExist
  BY <1>1, <1>4, <1>6 DEF AccountsExist
<1>8. Disjoint
  BY <1>6, SetupAssumption DEF Disjoint
<1>9. AccountsOwn /\ ServicesNamed /\ ServicesMade /\ Senders
  BY <1>2, <1>4 DEF AccountsOwn, ServicesNamed, ServicesMade, Senders
<1>10. RenamesOK
  BY <1>2 DEF RenamesOK
<1>11. LastOK /\ AloneOK /\ Spread
  BY SetupAssumption DEF LastOK, AloneOK, Spread
<1> QED
  BY <1>3, <1>5, <1>7, <1>8, <1>9, <1>10, <1>11 DEF Inv, Held, Renaming

\* The invariant is inductive.
LEMMA InvStep ==
    ASSUME Inv, [Next]_vars
    PROVE  Inv'
  BY TypeStep, HeldStep, RenamesOKStep, LastOKStep, AloneOKStep, SpreadStep
     DEF Inv, Renaming

\* The back ends are never torn apart, whatever fails or is sent again.
THEOREM SetupInvariant == Spec => []Inv
  BY InitInv, InvStep, PTL DEF Spec

\* Every state is well typed: in particular no service is ever made with the
\* account of a call that was not answered.
THEOREM SetupTypeCorrect == Spec => []TypeOK
<1>1. Inv => TypeOK
  BY DEF Inv
<1> QED
  BY <1>1, SetupInvariant, PTL

\* A rename on its own that is answered with success leaves one name in
\* adminusers, connector and products (updateServiceName).
THEOREM SetupNamesAgree == Spec => []NamesAgree
<1>1. ASSUME Inv, NEW s \in Services, lastRename[s] \in alone,
             form[lastRename[s]].pc = "ok"
      PROVE  OneName(s)
  <2> DEFINE f == lastRename[s]
  <2>1. f \in Forms
    BY <1>1 DEF Inv, TypeOK
  <2>2. SpreadTo(f, s)
    BY <1>1, <2>1, SpreadMeans DEF Inv, Renaming
  <2>3. form[f].pending = {}
    BY <1>1, <2>1, NoCalls
  <2> QED
    BY <2>2, <2>3 DEF SpreadTo, OneName
<1>2. Inv => NamesAgree
  BY <1>1 DEF NamesAgree
<1> QED
  BY <1>2, SetupInvariant, PTL

-----------------------------------------------------------------------------
(* Creating a service is atomic for people                                 *)

\* Nothing that people see, or are told of a creation, changes.
Unseen == UNCHANGED <<admins, Linked, Answers, Results>>

\* What nobody sees is a stuttering step of ServiceOpening.
LEMMA UnseenStutters == Unseen => [Opening!Next]_(Opening!vars)
  BY DEF Unseen, Opening!vars

\* What people are told stays when a form stays.
LEMMA SameForm ==
    ASSUME NEW g \in Forms, form'[g] = form[g]
    PROVE  /\ Told(g)' = Told(g)
           /\ Answers'[g] = Answers[g]
           /\ Results'[g] = Results[g]
  BY DEF Told, Creates, Answers, Results

\* At first nobody was told anything and no two services share an account.
LEMMA InitOpening ==
    ASSUME Init
    PROVE  Opening!Init
<1>1. Inv
  BY InitInv
<1>2. \A f \in Forms : Told(f) = "waiting"
  BY DEF Init, Unsent, Told
<1>3. /\ Answers = [f \in Forms |-> "waiting"]
      /\ Results = [f \in Forms |-> NoService]
  BY <1>2 DEF Answers, Results
<1>4. /\ admins \in [Services -> SUBSET Users]
      /\ Linked \in [Services -> SUBSET Accounts]
  BY <1>1 DEF Inv, TypeOK, Linked, Service
<1>5. /\ \A s \in Services : admins[s] = {} => Linked[s] = {}
      /\ \A s1, s2 \in Services : s1 # s2 => Linked[s1] \cap Linked[s2] = {}
  BY <1>1 DEF Inv, Held, Disjoint, Linked, Visible
<1> QED
  BY <1>3, <1>4, <1>5 DEF Opening!Init

\* The form f alone is told of something, and no service is seen to change.
LEMMA TellsOne ==
    ASSUME Inv, NEW f \in Forms,
           \A g \in Forms : g # f => form'[g] = form[g],
           Told(f) = "waiting", Told(f)' # "waiting",
           Told(f)' = "ok" =>
              /\ form'[f].target \in Services
              /\ \A g \in Forms : Naming(g) /\ g # f
                                  => form[g].target # form'[f].target
    PROVE  \/ /\ Told(f)' = "ok"
              /\ Opening!Tells(f, form'[f].target)
           \/ /\ Told(f)' = "error"
              /\ Answers[f] = "waiting"
              /\ Answers' = [Answers EXCEPT ![f] = "error"]
              /\ UNCHANGED Results
<1>1. Told(f)' \in {"ok", "error"}
  BY DEF Told
<1>2. /\ Answers' = [Answers EXCEPT ![f] = Told(f)']
      /\ Answers[f] = "waiting"
  BY SameForm DEF Answers
<1>3. CASE Told(f)' = "error"
  <2>1. UNCHANGED Results
    BY <1>3, SameForm DEF Results
  <2> QED
    BY <1>2, <1>3, <2>1
<1>4. CASE Told(f)' = "ok"
  <2> DEFINE s == form'[f].target
  <2>1. Results' = [Results EXCEPT ![f] = s]
    BY <1>4, SameForm DEF Results
  <2>2. \A other \in Forms : Results[other] # s
    BY <1>4, SetupAssumption DEF Results, Told, Naming
  <2> QED
    BY <1>2, <1>4, <2>1, <2>2 DEF Opening!Tells
<1> QED
  BY <1>1, <1>3, <1>4

\* A form that opens nothing.
LEMMA AsideOpening ==
    ASSUME Inv, NEW f \in Forms, Idle(f), Inv'
    PROVE  [Opening!Next]_(Opening!vars)
<1>1. UNCHANGED admins
  BY DEF Idle, Steady
<1>2. UNCHANGED Linked
  BY DEF Idle, Steady, Linked, Visible
<1>3. Told(f)' # "ok"
  BY DEF Idle, Naming, Told
<1>4. CASE Told(f)' = Told(f)
  <2>1. \A g \in Forms : Answers'[g] = Answers[g] /\ Results'[g] = Results[g]
    BY <1>3, <1>4, SameForm DEF Idle, Answers, Results
  <2>2. UNCHANGED <<Answers, Results>>
    BY <2>1 DEF Answers, Results
  <2> QED
    BY <1>1, <1>2, <2>2, UnseenStutters DEF Unseen
<1>5. CASE Told(f) = "waiting" /\ Told(f)' # "waiting"
  <2>1. Opening!Fail(f)
    BY <1>1, <1>2, <1>3, <1>5, TellsOne DEF Idle, Opening!Fail
  <2> QED
    BY <2>1 DEF Opening!Next
<1> QED
  BY <1>3, <1>4, <1>5 DEF Idle

\* Only f changes, and what it is told does not.
LEMMA NothingTold ==
    ASSUME NEW f \in Forms, \A g \in Forms : g # f => form'[g] = form[g],
           Told(f) = "waiting", Told(f)' = "waiting"
    PROVE  UNCHANGED <<Answers, Results>>
<1>1. \A g \in Forms : Answers'[g] = Answers[g] /\ Results'[g] = Results[g]
  BY SameForm DEF Answers, Results
<1> QED
  BY <1>1 DEF Answers, Results

\* Nobody sees an account that no service has.
LEMMA CreateAccountOpening ==
    ASSUME Inv, NEW f \in Forms, NEW a \in Accounts,
           CreateAccount(f, a) \/ CreateAccountAgain(f, a)
    PROVE  Unseen
<1> USE DEF Inv
<1>1. UNCHANGED <<service, admins>>
  BY CreateAccountDoes
<1>2. Told(f) = "waiting" /\ Told(f)' = "waiting"
  BY CreateAccountDoes DEF Told, Moved, AfterAccount
<1>3. \A g \in Forms : g # f => form'[g] = form[g]
  BY CreateAccountDoes DEF Moved
<1> QED
  BY <1>1, <1>2, <1>3, NothingTold DEF Unseen, Linked, Visible

\* Nobody sees a service that nobody has a role on.
LEMMA CreateServiceOpening ==
    ASSUME Inv, NEW f \in Forms, NEW s \in Services,
           CreateService(f, s) \/ CreateServiceAgain(f, s)
    PROVE  Unseen
<1> USE DEF Inv
<1>1. form[f].account \in Accounts
  BY Pointed DEF CreateService, CreateServiceAgain
<1>2. UNCHANGED admins /\ Made(f, s)
  BY <1>1, CreateServiceDoes
<1>3. Told(f) = "waiting" /\ Told(f)' = "waiting"
  BY <1>1, CreateServiceDoes DEF Told, Moved
<1>4. \A g \in Forms : g # f => form'[g] = form[g]
  BY <1>1, CreateServiceDoes DEF Moved
<1>5. UNCHANGED Linked
  BY <1>2, MadeAside DEF Linked, Visible
<1> QED
  BY <1>2, <1>3, <1>4, <1>5, NothingTold DEF Unseen

\* A service with one account comes into sight of the person who asked.
LEMMA OpensOne ==
    ASSUME Inv, NEW f \in Forms, NEW s \in Services, Building(f),
           form[f].user \in Users, ~Visible(s),
           form[f].pc = "assignRole" => form[f].target = s,
           admins' = [admins EXCEPT ![s] = {form[f].user}],
           service'[s].accounts = {form[f].account},
           \A other \in Services :
              other # s => service'[other] = service[other]
    PROVE  Opening!Opens(form[f].user, s, form[f].account)
<1> USE DEF Inv
<1>1. admins[s] = {}
  BY DEF Visible
<1>2. /\ admins'[s] # {}
      /\ \A other \in Services : other # s => admins'[other] = admins[other]
  BY DEF TypeOK
<1>3. Linked' = [Linked EXCEPT ![s] = {form[f].account}]
  BY <1>2 DEF Linked, Visible
<1>4. ASSUME NEW other \in Services, form[f].account \in Linked[other]
      PROVE  FALSE
  <2>1. Visible(other) /\ form[f].account \in service[other].accounts
    BY <1>4 DEF Linked
  <2>2. form[f].pc = "assignRole" /\ form[f].target = other
    BY <2>1 DEF Held, AccountsOwn
  <2> QED
    BY <2>1, <2>2
<1> QED
  BY <1>1, <1>3, <1>4 DEF Opening!Opens

\* The first role opens the service; the answer tells the form of it.
LEMMA AssignRoleOpening ==
    ASSUME Inv, NEW f \in Forms, AssignRole(f) \/ AssignRoleAgain(f)
    PROVE  [Opening!Next]_(Opening!vars)
<1> USE DEF Inv
<1> DEFINE s == form[f].target
           u == form[f].user
           a == form[f].account
<1>1. /\ form[f].pc = "assignRole"
      /\ admins' = [admins EXCEPT ![s] = @ \cup {u}]
      /\ service' = service
      /\ \A g \in Forms : g # f => form'[g] = form[g]
      /\ form'[f].pc \in {"ok", "assignRole"}
      /\ form'[f].target = s
      /\ form'[f].kind = form[f].kind
  BY AssignRoleDoes DEF Moved
<1>2. /\ s \in Services
      /\ u \in Users
      /\ Building(f)
      /\ Naming(f)
      /\ service[s].accounts = {a}
      /\ admins[s] \subseteq {u}
      /\ Creates(f)
  BY <1>1 DEF Held, ServicesNamed, ServicesMade, Senders, Building, Naming
<1>3. a \in Accounts
  BY <1>2 DEF Held, AccountsExist
<1>4. Told(f) = "waiting" /\ Told(f)' \in {"waiting", "ok"}
  BY <1>1 DEF Told
<1>5. Told(f)' = "ok" => Opening!Tells(f, s)
  BY <1>1, <1>2, <1>4, TellsOne DEF Held, ServicesNamed
<1>6. Told(f)' = "waiting" => UNCHANGED <<Answers, Results>>
  BY <1>1, <1>4, NothingTold
<1>7. CASE admins[s] = {}
  <2>1. Opening!Opens(u, s, a)
    BY <1>1, <1>2, <1>7, OpensOne DEF Visible
  <2>2. \/ Opening!OpenAndTell(f, u, s, a)
        \/ Opening!Open(u, s, a)
    BY <1>4, <1>5, <1>6, <2>1 DEF Opening!OpenAndTell, Opening!Open
  <2> QED
    BY <1>2, <1>3, <2>2 DEF Opening!Next
<1>8. CASE admins[s] # {}
  <2>1. admins[s] = {u} /\ admins' = admins
    BY <1>1, <1>2, <1>8 DEF TypeOK
  <2>2. UNCHANGED Linked
    BY <1>1, <2>1 DEF Linked, Visible
  <2>3. CASE Told(f)' = "ok"
    <3>1. Opening!Tell(f, u, s)
      BY <1>5, <2>1, <2>2, <2>3 DEF Opening!Tell
    <3> QED
      BY <1>2, <3>1 DEF Opening!Next
  <2>4. CASE Told(f)' = "waiting"
    BY <1>6, <2>1, <2>2, <2>4, UnseenStutters DEF Unseen
  <2> QED
    BY <1>4, <2>3, <2>4
<1> QED
  BY <1>7, <1>8

\* Completing an invite opens a service and may tell the form at once.
LEMMA CompleteInviteOpening ==
    ASSUME Inv, NEW f \in Forms, NEW s \in Services,
           CompleteInvite(f, s) \/ CompleteInviteAgain(f, s)
    PROVE  [Opening!Next]_(Opening!vars)
<1> USE DEF Inv
<1> DEFINE u == form[f].user
           a == form[f].account
<1>1. /\ form[f].pc = "completeInvite"
      /\ Building(f)
      /\ a \in Accounts
      /\ u \in Users
      /\ Creates(f)
  <2>1. form[f].pc = "completeInvite" /\ u \notin registered
    BY DEF CompleteInvite, CompleteInviteAgain, NewUser
  <2> QED
    BY <2>1, Pointed DEF Building, Held, Senders
<1>2. /\ Made(f, s)
      /\ admins' = [admins EXCEPT ![s] = {u}]
  BY <1>1, CompleteInviteDoes
<1>3. /\ \A g \in Forms : g # f => form'[g] = form[g]
      /\ form'[f].kind = form[f].kind
      /\ \/ form'[f].pc = "ok" /\ form'[f].target = s
         \/ form'[f].pc = "completeInvite"
  BY <1>1, CompleteInviteDoes DEF Moved
<1>4. Told(f) = "waiting" /\ Told(f)' \in {"waiting", "ok"}
  BY <1>1, <1>3 DEF Told
<1>5. \A g \in Forms : Naming(g) => form[g].target # s
  BY <1>2 DEF Held, ServicesNamed, Made
<1>6. Told(f)' = "ok" => Opening!Tells(f, s)
  <2>1. Told(f)' = "ok" => form'[f].target = s
    BY <1>3 DEF Told
  <2> QED
    BY <1>3, <1>4, <1>5, <2>1, TellsOne
<1>7. Told(f)' = "waiting" => UNCHANGED <<Answers, Results>>
  BY <1>3, <1>4, NothingTold
<1>8. Opening!Opens(u, s, a)
  <2>1. ~Visible(s)
    BY <1>2, MadeAside
  <2> QED
    BY <1>1, <1>2, <2>1, OpensOne DEF Made
<1>9. \/ Opening!OpenAndTell(f, u, s, a)
      \/ Opening!Open(u, s, a)
  BY <1>4, <1>6, <1>7, <1>8 DEF Opening!OpenAndTell, Opening!Open
<1> QED
  BY <1>1, <1>9 DEF Opening!Next

\* Every step is a step of ServiceOpening or a stutter.
LEMMA StepOpening ==
    ASSUME Inv, Inv', [Next]_vars
    PROVE  [Opening!Next]_(Opening!vars)
<1>1. CASE UNCHANGED vars
  <2>1. \A f \in Forms : form'[f] = form[f]
    BY <1>1 DEF vars
  <2>2. UNCHANGED <<Answers, Results>>
    BY <1>1 DEF vars, Answers, Results, Told, Creates
  <2> QED
    BY <1>1, <2>2, UnseenStutters DEF vars, Unseen, Linked, Visible
<1> QED
  BY <1>1, IdleCases, AsideOpening, CreateAccountOpening,
     CreateServiceOpening, UnseenStutters, AssignRoleOpening,
     CompleteInviteOpening DEF Creating

\* Creating a service over adminusers and connector is atomic for people: it
\* comes into sight in one step, with an account of its own, and the form that
\* is told of success names it, whatever fails or is sent again.
THEOREM SetupOpening == Spec => ImplementsServiceOpening
<1>1. Init => Opening!Init
  BY InitOpening
<1>2. Inv /\ Inv' /\ [Next]_vars => [Opening!Next]_(Opening!vars)
  BY StepOpening
<1> QED
  BY <1>1, <1>2, SetupInvariant, PTL
     DEF Spec, ImplementsServiceOpening, Opening!Spec
=============================================================================
