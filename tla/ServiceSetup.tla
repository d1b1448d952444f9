---------------------------- MODULE ServiceSetup ----------------------------
(***************************************************************************)
(* Creating and naming services.                                           *)
(*                                                                         *)
(* A service is spread over three back ends that share no transaction: the *)
(* service and its people in adminusers, its gateway accounts in connector *)
(* and its products in products, each with a copy of the service's name.   *)
(* A form of the portal calls them one after the other; every call may be  *)
(* served, fail, or be served by a connection that breaks, in which case   *)
(* the client sends it again.  A rename ends with calls sent all at once,  *)
(* and is answered when all have succeeded or the first has failed.        *)
(***************************************************************************)
EXTENDS Integers, FiniteSets

CONSTANTS
    Users, NoUser,
    Invitees,           \* become users by registering a service
    Services, NoService,
    Accounts, NoAccount,
    Names, NoName,
    BadName,            \* a name that validateServiceName refuses
    Forms, NoForm,      \* the forms that are ever sent
    MaxAttempts,        \* how often the client sends a call
    FirstAccounts,      \* the accounts of the services there are at first
    FirstName           \* and their name

FirstServices == DOMAIN FirstAccounts

ASSUME SetupAssumption ==
    /\ NoUser \notin Users
    /\ Invitees \subseteq Users
    /\ NoService \notin Services
    /\ NoAccount \notin Accounts
    /\ NoName \notin Names
    /\ BadName \notin Names \cup {NoName}
    /\ NoForm \notin Forms
    /\ MaxAttempts \in Nat
    /\ FirstServices \subseteq Services
    /\ FirstAccounts \in [FirstServices -> SUBSET Accounts]
    /\ \A s1, s2 \in FirstServices :
          s1 # s2 => FirstAccounts[s1] \cap FirstAccounts[s2] = {}
    /\ FirstName \in Names

VARIABLES
    service,     \* adminusers: the services, their names and accounts
    admins,      \* adminusers: the administrators of each service
    registered,  \* adminusers: the users; an invite is complete when its
                 \* invitee is one
    account,     \* connector: the accounts and the names they show
    products,    \* products: the name the products of an account show
    form,        \* the request of each form
    \* Ghosts, for the properties only.
    lastRename,  \* the rename of each service that was sent last
    alone        \* the renames sent while no other rename of their service
                 \* was under way

vars == <<service, admins, registered, account, products, form,
          lastRename, alone>>
Adminusers == <<service, admins, registered>>
ghosts == <<lastRename, alone>>

-----------------------------------------------------------------------------
MaybeName == Names \cup {NoName}

\* A service that exists has a name; "System Generated" is NoName's.
Service == [exists : BOOLEAN, name : MaybeName, accounts : SUBSET Accounts]
NothingYet == [exists |-> FALSE, name |-> NoName, accounts |-> {}]

Account == [exists : BOOLEAN, name : MaybeName]

Backends == {"connector", "products"}

PC == {"unsent", "verifyOtp", "createAccount", "createService", "assignRole",
       "completeInvite", "updateName", "patchNames", "ok", "back", "error"}

\* user, target, name: what the form is about; account: the one created for
\* it; attempts: how often its current call was sent; pending: the calls of a
\* rename not answered yet, which go on after the form was told of an error.
Request ==
    [pc : PC, kind : {"register", "add", "rename"},
     user : Users \cup {NoUser},
     target : Services \cup {NoService}, name : MaybeName,
     account : Accounts \cup {NoAccount}, attempts : Nat,
     pending : SUBSET (Backends \X Accounts)]

TypeOK ==
    /\ service \in [Services -> Service]
    /\ admins \in [Services -> SUBSET Users]
    /\ registered \subseteq Users
    /\ account \in [Accounts -> Account]
    /\ products \in [Accounts -> MaybeName]
    /\ form \in [Forms -> Request]
    /\ lastRename \in [Services -> Forms \cup {NoForm}]
    /\ alone \subseteq Forms

Unsent ==
    [pc |-> "unsent", kind |-> "register", user |-> NoUser,
     target |-> NoService, name |-> NoName, account |-> NoAccount,
     attempts |-> 1, pending |-> {}]

FirstOwned == UNION {FirstAccounts[s] : s \in FirstServices}

Init ==
    /\ service = [s \in Services |->
                     IF s \in FirstServices
                     THEN [exists |-> TRUE, name |-> FirstName,
                           accounts |-> FirstAccounts[s]]
                     ELSE NothingYet]
    /\ admins = [s \in Services |-> IF s \in FirstServices
                                    THEN Users \ Invitees ELSE {}]
    /\ registered = Users \ Invitees
    /\ account = [a \in Accounts |->
                     [exists |-> a \in FirstOwned,
                      name |-> IF a \in FirstOwned THEN FirstName
                               ELSE NoName]]
    /\ products = [a \in Accounts |-> IF a \in FirstOwned THEN FirstName
                                      ELSE NoName]
    /\ form = [f \in Forms |-> Unsent]
    /\ lastRename = [s \in Services |-> NoForm]
    /\ alone = {}

-----------------------------------------------------------------------------
(* The life of a form                                                      *)

\* A form is sent; its request goes to its first call.
Send(f, pc, kind, u, s, n) ==
    /\ form[f].pc = "unsent"
    /\ form' = [form EXCEPT ![f] =
                   [pc |-> pc, kind |-> kind, user |-> u, target |-> s,
                    name |-> n, account |-> NoAccount, attempts |-> 1,
                    pending |-> {}]]

\* A call is answered and the request goes on to the next one.
Advance(f, pc) ==
    form' = [form EXCEPT ![f].pc = pc, ![f].attempts = 1]

\* A call is served but its connection breaks: the client sends it again.
SendAgain(f) ==
    /\ form[f].attempts < MaxAttempts
    /\ form' = [form EXCEPT ![f].attempts = @ + 1]

\* The rename f is under way: its calls have not all been answered.
UnderWay(f) ==
    /\ form[f].kind = "rename"
    /\ form[f].pc = "updateName" \/ form[f].pending # {}

-----------------------------------------------------------------------------
(* Sending a form                                                          *)

\* POST of the one-time code of a self-registration.
PostOtp(f, u) ==
    /\ u \in Invitees
    /\ Send(f, "verifyOtp", "register", u, NoService, NoName)
    /\ UNCHANGED <<Adminusers, account, products, ghosts>>

\* POST of the name of a service to add.
PostNewService(f, u, n) ==
    /\ u \in registered
    /\ Send(f, IF n = BadName THEN "back" ELSE "createAccount", "add", u,
            NoService, IF n = BadName THEN NoName ELSE n)
    /\ UNCHANGED <<Adminusers, account, products, ghosts>>

\* POST of another name for a service, or of the first one after a
\* self-registration: the service is one that the sender administers.
PostName(f, u, s, n) ==
    /\ u \in admins[s]
    /\ Send(f, IF n = BadName THEN "back" ELSE "updateName", "rename", u,
            s, IF n = BadName THEN NoName ELSE n)
    /\ IF n = BadName
       THEN UNCHANGED ghosts
       ELSE /\ lastRename' = [lastRename EXCEPT ![s] = f]
            /\ alone' = IF \E g \in Forms : form[g].target = s /\ UnderWay(g)
                        THEN alone
                        ELSE alone \cup {f}
    /\ UNCHANGED <<Adminusers, account, products>>

-----------------------------------------------------------------------------
(* Creating a service                                                      *)

\* verifyOtpForServiceInvite: the code is the right one.
VerifyOtp(f) ==
    /\ form[f].pc = "verifyOtp"
    /\ Advance(f, "createAccount")
    /\ UNCHANGED <<Adminusers, account, products, ghosts>>

\* connector makes a sandbox account, with the name of the form.
NewAccount(f, a) ==
    /\ form[f].pc = "createAccount"
    /\ ~account[a].exists
    /\ account' = [account EXCEPT
                      ![a] = [exists |-> TRUE, name |-> form[f].name]]

\* (without keeping the id of the account)
CreateAccountForgets(f, a) ==
    /\ NewAccount(f, a)
    /\ Advance(f, IF form[f].kind = "register"
                  THEN "completeInvite" ELSE "createService")
    /\ UNCHANGED <<Adminusers, products, ghosts>>

CreateAccount(f, a) ==
    /\ NewAccount(f, a)
    /\ form' = [form EXCEPT
                   ![f].account = a,
                   ![f].attempts = 1,
                   ![f].pc = IF form[f].kind = "register"
                             THEN "completeInvite" ELSE "createService"]
    /\ UNCHANGED <<Adminusers, products, ghosts>>

CreateAccountAgain(f, a) ==
    /\ NewAccount(f, a)
    /\ SendAgain(f)
    /\ UNCHANGED <<Adminusers, products, ghosts>>

\* adminusers makes a service with the account of the form.
NewService(f, s) ==
    /\ ~service[s].exists
    /\ service' = [service EXCEPT
                      ![s] = [exists |-> TRUE, name |-> form[f].name,
                              accounts |-> {form[f].account}]]

\* (without waiting for the role)
CreateServiceOnly(f, s) ==
    /\ form[f].pc = "createService"
    /\ NewService(f, s)
    /\ form' = [form EXCEPT ![f].pc = "ok", ![f].target = s]
    /\ UNCHANGED <<admins, registered, account, products, ghosts>>

CreateService(f, s) ==
    /\ form[f].pc = "createService"
    /\ NewService(f, s)
    /\ form' = [form EXCEPT ![f].pc = "assignRole", ![f].attempts = 1,
                            ![f].target = s]
    /\ UNCHANGED <<admins, registered, account, products, ghosts>>

CreateServiceAgain(f, s) ==
    /\ form[f].pc = "createService"
    /\ NewService(f, s)
    /\ SendAgain(f)
    /\ UNCHANGED <<admins, registered, account, products, ghosts>>

\* The person who added the service becomes its first administrator.
NewRole(f) ==
    /\ form[f].pc = "assignRole"
    /\ admins' = [admins EXCEPT ![form[f].target] = @ \cup {form[f].user}]

AssignRole(f) ==
    /\ NewRole(f)
    /\ Advance(f, "ok")
    /\ UNCHANGED <<service, registered, account, products, ghosts>>

AssignRoleAgain(f) ==
    /\ NewRole(f)
    /\ SendAgain(f)
    /\ UNCHANGED <<service, registered, account, products, ghosts>>

\* completeInvite: adminusers makes the service, the user and the role at
\* once, for an invite that is not complete yet.
NewUser(f, s) ==
    /\ form[f].pc = "completeInvite"
    /\ form[f].user \notin registered
    /\ NewService(f, s)
    /\ registered' = registered \cup {form[f].user}
    /\ admins' = [admins EXCEPT ![s] = {form[f].user}]

CompleteInvite(f, s) ==
    /\ NewUser(f, s)
    /\ form' = [form EXCEPT ![f].pc = "ok", ![f].target = s]
    /\ UNCHANGED <<account, products, ghosts>>

CompleteInviteAgain(f, s) ==
    /\ NewUser(f, s)
    /\ SendAgain(f)
    /\ UNCHANGED <<account, products, ghosts>>

\* A call made on its own fails, for good: the error page or, for a wrong code
\* and a call that is not answered, the form of the code again.
CallFails(f) ==
    /\ form[f].pc \in {"verifyOtp", "createAccount", "createService",
                       "assignRole", "completeInvite", "updateName"}
    /\ \/ form[f].pc = "verifyOtp" /\ Advance(f, "back")
       \/ Advance(f, "error")
    /\ UNCHANGED <<Adminusers, account, products, ghosts>>

-----------------------------------------------------------------------------
(* Naming a service                                                        *)

NewName(f) ==
    /\ form[f].pc = "updateName"
    /\ service' = [service EXCEPT ![form[f].target].name = form[f].name]

\* The calls that tell connector and products of the name, one each for every
\* account that adminusers names in its answer.
UpdateName(f) ==
    LET calls == Backends \X service[form[f].target].accounts IN
    /\ NewName(f)
    /\ form' = [form EXCEPT
                   ![f].pending = calls,
                   ![f].attempts = 1,
                   ![f].pc = IF calls = {} THEN "ok" ELSE "patchNames"]
    /\ UNCHANGED <<admins, registered, account, products, ghosts>>

UpdateNameAgain(f) ==
    /\ NewName(f)
    /\ SendAgain(f)
    /\ UNCHANGED <<admins, registered, account, products, ghosts>>

\* The service name of an account, or of the products of an account.
PatchName(f, call) ==
    LET a == call[2]
        n == form[f].name
    IN
    /\ call \in form[f].pending
    /\ IF call[1] = "connector"
       THEN /\ account' = [account EXCEPT ![a].name = n]
            /\ UNCHANGED products
       ELSE /\ products' = [products EXCEPT
                               ![a] = IF @ = NoName THEN @ ELSE n]
            /\ UNCHANGED account

\* (with q.any in the place of q.all)
SettleFirst(f, call, succeeded) ==
    LET left == form[f].pending \ {call} IN
    form' = [form EXCEPT
                ![f].pending = left,
                ![f].pc = IF @ # "patchNames" THEN @
                          ELSE IF succeeded THEN "ok"
                          ELSE IF left = {} THEN "error" ELSE @]

\* One of the calls that q.all waits for is answered.
Settle(f, call, succeeded) ==
    LET left == form[f].pending \ {call} IN
    form' = [form EXCEPT
                ![f].pending = left,
                ![f].pc = IF @ = "error" \/ ~succeeded THEN "error"
                          ELSE IF left = {} THEN "ok" ELSE @]

PatchNameDone(f, call) ==
    /\ PatchName(f, call)
    /\ Settle(f, call, TRUE)
    /\ UNCHANGED <<Adminusers, ghosts>>

\* It is served and sent again, as often as may be (base_client and the older
\* client differ there); serving it once more changes nothing unless another
\* rename came between.
PatchNameAgain(f, call) ==
    /\ PatchName(f, call)
    /\ UNCHANGED <<Adminusers, form, ghosts>>

PatchNameFails(f, call) ==
    /\ call \in form[f].pending
    /\ Settle(f, call, FALSE)
    /\ UNCHANGED <<Adminusers, account, products, ghosts>>

-----------------------------------------------------------------------------

Post(f) ==
    \E u \in Users :
        \/ PostOtp(f, u)
        \/ \E n \in Names \cup {BadName} :
              \/ PostNewService(f, u, n)
              \/ \E s \in Services : PostName(f, u, s, n)

Create(f) ==
    \/ VerifyOtp(f)
    \/ AssignRole(f) \/ AssignRoleAgain(f)
    \/ \E a \in Accounts : CreateAccount(f, a) \/ CreateAccountAgain(f, a)
    \/ \E s \in Services :
          \/ CreateService(f, s) \/ CreateServiceAgain(f, s)
          \/ CompleteInvite(f, s) \/ CompleteInviteAgain(f, s)

Rename(f) ==
    \/ UpdateName(f) \/ UpdateNameAgain(f)
    \/ \E call \in Backends \X Accounts :
          \/ PatchNameDone(f, call)
          \/ PatchNameAgain(f, call)
          \/ PatchNameFails(f, call)

Next == \E f \in Forms : Post(f) \/ Create(f) \/ Rename(f) \/ CallFails(f)

Spec == Init /\ [][Next]_vars

-----------------------------------------------------------------------------
(* Properties                                                              *)

\* The three copies of the name of s are the same, wherever there is one.
OneName(s) ==
    \A a \in service[s].accounts :
        /\ account[a].name = service[s].name
        /\ products[a] \in {service[s].name, NoName}

\* Once the rename of a service that was sent last is answered with success,
\* and no other was under way when it was sent, adminusers, connector and
\* products show the same name: q.all of updateServiceName waits for every
\* call, and no service shares an account with another.
NamesAgree ==
    \A s \in Services :
        LET f == lastRename[s] IN
        f \in alone /\ form[f].pc = "ok" => OneName(s)

Visible(s) == admins[s] # {}

Creates(f) == form[f].kind \in {"register", "add"}
Told(f) ==
    IF ~Creates(f) \/ form[f].pc \notin {"ok", "back", "error"}
    THEN "waiting"
    ELSE IF form[f].pc = "ok" THEN "ok" ELSE "error"

\* What people see, are told, and are told of.
Linked == [s \in Services |-> IF Visible(s) THEN service[s].accounts ELSE {}]
Answers == [f \in Forms |-> Told(f)]
Results == [f \in Forms |-> IF Told(f) = "ok" THEN form[f].target
                            ELSE NoService]

Opening == INSTANCE ServiceOpening WITH
    owners <- admins, linked <- Linked, told <- Answers, result <- Results

\* The order of the calls (account, then service, then role) makes a creation
\* that spans two back ends atomic for people: whatever fails or is sent
\* again, a service somebody can see has an account of its own, and a form
\* that was told of success has its own service.
ImplementsServiceOpening == Opening!Spec
=============================================================================
