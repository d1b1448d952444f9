--------------------------------- MODULE Team ---------------------------------
(***************************************************************************)
(* The members of the team of a service: who may do what is read when a    *)
(* request arrives, and the change is made one or two calls later.         *)
(***************************************************************************)
EXTENDS Naturals, FiniteSets

CONSTANTS
    Users,
    Founders,      \* the administrators at first, each with a tab
    Outsiders      \* those who may be invited

TeamAssumption ==
    /\ Founders \subseteq Users /\ Founders # {}
    /\ Outsiders \subseteq Users \ Founders

Roles == {"admin", "view-and-refund", "view-only"}

VARIABLES
    role,       \* adminusers: the role of each user in the service, or "none"
    invited,    \* adminusers: the role of each open invitation, or "none"
    crossed,    \* ghost: a change was made for one who was an administrator
                \* when the request arrived, and no longer when it was served
    tab

vars == <<role, invited, crossed, tab>>

-----------------------------------------------------------------------------
Operations == {"index", "show", "permissions", "update", "delete", "invite"}

\* The calls to adminusers: to find a user, to change one, all of the team.
Calls == {"none", "find", "change", "team"}

Tab == [op : Operations, call : Calls, target : Users, given : Roles,
        told : {"page", "done", "already", "error"}]

TypeOK == /\ role \in [Users -> Roles \cup {"none"}]
          /\ invited \in [Outsiders -> Roles \cup {"none"}]
          /\ crossed \in BOOLEAN
          /\ tab \in [Founders -> Tab]

Told(u, what) == [op |-> "index", call |-> "none", target |-> u,
                  given |-> "admin", told |-> what]

Init == /\ role = [u \in Users |-> IF u \in Founders THEN "admin" ELSE "none"]
        /\ invited = [u \in Outsiders |-> "none"]
        /\ crossed = FALSE
        /\ tab = [u \in Founders |-> Told(u, "page")]

-----------------------------------------------------------------------------
(* Requests                                                                *)

Member(u) == role[u] # "none"

Busy(u) == tab[u].call # "none"

Tell(u, what) == tab' = [tab EXCEPT ![u] = Told(u, what)]

\* The team is shown to all members, the rest is for administrators.
MayAsk(u, op) == IF op = "index" THEN Member(u) ELSE role[u] = "admin"

\* (only when the role is changed)
RefusedSelfRole(u, op, target) == u = target /\ op \in {"update", "permissions"}

\* Nobody changes their own role or removes themselves.
RefusedSelf(u, op, target) ==
    u = target /\ op \in {"update", "permissions", "delete"}

FirstCall(op) == CASE op = "index"  -> "team"
                   [] op = "invite" -> "change"
                   [] OTHER         -> "find"

\* What the page a request is sent from shows may be long out of date.
Ask(u, op, target, given) ==
    /\ ~Busy(u)
    /\ IF ~MayAsk(u, op) \/ RefusedSelf(u, op, target)
       THEN Tell(u, "error")
       ELSE tab' = [tab EXCEPT ![u] =
                [op |-> op, call |-> FirstCall(op), target |-> target,
                 given |-> given, told |-> "page"]]
    /\ UNCHANGED <<role, invited, crossed>>

Index(u) == Ask(u, "index", u, "admin")

\* One's own page is answered with a redirect to the profile, which finds the
\* user as well; what the handler still does for it comes too late.
Show(u) == \E target \in Users : Ask(u, "show", target, "admin")

Permissions(u) == \E target \in Users : Ask(u, "permissions", target, "admin")

Update(u) == \E target \in Users, given \in Roles : Ask(u, "update", target, given)

Delete(u) == \E target \in Users : Ask(u, "delete", target, "admin")

Invite(u) == \E target \in Outsiders, given \in Roles :
                 Ask(u, "invite", target, given)

-----------------------------------------------------------------------------
(* Calls                                                                   *)

\* All errors of a removal are told as if another had been faster.
FailureOf(op) == IF op = "delete" THEN "already" ELSE "error"

TeamFound(u) ==
    /\ tab[u].call = "team"
    /\ Tell(u, "page")
    /\ UNCHANGED <<role, invited, crossed>>

\* Only the removal goes on without asking whether the user is in the team.
Found(u) ==
    /\ tab[u].call = "find"
    /\ LET r == tab[u] IN
       CASE r.op = "delete" \/ (r.op = "update" /\ Member(r.target)) ->
                tab' = [tab EXCEPT ![u].call = "change"]
         [] r.op # "delete" /\ ~Member(r.target) -> Tell(u, "error")
         [] OTHER -> Tell(u, "page")
    /\ UNCHANGED <<role, invited, crossed>>

\* adminusers has the last word on who is a member and who can be invited.
Accepted(u) ==
    IF tab[u].op = "invite"
    THEN ~Member(tab[u].target) /\ invited[tab[u].target] = "none"
    ELSE Member(tab[u].target)

Change(u) ==
    LET r == tab[u] IN
    /\ role' = CASE r.op = "update" -> [role EXCEPT ![r.target] = r.given]
                 [] r.op = "delete" -> [role EXCEPT ![r.target] = "none"]
                 [] r.op = "invite" -> role
    /\ invited' = IF r.op = "invite"
                  THEN [invited EXCEPT ![r.target] = r.given] ELSE invited
    /\ crossed' = (crossed \/ role[u] # "admin")

Changed(u) ==
    /\ tab[u].call = "change" /\ Accepted(u)
    /\ Change(u)
    /\ Tell(u, "done")

\* Refused: an invitation because there is one, or a member, already.
Refused(u) ==
    /\ tab[u].call = "change" /\ ~Accepted(u)
    /\ Tell(u, IF tab[u].op = "invite" THEN "already" ELSE FailureOf(tab[u].op))
    /\ UNCHANGED <<role, invited, crossed>>

\* Broken down, perhaps after the change was made.
Fails(u) ==
    /\ Busy(u)
    /\ \/ UNCHANGED <<role, invited, crossed>>
       \/ tab[u].call = "change" /\ Accepted(u) /\ Change(u)
    /\ Tell(u, FailureOf(tab[u].op))

\* An open invitation is accepted.
CompleteInvite(u) ==
    /\ invited[u] # "none"
    /\ role' = [role EXCEPT ![u] = invited[u]]
    /\ invited' = [invited EXCEPT ![u] = "none"]
    /\ UNCHANGED <<crossed, tab>>

Call(u) == TeamFound(u) \/ Found(u) \/ Changed(u) \/ Refused(u) \/ Fails(u)

Next == \/ \E u \in Founders :
              \/ Index(u) \/ Show(u) \/ Permissions(u)
              \/ Update(u) \/ Delete(u) \/ Invite(u)
              \/ Call(u)
        \/ \E u \in Outsiders : CompleteInvite(u)

\* Adminusers answers every call: the client itself waits without limit.
Spec == Init /\ [][Next]_vars /\ \A u \in Founders : WF_vars(Call(u))

-----------------------------------------------------------------------------
(* Properties                                                              *)

\* A service always has an administrator: whoever changes the others stays
\* one, as long as nobody is demoted while a change of theirs is under way.
AdminRemains == (\E u \in Users : role[u] = "admin") \/ crossed

\* Every request is answered: no tab waits for ever.
Answered == \A u \in Founders : []<>~Busy(u)
=============================================================================
