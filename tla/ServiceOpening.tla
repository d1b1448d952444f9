--------------------------- MODULE ServiceOpening ---------------------------
(***************************************************************************)
(* What the forms that create a service promise to the people who send     *)
(* them (docs/arch/adr-001: nothing that is left over after a failure can  *)
(* be seen by a user).  A service comes into anybody's sight in one step,  *)
(* with an account of its own; a form that is told it went well names a    *)
(* service its sender owns, and no two forms name the same one.            *)
(***************************************************************************)
CONSTANTS Users, Services, Accounts, Forms, NoService

VARIABLES
    owners,   \* who can see each service
    linked,   \* the accounts of the services somebody can see
    told,     \* what the sender of each form was told
    result    \* the service it names, when it went well

vars == <<owners, linked, told, result>>

Init ==
    /\ owners \in [Services -> SUBSET Users]
    /\ linked \in [Services -> SUBSET Accounts]
    /\ \A s \in Services : owners[s] = {} => linked[s] = {}
    /\ \A s1, s2 \in Services : s1 # s2 => linked[s1] \cap linked[s2] = {}
    /\ told = [f \in Forms |-> "waiting"]
    /\ result = [f \in Forms |-> NoService]

\* Service s opens for user u with account a, which no service had.
Opens(u, s, a) ==
    /\ owners[s] = {}
    /\ \A other \in Services : a \notin linked[other]
    /\ owners' = [owners EXCEPT ![s] = {u}]
    /\ linked' = [linked EXCEPT ![s] = {a}]

Open(u, s, a) == Opens(u, s, a) /\ UNCHANGED <<told, result>>

\* Form f is told that s was opened for it.
Tells(f, s) ==
    /\ told[f] = "waiting"
    /\ \A other \in Forms : result[other] # s
    /\ told' = [told EXCEPT ![f] = "ok"]
    /\ result' = [result EXCEPT ![f] = s]

Tell(f, u, s) == u \in owners[s] /\ Tells(f, s) /\ UNCHANGED <<owners, linked>>

OpenAndTell(f, u, s, a) == Opens(u, s, a) /\ Tells(f, s)

\* Whatever happened, a form may be told that it failed.
Fail(f) ==
    /\ told[f] = "waiting"
    /\ told' = [told EXCEPT ![f] = "error"]
    /\ UNCHANGED <<owners, linked, result>>

Next ==
    \/ \E u \in Users, s \in Services :
          \/ \E a \in Accounts :
                \/ Open(u, s, a)
                \/ \E f \in Forms : OpenAndTell(f, u, s, a)
          \/ \E f \in Forms : Tell(f, u, s)
    \/ \E f \in Forms : Fail(f)

Spec == Init /\ [][Next]_vars
=============================================================================
