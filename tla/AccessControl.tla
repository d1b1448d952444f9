--------------------------- MODULE AccessControl ---------------------------
(***************************************************************************)
(* What signing in promises, whatever becomes of cookies and requests:     *)
(* a request works for a user only if, at one instant while it is being    *)
(* handled, the browser it comes from held a grant of the user's current   *)
(* version.  A grant is obtained by passing both factors; revoking the     *)
(* user's sessions makes all grants given until then void, at once and     *)
(* everywhere.  A browser that registered the user is trusted with that    *)
(* user.                                                                   *)
(***************************************************************************)
EXTENDS Integers

CONSTANTS Users, NoUser, Browsers, Tabs, BrowserOf

VARIABLES
    version,   \* the current version of each user
    granted,   \* <<browser, user, version>>
    enrolled,  \* <<browser, user>>
    admitted   \* whom the request of each tab works for

vars == <<version, granted, enrolled, admitted>>

Init ==
    /\ version = [u \in Users |-> 0]
    /\ granted = {}
    /\ enrolled = {}
    /\ admitted = [t \in Tabs |-> NoUser]

Grant(b, u) ==
    /\ granted' = granted \cup {<<b, u, version[u]>>}
    /\ UNCHANGED <<version, enrolled, admitted>>

Enrol(b, u) ==
    /\ enrolled' = enrolled \cup {<<b, u>>}
    /\ UNCHANGED <<version, granted, admitted>>

Revoke(u) ==
    /\ version' = [version EXCEPT ![u] = @ + 1]
    /\ UNCHANGED <<granted, enrolled, admitted>>

Trusted(b, u) == <<b, u, version[u]>> \in granted \/ <<b, u>> \in enrolled

Admit(t, u) ==
    /\ admitted[t] = NoUser
    /\ Trusted(BrowserOf[t], u)
    /\ admitted' = [admitted EXCEPT ![t] = u]
    /\ UNCHANGED <<version, granted, enrolled>>

Leave(t) ==
    /\ admitted' = [admitted EXCEPT ![t] = NoUser]
    /\ UNCHANGED <<version, granted, enrolled>>

Next ==
    \/ \E u \in Users :
          \/ Revoke(u)
          \/ \E b \in Browsers : Grant(b, u) \/ Enrol(b, u)
          \/ \E t \in Tabs : Admit(t, u)
    \/ \E t \in Tabs : Leave(t)

Spec == Init /\ [][Next]_vars
=============================================================================
