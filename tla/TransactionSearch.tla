-------------------------- MODULE TransactionSearch --------------------------
(***************************************************************************)
(* The filter of a list of transactions.                                   *)
(*                                                                         *)
(* What the user asks for travels in the address of the page: the form     *)
(* writes it, the links to other pages and page sizes write it again, the  *)
(* link to the file writes it in connector's terms, and the session of the *)
(* browser keeps it for the way back from a transaction.  States are asked *)
(* for by the names that the portal shows and searched for by connector's. *)
(***************************************************************************)
EXTENDS Naturals, FiniteSets

CONSTANTS
    Tabs,
    Emails, AnyEmail,    \* another field of the filter, and nothing in it
    Choices         \* the sets of states that are ever chosen

VARIABLES
    address,    \* the filter in the address of the list of each tab
    session,    \* req.session.filters, of the browser
    \* Ghosts: what the user asked for in each tab and in the list whose
    \* filter is in the session.
    asked, askedLast

vars == <<address, session, asked, askedLast>>

-----------------------------------------------------------------------------
(* utils/states.js                                                         *)

NoCode == "none"

PaymentStates ==
    [created |-> "In progress", started |-> "In progress",
     submitted |-> "In progress", success |-> "Success", error |-> "Error",
     failed |-> "Failed", cancelled |-> "Cancelled"]

ErrorCodes == [error |-> {"P0050"}, failed |-> {"P0010", "P0020", "P0030"},
               cancelled |-> {"P0040"}]

ErrorCodeStates == [P0010 |-> "Declined", P0020 |-> "Timed out",
                    P0030 |-> "Cancelled", P0040 |-> "Cancelled",
                    P0050 |-> "Error"]

RefundStates == [submitted |-> "Refund submitted", error |-> "Refund error",
                 success |-> "Refund success"]

\* The names that payments of a status are searched for by: those of its own
\* error codes, if it has any.
NamesOf(status) ==
    IF status \in DOMAIN ErrorCodes
    THEN {ErrorCodeStates[code] : code \in ErrorCodes[status]}
    ELSE {PaymentStates[status]}

AllDisplayStates ==
    (UNION {NamesOf(status) : status \in DOMAIN PaymentStates})
        \cup {RefundStates[status] : status \in DOMAIN RefundStates}

\* The name a transaction is shown with: that of its error code, whatever its
\* status, and without one that of its status.
DisplayName(t) ==
    IF t.code \in DOMAIN ErrorCodeStates THEN ErrorCodeStates[t.code]
    ELSE IF t.type = "charge" THEN PaymentStates[t.status]
    ELSE RefundStates[t.status]

\* (without the error codes)
ConnectorStatesByName(names) ==
    [payment |-> {status \in DOMAIN PaymentStates :
                     PaymentStates[status] \in names},
     refund |-> {status \in DOMAIN RefundStates :
                     RefundStates[status] \in names}]

\* The statuses to search for; none of either kind: do not restrict them.
ConnectorStates(names) ==
    [payment |-> {status \in DOMAIN PaymentStates :
                     NamesOf(status) \cap names # {}},
     refund |-> {status \in DOMAIN RefundStates :
                     RefundStates[status] \in names}]

-----------------------------------------------------------------------------
(* Connector                                                               *)

\* A payment that came to nothing may have any error code or none
\* (states_test.js:79).
Codes(status) ==
    IF status \in DOMAIN ErrorCodes
    THEN {NoCode} \cup DOMAIN ErrorCodeStates
    ELSE {NoCode}

\* A payment or a refund of every kind, in each state it can be in.
AllTransactions ==
    [type : {"refund"}, status : DOMAIN RefundStates, code : {NoCode},
     email : Emails]
    \cup
    (UNION {[type : {"charge"}, status : {status}, code : Codes(status),
             email : Emails] :
                status \in DOMAIN PaymentStates})

\* A search by the statuses of payments and refunds and by e-mail.
Found(search) ==
    {t \in AllTransactions :
        /\ \/ search.payment = {} /\ search.refund = {}
           \/ t.type = "charge" /\ t.status \in search.payment
           \/ t.type = "refund" /\ t.status \in search.refund
        /\ search.email \in {AnyEmail, t.email}}

-----------------------------------------------------------------------------
(* utils/filters.js and the links                                          *)

\* names: the states; joined: they are one text, with commas.
Address == [names : SUBSET AllDisplayStates, joined : BOOLEAN,
            email : Emails \cup {AnyEmail}]

Nothing == [names |-> {}, joined |-> FALSE, email |-> AnyEmail]

\* A text with commas is the name of no state.
SelectedStates(a) ==
    IF a.joined /\ Cardinality(a.names) > 1 THEN {} ELSE a.names

\* The search of a list.
GetFilters(a) ==
    [payment |-> ConnectorStates(SelectedStates(a)).payment,
     refund |-> ConnectorStates(SelectedStates(a)).refund,
     email |-> a.email]

\* The search of the file that a list links to.
DownloadLink(a) == GetFilters(a)

\* A page link has the states as the template prints them, and no e-mail.
PageLink(a) == [a EXCEPT !.joined = TRUE, !.email = AnyEmail]

\* A page size has no filters: pageSizeLink.filters is not there.
SizeLink(a) == [Nothing EXCEPT !.joined = TRUE]

TypeOK == /\ address \in [Tabs -> Address]
          /\ session \in Address
          /\ asked \in [Tabs -> Address] /\ askedLast \in Address

Init == /\ address = [t \in Tabs |-> Nothing]
        /\ session = Nothing
        /\ asked = [t \in Tabs |-> Nothing] /\ askedLast = Nothing

-----------------------------------------------------------------------------
(* The user                                                                *)

\* A list is shown for a filter, where what was asked for is wish.
Show(t, a, wish) ==
    /\ address' = [address EXCEPT ![t] = a]
    /\ session' = a
    /\ asked' = [asked EXCEPT ![t] = wish]
    /\ askedLast' = wish

\* The form of the filter is sent, which offers all names and no others.
Filter(t) ==
    \E names \in Choices \cap SUBSET AllDisplayStates,
       email \in Emails \cup {AnyEmail} :
        LET a == [names |-> names, joined |-> FALSE, email |-> email]
        IN  Show(t, a, a)

FollowPage(t) == Show(t, PageLink(address[t]), asked[t])

ChangeSize(t) == Show(t, SizeLink(address[t]), asked[t])

\* The page of a transaction leads back to the list shown last in the
\* browser, in whatever tab.
DetailAndBack(t) == Show(t, session, askedLast)

Next == \E t \in Tabs : Filter(t) \/ FollowPage(t) \/ ChangeSize(t)
                           \/ DetailAndBack(t)

Spec == Init /\ [][Next]_vars

-----------------------------------------------------------------------------
(* Properties                                                              *)

IsAskedFor(t, a) == /\ a.names = {} \/ DisplayName(t) \in a.names
                    /\ a.email \in {AnyEmail, t.email}

Listed(t, tab) == t \in Found(GetFilters(address[tab]))
                        \cap Found(DownloadLink(address[tab]))

\* The status of a payment has the name the payment is shown with.
HasOwnName(t) == t.type = "charge" => DisplayName(t) \in NamesOf(t.status)

\* Whatever way a list was come to, it and its file have every transaction
\* that the user asked for, by the state it is shown with: a status may have
\* several names and a name several statuses (states.js:110).  Left out are
\* payments with the error code of another status, or with none where their
\* status has some: they are shown (states_test.js:79) with a name by which
\* they are not found.
NothingHidden ==
    \A tab \in Tabs, t \in AllTransactions :
        HasOwnName(t) /\ IsAskedFor(t, asked[tab]) => Listed(t, tab)

\* The links to the other pages and page sizes of a list keep its filter
\* (paginator.njk:5, display_size.njk:8; pagination_ui_tests.js:46).
LinksKeepFilter ==
    \A tab \in Tabs :
        Found(GetFilters(address[tab])) = Found(GetFilters(asked[tab]))
=============================================================================
