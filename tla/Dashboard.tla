------------------------------ MODULE Dashboard ------------------------------
(***************************************************************************)
(* The activity of an account on its dashboard, and the lists it links to. *)
(*                                                                         *)
(* An instant is a second, of which a day has few.  The summary of         *)
(* connector ends before the second it is given, and so does its list; the *)
(* portal asks for one second more when it lists, to include the last.     *)
(* Meanwhile payments and refunds are made, and succeed.                   *)
(***************************************************************************)
EXTENDS Integers, FiniteSets

CONSTANTS
    Day,            \* the seconds of a day
    Start, End,     \* bound: the time that passes
    Earlier,        \* bound: when there may have been a transaction before
    MaxMade         \* bound: no transaction is made after so many

DashboardAssumption ==
    /\ Day \in Nat \ {0}
    /\ Start \in Nat /\ End \in Nat
    /\ 32 * Day <= Start /\ Start <= End
    /\ Earlier \subseteq 0 .. Start - 1
    /\ MaxMade \in Nat

VARIABLES
    account,    \* "card" or "directDebit"
    statuses,   \* "new" when the user has the feature NEW_CHARGE_STATUS_ENABLED
    now,
    made,       \* connector: the transactions of the account
    page

vars == <<account, statuses, now, made, page>>

-----------------------------------------------------------------------------
\* How many whole days back a period starts; all but today end this midnight,
\* so that the previous seven days are eight and the previous thirty are 31.
DaysAgo == [today |-> 0, yesterday |-> 1,
            previousSevenDays |-> 8, previousThirtyDays |-> 31]

Periods == DOMAIN DaysAgo

\* One has succeeded or may still do so.
Transaction == [kind : {"payment", "refund"}, at : 0 .. End, succeeded : BOOLEAN]

Unfinished(x) == [x EXCEPT !.succeeded = FALSE]

\* The numbers link to the successful payments, the successful refunds, and
\* both of them.
Links == {{"payment"}, {"refund"}, {"payment", "refund"}}

\* asked: when the request arrived; counted: the transactions of the summary;
\* open: ghost, those of the period that had not succeeded then; link, listed:
\* what was followed, and the list it led to.
Page == [shows : {"nothing", "waiting", "activity", "noActivity", "list"},
         period : Periods, asked : Int,
         counted : SUBSET Transaction, open : SUBSET Transaction,
         link : Links, listed : SUBSET Transaction]

TypeOK == /\ account \in {"card", "directDebit"}
          /\ statuses \in {"old", "new"}
          /\ now \in Start .. End
          /\ made \subseteq Transaction
          /\ page \in Page

Nothing == [shows |-> "nothing", period |-> "today", asked |-> 0,
            counted |-> {}, open |-> {}, link |-> {"payment"}, listed |-> {}]

Init == /\ account \in {"card", "directDebit"}
        /\ statuses \in {"old", "new"}
        /\ now = Start
        /\ made \in {{}} \cup {{x} : x \in {y \in Transaction : y.at \in Earlier}}
        /\ page = Nothing

-----------------------------------------------------------------------------
(* The period                                                              *)

Midnight(time) == time - (time % Day)

FromDateTime(p) == Midnight(p.asked) - Day * DaysAgo[p.period]

ToDateTime(p) == IF p.period = "today" THEN p.asked ELSE Midnight(p.asked)

\* (the last second of the day instead of the time)
ListToOfDay(p) == Midnight(ToDateTime(p)) + Day - 1

\* The link has date and time of both ends; the list adds a second.
ListTo(p) == ToDateTime(p) + 1

-----------------------------------------------------------------------------
(* The states of the links                                                 *)

\* getFilters: "payment-success" and "refund-success" are names of the old
\* statuses, and none of the new ones; a search for no state finds all.
Searched(link) == IF statuses = "old" THEN link ELSE {}

-----------------------------------------------------------------------------
Unmoved == UNCHANGED <<account, statuses, now, made>>

\* A direct debit account has no activity yet.
DashboardActivity ==
    /\ page.shows # "waiting"
    /\ \E period \in Periods :
          page' = [Nothing EXCEPT !.shows = IF account = "card" THEN "waiting"
                                            ELSE "noActivity",
                                  !.period = period, !.asked = now]
    /\ Unmoved

SummaryFound ==
    /\ page.shows = "waiting"
    /\ LET inPeriod == {x \in made : /\ FromDateTime(page) <= x.at
                                     /\ x.at < ToDateTime(page)}
       IN  page' = [page EXCEPT !.shows = "activity",
                                !.counted = {x \in inPeriod : x.succeeded},
                                !.open = {x \in inPeriod : ~x.succeeded}]
    /\ Unmoved

\* Each request has a client of its own.
SummaryFails ==
    /\ page.shows = "waiting"
    /\ page' = [page EXCEPT !.shows = "noActivity"]
    /\ Unmoved

FollowLink ==
    /\ page.shows = "activity"
    /\ \E link \in Links :
          page' = [page EXCEPT !.shows = "list", !.link = link,
                     !.listed = {x \in made :
                         /\ FromDateTime(page) <= x.at /\ x.at < ListTo(page)
                         /\ \/ Searched(link) = {}
                            \/ x.succeeded /\ x.kind \in Searched(link)}]
    /\ Unmoved

-----------------------------------------------------------------------------
(* The users of the service, and time                                      *)

Make == /\ Cardinality(made) < MaxMade
        /\ \E kind \in {"payment", "refund"} :
              made' = made \cup {[kind |-> kind, at |-> now, succeeded |-> FALSE]}
        /\ UNCHANGED <<account, statuses, now, page>>

Succeed == /\ \E x \in made :
                 /\ ~x.succeeded
                 /\ made' = (made \ {x}) \cup {[x EXCEPT !.succeeded = TRUE]}
           /\ UNCHANGED <<account, statuses, now, page>>

Tick == /\ now < End
        /\ now' = now + 1
        /\ UNCHANGED <<account, statuses, made, page>>

Connector == SummaryFound \/ SummaryFails

Next == DashboardActivity \/ Connector \/ FollowLink \/ Make \/ Succeed \/ Tick

\* Connector answers every call: the client itself waits without limit.
Spec == Init /\ [][Next]_vars /\ WF_vars(Connector)

-----------------------------------------------------------------------------
(* Properties                                                              *)

\* What a number counts.
Due == {x \in page.counted : x.kind \in page.link}

\* The list behind a number has the transactions that were counted, whatever
\* was made meanwhile and however late it is opened.  With the old statuses it
\* has no others but those of the very second the period ends and those that
\* have succeeded since.  With the new ones the list knows no state of the
\* links (views/dashboard/_activity.njk:24, filters.js:22) and has all of the
\* period.
LinkListsWhatIsCounted ==
    page.shows = "list" =>
        /\ Due \subseteq page.listed
        /\ statuses = "old" =>
              \A x \in page.listed \ Due :
                  x.at = ToDateTime(page) \/ Unfinished(x) \in page.open

\* Every request is answered: no tab waits for ever.
Answered == []<>(page.shows # "waiting")
=============================================================================
