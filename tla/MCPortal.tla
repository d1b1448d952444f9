------------------------------- MODULE MCPortal -------------------------------
(***************************************************************************)
(* Values for TLC of the constants of Portal.                              *)
(***************************************************************************)
EXTENDS Portal

\* A pound: after two of them there is not a third left.
SomeAmounts == {<<1, 0>>}

\* Kinds of products are made one at a time; they do not meet.
EachKind == {{"ADHOC"}, {"DEMO"}, {"PROTOTYPE"}}

\* A service with two accounts, and one that the user may only look at.
TwoServices == <<<<"a1", "a2">>, <<"b1">>>>
AdminAndViewer == <<"admin", "view">>

\* A brand of credit and debit cards, and one that needs 3D Secure.
SomeCards == {[brand |-> "visa", type |-> "CREDIT", requires3ds |-> FALSE],
              [brand |-> "visa", type |-> "DEBIT", requires3ds |-> FALSE],
              [brand |-> "maestro", type |-> "DEBIT", requires3ds |-> TRUE]}

\* Today is the day of Start - 1: the seconds around the start of a week, and
\* the first and the last of yesterday.
AroundPeriods == {Start - 26, Start - 25, Start - 4, Start - 2}
=============================================================================
