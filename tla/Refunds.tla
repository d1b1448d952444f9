------------------------------- MODULE Refunds -------------------------------
(***************************************************************************)
(* The page of a transaction and the refunds sent from it.                 *)
(*                                                                         *)
(* The page carries the amount that was available when it was read, and a  *)
(* refund sends that amount back: connector refuses it when the amount has *)
(* changed, which is all that keeps two tabs, or a request that is sent    *)
(* again, from refunding twice.                                            *)
(*                                                                         *)
(* models/charge.js has one connector client for the whole process.  Every *)
(* request hangs its error listener on it and none is ever taken off, so   *)
(* the failure of one call settles every request that waits at that time.  *)
(***************************************************************************)
EXTENDS Integers, FiniteSets, FiniteSetsExt

CONSTANTS
    Tabs,            \* browser tabs of the users of the portal
    Charges, NoCharge,
    Paid,            \* what each charge was paid, in pence
    Typed, Full,     \* the amounts typed, <<pounds, pence>>, or "full"
    MaxAttempts,     \* how often the client sends a call
    MaxRefunds,      \* bound: no page is opened, no refund sent after so many
    GatewayErrors    \* whether a submitted refund may fail at the gateway

RefundsAssumption ==
    /\ NoCharge \notin Charges
    /\ Paid \in Nat
    /\ Typed \subseteq (Nat \X (0 .. 99)) /\ Full \notin Typed
    /\ MaxAttempts \in Nat \ {0} /\ MaxRefunds \in Nat
    /\ GatewayErrors \in BOOLEAN

VARIABLES
    refunds,    \* connector: the refunds of all charges
    tab         \* what each tab shows, and its call

vars == <<refunds, tab>>

-----------------------------------------------------------------------------
\* id: connector's own; by: who made it; seen: the available amount of its page.
Refund ==
    [id : Nat, by : Tabs, charge : Charges, amount : Nat,
     seen : Nat, state : {"submitted", "success", "error"}]

Waiting == {"loading", "submitting"}
Shows == Waiting \cup {"closed", "open", "invalid", "notFound", "error",
                       "success", "repeat", "amount", "failed"}

\* A call goes on after its request was settled by another one's failure.
Calls == {"none", "getCharge", "getEvents", "getUsers", "postRefund"}

\* read: the available amount in the data of the page; ofCharge: ghost, the
\* number of refunds the charge had then.
Tab == [shows : Shows, call : Calls, attempt : 1 .. MaxAttempts,
        charge : Charges \cup {NoCharge}, read : Nat, ofCharge : Nat,
        typed : Typed \cup {Full}, amount : Nat]

TypeOK == /\ refunds \subseteq Refund
          /\ tab \in [Tabs -> Tab]

Closed == [shows |-> "closed", call |-> "none", attempt |-> 1,
           charge |-> NoCharge, read |-> 0, ofCharge |-> 0,
           typed |-> Full, amount |-> 0]

Init == /\ refunds = {}
        /\ tab = [t \in Tabs |-> Closed]

-----------------------------------------------------------------------------
(* The amounts                                                             *)

RefundsOf(c) == {r \in refunds : r.charge = c}

AmountOf(r) == r.amount

\* The refund_summary of connector: what failed at the gateway is available.
Available(c) ==
    Paid - MapThenSumSet(AmountOf,
                         {r \in RefundsOf(c) : r.state # "error"})

\* The amount the page shows, and sends back for a full refund.
NetAmount(pence) == <<pence \div 100, pence % 100>>

\* (without the pence)
RefundAmountInPounds(money) == money[1] * 100

\* The amount in pence of what was typed.
RefundAmount(money) == money[1] * 100 + money[2]

\* What a tab asks for.
Chosen(t, typed) ==
    RefundAmount(IF typed = Full THEN NetAmount(tab[t].read) ELSE typed)

-----------------------------------------------------------------------------
(* The shared client                                                       *)

\* The ways a call can fail, besides being refused.
Breakdowns == {"notFound", "status", "network"}

\* (without the answer to a charge that is not found)
ShowsOfPageFound(failure) == IF failure = "notFound" THEN "loading" ELSE "error"

ShowsOfPage(failure) == IF failure = "notFound" THEN "notFound" ELSE "error"

\* (with a repeated refund taken for a success)
ShowsOfRefundRepeated(failure) ==
    IF failure = "repeat" THEN "success" ELSE "failed"

ShowsOfRefund(failure) ==
    IF failure \in {"repeat", "amount"} THEN failure ELSE "failed"

\* Every request that waits has its listener on the client.
Emit(failure) ==
    [u \in Tabs |->
        CASE tab[u].shows = "loading" ->
                [tab[u] EXCEPT !.shows = ShowsOfPage(failure)]
          [] tab[u].shows = "submitting" ->
                [tab[u] EXCEPT !.shows = ShowsOfRefund(failure)]
          [] OTHER -> tab[u]]

\* The call of t ends in a failure that everybody hears of.
Fail(t, failure) ==
    tab' = [Emit(failure) EXCEPT ![t].call = "none", ![t].attempt = 1]

\* The result of the last call of a request that may have been settled.
Settle(t, shows) ==
    IF tab[t].shows \in Waiting THEN shows ELSE tab[t].shows

-----------------------------------------------------------------------------
(* The page                                                                *)

\* A tab has one request under way, and may be opened at any time else: the
\* page is read again after every refund, and whenever it is reloaded.  One
\* settled by another's failure is opened again once its own call has ended.
Open(t, c) ==
    /\ tab[t].shows \notin Waiting /\ tab[t].call = "none"
    /\ Cardinality(refunds) < MaxRefunds
    /\ tab' = [tab EXCEPT ![t] = [Closed EXCEPT !.shows = "loading",
                                                !.call = "getCharge",
                                                !.charge = c]]
    /\ UNCHANGED refunds

GetCharge(t) ==
    /\ tab[t].call = "getCharge"
    /\ tab' = [tab EXCEPT ![t].call = "getEvents",
                          ![t].read = Available(tab[t].charge),
                          ![t].ofCharge =
                              Cardinality(RefundsOf(tab[t].charge))]
    /\ UNCHANGED refunds

\* The events of a refund name the user who submitted it.
GetEvents(t) ==
    /\ tab[t].call = "getEvents"
    /\ tab' = IF RefundsOf(tab[t].charge) = {}
              THEN [tab EXCEPT ![t].call = "none",
                               ![t].shows = Settle(t, "open")]
              ELSE [tab EXCEPT ![t].call = "getUsers"]
    /\ UNCHANGED refunds

GetUsers(t) ==
    /\ tab[t].call = "getUsers"
    /\ tab' = [tab EXCEPT ![t].call = "none",
                          ![t].shows = Settle(t, "open")]
    /\ UNCHANGED refunds

\* adminusers has a client per call: its failures are heard by t alone.
GetUsersFails(t) ==
    /\ tab[t].call = "getUsers"
    /\ \E failure \in Breakdowns :
          tab' = [tab EXCEPT ![t].call = "none",
                             ![t].shows = Settle(t, ShowsOfPage(failure))]
    /\ UNCHANGED refunds

ReadFails(t) ==
    /\ tab[t].call \in {"getCharge", "getEvents"}
    /\ \E failure \in Breakdowns : Fail(t, failure)
    /\ UNCHANGED refunds

-----------------------------------------------------------------------------
(* The refund                                                              *)

\* The form is shown when there is something to refund.
Submit(t) ==
    /\ tab[t].shows = "open"
    /\ tab[t].read > 0
    /\ Cardinality(refunds) < MaxRefunds
    /\ \E typed \in Typed \cup {Full} :
          tab' = [tab EXCEPT ![t].shows = "submitting",
                             ![t].call = "postRefund",
                             ![t].typed = typed,
                             ![t].amount = Chosen(t, typed)]
    /\ UNCHANGED refunds

\* The typed text is not an amount: no call is made.
SubmitInvalid(t) ==
    /\ tab[t].shows = "open"
    /\ tab[t].read > 0
    /\ tab' = [tab EXCEPT ![t].shows = "invalid"]
    /\ UNCHANGED refunds

\* (with the amount available now instead of the page's)
PayloadReadAnew(t) ==
    [amount |-> tab[t].amount,
     refund_amount_available |-> Available(tab[t].charge)]

\* The payload of the call.
Payload(t) == [amount |-> tab[t].amount, refund_amount_available |-> tab[t].read]

\* What connector answers to it.
Verdict(t) ==
    LET available == Available(tab[t].charge) IN
    IF available = 0 \/ available # Payload(t).refund_amount_available
    THEN "repeat"
    ELSE IF Payload(t).amount \notin 1 .. available THEN "amount" ELSE "accepted"

Accept(t) ==
    refunds' = refunds \cup
        {[id |-> Cardinality(refunds), by |-> t, charge |-> tab[t].charge,
          amount |-> Payload(t).amount,
          seen |-> tab[t].read,
          state |-> "submitted"]}

Refunded(t) ==
    /\ tab[t].call = "postRefund" /\ Verdict(t) = "accepted"
    /\ Accept(t)
    /\ tab' = [tab EXCEPT ![t].call = "none",
                          ![t].attempt = 1,
                          ![t].shows = Settle(t, "success")]

Refused(t) ==
    /\ tab[t].call = "postRefund" /\ Verdict(t) # "accepted"
    /\ Fail(t, Verdict(t))
    /\ UNCHANGED refunds

\* The call is lost on its way there, or breaks down.
RefundFails(t) ==
    /\ tab[t].call = "postRefund"
    /\ \E failure \in Breakdowns : Fail(t, failure)
    /\ UNCHANGED refunds

\* The refund is made but the answer is lost and the call is not sent again.
RefundedUnheard(t) ==
    /\ tab[t].call = "postRefund" /\ Verdict(t) = "accepted"
    /\ Accept(t)
    /\ Fail(t, "network")

\* (without a bound)
SendAgainForever(t) ==
    /\ tab[t].call = "postRefund"
    /\ UNCHANGED refunds
    /\ tab' = [tab EXCEPT ![t].attempt = @ + 1]

\* The connection is reset before or after the call was served, and the
\* client sends it again.
SendAgain(t) ==
    /\ tab[t].call = "postRefund" /\ tab[t].attempt < MaxAttempts
    /\ \/ UNCHANGED refunds
       \/ Verdict(t) = "accepted" /\ Accept(t)
    /\ tab' = [tab EXCEPT ![t].attempt = @ + 1]

\* The payment provider settles a refund, or fails to.
GatewaySettles ==
    \E r \in refunds, state \in {"success", "error"} :
        /\ r.state = "submitted"
        /\ state = "error" => GatewayErrors
        /\ refunds' = (refunds \ {r}) \cup {[r EXCEPT !.state = state]}
        /\ UNCHANGED tab

-----------------------------------------------------------------------------
ReadAnswered(t) ==
    GetCharge(t) \/ GetEvents(t) \/ GetUsers(t) \/ GetUsersFails(t)
        \/ ReadFails(t)

RefundAnswered(t) ==
    Refunded(t) \/ Refused(t) \/ RefundFails(t) \/ RefundedUnheard(t)

Next == \/ \E t \in Tabs : \/ \E c \in Charges : Open(t, c)
                           \/ Submit(t) \/ SubmitInvalid(t)
                           \/ ReadAnswered(t) \/ RefundAnswered(t)
                           \/ SendAgain(t)
        \/ GatewaySettles

\* The back ends answer every call, sent MaxAttempts times at most: the clients
\* themselves wait without limit.
Spec == Init /\ [][Next]_vars
             /\ \A t \in Tabs : /\ WF_vars(ReadAnswered(t))
                                /\ WF_vars(RefundAnswered(t))

-----------------------------------------------------------------------------
(* Properties                                                              *)

FailedAtGateway(c) == \E r \in RefundsOf(c) : r.state = "error"

\* From one reading of the available amount at most one refund is made,
\* however many tabs send it and however often the client sends it again, as
\* long as no refund of the charge fails (charge.js carries
\* refund_amount_available from the page to connector).
OneRefundPerReading ==
    \A r1, r2 \in refunds :
        /\ r1.charge = r2.charge /\ ~FailedAtGateway(r1.charge)
        /\ r1.seen = r2.seen
        => r1 = r2

\* A refund of what is chosen on the page of t, as it was read.
IsOfPage(r, t) == /\ r.by = t /\ r.charge = tab[t].charge
                  /\ r.seen = tab[t].read /\ r.amount = Chosen(t, tab[t].typed)

\* Who is told of success has a refund, of the charge and the amount chosen on
\* the page, and made since that page was read
\* (transaction_refund_controller.js:39).
SuccessIsARefund ==
    \A t \in Tabs : tab[t].shows = "success" => \E r \in refunds : IsOfPage(r, t)

\* After a full refund that succeeded nothing is left, unless a refund of the
\* charge failed: net_amount and the amount read back from it agree to the
\* penny (transaction_view.js:106, transaction_refund_controller.js:36).
FullRefundsAll ==
    \A t \in Tabs :
        /\ tab[t].shows = "success" /\ tab[t].typed = Full
        /\ ~FailedAtGateway(tab[t].charge)
        => Available(tab[t].charge) = 0

\* Every request is answered, by its own call or by another's failure.
Answered ==
    \A t \in Tabs : []<>(tab[t].shows \notin Waiting)

\* Who is told that the refund has already been submitted looks at a charge
\* that was refunded since the page was read
\* (transaction_refund_controller.js:15).
RepeatMeansSubmitted ==
    \A t \in Tabs :
        tab[t].shows = "repeat" =>
            Cardinality(RefundsOf(tab[t].charge)) > tab[t].ofCharge
=============================================================================
