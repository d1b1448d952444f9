-------------------------- MODULE TransactionLists --------------------------
(***************************************************************************)
(* Listing and downloading transactions, in one worker of the portal.      *)
(*                                                                         *)
(* Two connector clients live as long as the worker: the one of            *)
(* transaction_service, whose listeners settle promises, and the one of    *)
(* transaction_list_controller, whose listeners answer requests directly.  *)
(* A listener is never taken off, and answering a request twice throws in  *)
(* a callback, which ends the worker with all that it was doing; throng    *)
(* then forks another.                                                     *)
(***************************************************************************)
EXTENDS Naturals, Sequences, SequencesExt

CONSTANTS
    Lists, Downloads,   \* the requests that are ever sent
    MaxPages            \* how many pages a download may have

Requests == Lists \cup Downloads

ListsAssumption == Lists \cap Downloads = {} /\ MaxPages \in Nat \ {0}

VARIABLES
    request,     \* each request: its call, and what became of it
    listeners    \* the lists that listen on the client of the controller,
                 \* in the order in which they came

vars == <<request, listeners>>

Fates == {"unsent", "waiting", "shown", "error", "lost"}

Request == [call : {"none", "search", "cardTypes"}, fate : Fates,
            promised : BOOLEAN,    \* its promise is not settled yet
            page : 0 .. MaxPages]

TypeOK == /\ request \in [Requests -> Request]
          /\ listeners \in Seq(Lists)

Unsent == [call |-> "none", fate |-> "unsent", promised |-> FALSE, page |-> 0]

Init == /\ request = [r \in Requests |-> Unsent]
        /\ listeners = <<>>

-----------------------------------------------------------------------------
(* Answers                                                                 *)

Answered(r) == request[r].fate \in {"shown", "error"}

Idle(r, fate) ==
    [request[r] EXCEPT !.call = "none", !.fate = fate, !.promised = FALSE]

\* (without the answer)
RejectSilently(r) == [request[r] EXCEPT !.promised = FALSE]

\* The promise of r is settled, if it was not: its request is answered.
Reject(r) ==
    IF request[r].promised
    THEN [request[r] EXCEPT !.promised = FALSE, !.fate = "error"]
    ELSE request[r]

\* The worker ends: nobody hears of what it was doing.
Dies(answered) ==
    /\ request' = [r \in Requests |->
                      IF r \in answered THEN Idle(r, "error")
                      ELSE IF request[r].fate = "waiting" THEN Idle(r, "lost")
                      ELSE Idle(r, request[r].fate)]
    /\ listeners' = <<>>

-----------------------------------------------------------------------------
(* Requests                                                                *)

\* A filter that is not valid is answered at once.
InvalidSearch(r) ==
    /\ request[r].fate = "unsent" /\ r \in Lists
    /\ request' = [request EXCEPT ![r].fate = "error"]
    /\ UNCHANGED listeners

Search(r) ==
    /\ request[r].fate = "unsent"
    /\ request' = [request EXCEPT ![r] =
                      [call |-> "search", fate |-> "waiting",
                       promised |-> TRUE, page |-> 0]]
    /\ UNCHANGED listeners

\* A list goes on to the card types; its listener is added with the call.
SearchFound(r) ==
    /\ r \in Lists /\ request[r].call = "search"
    /\ IF request[r].promised
       THEN /\ request' = [request EXCEPT ![r].call = "cardTypes",
                                          ![r].promised = FALSE]
            /\ listeners' = Append(listeners, r)
       ELSE /\ request' = [request EXCEPT ![r].call = "none"]
            /\ UNCHANGED listeners

\* 202 is no failure for the client, but it is for search().
SearchAccepted(r) ==
    /\ r \in Lists /\ request[r].call = "search"
    /\ request' = [request EXCEPT ![r] = [Reject(r) EXCEPT !.call = "none"]]
    /\ UNCHANGED listeners

\* (without an end)
PageFoundForever(r) ==
    /\ r \in Downloads /\ request[r].call = "search"
    /\ request' = [request EXCEPT ![r].page = @ + 1]
    /\ UNCHANGED listeners

\* (with a link back to the first page)
PageFoundAround(r) ==
    /\ r \in Downloads /\ request[r].call = "search"
    /\ request' = [request EXCEPT ![r].page = (@ + 1) % MaxPages]
    /\ UNCHANGED listeners

\* A page of a download; its next one is asked for even if the download has
\* been settled by another request's failure.
PageFound(r) ==
    /\ r \in Downloads /\ request[r].call = "search"
    /\ \/ /\ request[r].page + 1 < MaxPages
          /\ request' = [request EXCEPT ![r].page = @ + 1]
       \/ request' = [request EXCEPT
                        ![r] = Idle(r, IF @.promised THEN "shown" ELSE @.fate)]
    /\ UNCHANGED listeners

\* Every promise there is hears of a search that fails.
SearchFails(r) ==
    /\ request[r].call = "search"
    /\ request' = [[q \in Requests |-> Reject(q)] EXCEPT ![r].call = "none"]
    /\ UNCHANGED listeners

\* The list is rendered; if it had been answered by another one's failure
\* the second answer throws.
CardTypesFound(r) ==
    /\ request[r].call = "cardTypes"
    /\ IF Answered(r)
       THEN Dies({})
       ELSE /\ request' = [request EXCEPT ![r] = Idle(r, "shown")]
            /\ UNCHANGED listeners

\* The listeners that are called before one throws.
Heard == LET first == SelectInSeq(listeners, Answered) IN
         IF first = 0 THEN listeners ELSE SubSeq(listeners, 1, first - 1)

\* The listeners answer in their order, until one has been answered before.
CardTypesFail(r) ==
    /\ request[r].call = "cardTypes"
    /\ IF \E q \in Range(listeners) : Answered(q)
       THEN Dies(Range(Heard))
       ELSE /\ request' = [q \in Requests |->
                  IF q \in Range(Heard)
                  THEN [request[q] EXCEPT !.fate = "error",
                           !.call = IF q = r THEN "none" ELSE @]
                  ELSE request[q]]
            /\ UNCHANGED listeners

-----------------------------------------------------------------------------
Connector(r) ==
    \/ SearchFound(r) \/ SearchAccepted(r) \/ PageFound(r) \/ SearchFails(r)
    \/ CardTypesFound(r) \/ CardTypesFail(r)

Next == \E r \in Requests : Search(r) \/ InvalidSearch(r) \/ Connector(r)

\* Connector answers every call or its connection breaks.
Spec == /\ Init /\ [][Next]_vars
        /\ \A r \in Requests : WF_vars(Connector(r))

-----------------------------------------------------------------------------
(* Properties                                                              *)

Waits(r) == request[r].fate = "waiting"

\* Nothing waits forever: a request is answered by its own calls, by the
\* failure of another one, or goes down with its worker.
SomethingHappens == \A r \in Requests : Waits(r) ~> ~Waits(r)

\* No one waits without a call of one's own under way: who has been settled
\* is answered, whatever the order in which searches and card types fail.
WaitingHasACall ==
    \A r \in Requests : Waits(r) => request[r].call # "none"

\* Whatever fails, the one who asks for a list or a file gets a page
\* (transaction_list_controller.js:70, 72).
EveryErrorIsShown == \A r \in Requests : Waits(r) ~> Answered(r)
=============================================================================
