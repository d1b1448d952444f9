-------------------------- MODULE TransactionExport --------------------------
(***************************************************************************)
(* The file of all transactions that match a filter.                       *)
(*                                                                         *)
(* It is put together from pages that are counted from the newest          *)
(* transaction, while payments arrive and change their state.              *)
(***************************************************************************)
EXTENDS Naturals, Sequences, FiniteSets, SequencesExt

CONSTANTS
    MaxTransactions,    \* bounds how many transactions there are
    PageSize,           \* 500 in the code
    Limit               \* CSV_MAX_LIMIT: the link is shown up to that many

ExportAssumption ==
    MaxTransactions \in Nat /\ PageSize \in Nat \ {0} /\ Limit \in Nat

\* A transaction is its number in the order in which they are made.
Transactions == 1 .. MaxTransactions

VARIABLES
    made,        \* connector: how many transactions there are
    matching,    \* connector: the ones that match the filter
    export,      \* the download under way
    \* Ghosts, for the properties only.
    wanted,      \* the ones that have matched since the download began
    lost         \* whether one has stopped matching since

vars == <<made, matching, export, wanted, lost>>

Export == [pc : {"none", "link", "search", "done"}, page : Nat,
           results : Seq(Transactions)]

TypeOK == /\ made \in 0 .. MaxTransactions
          /\ matching \subseteq 1 .. made
          /\ wanted \subseteq matching /\ lost \in BOOLEAN
          /\ export \in Export
          /\ export.pc \in {"search", "done"} => export.page > 0

Init == /\ made = 0 /\ matching = {}
        /\ export = [pc |-> "none", page |-> 0, results |-> <<>>]
        /\ wanted = {} /\ lost = FALSE

-----------------------------------------------------------------------------
\* How many match from the newest one down to t.
Rank(t) == Cardinality({u \in matching : u >= t})

\* The ones that match, the newest first.
Found == [n \in 1 .. Cardinality(matching) |->
             CHOOSE t \in matching : Rank(t) = n]

\* The page of a search, and whether it links to a next one.
PageOf(n) == LET upTo(k) == Min({k, Len(Found)}) IN
             SubSeq(Found, upTo((n - 1) * PageSize) + 1, upTo(n * PageSize))

HasNext(n) == n * PageSize < Len(Found)

Arrive ==
    /\ made < MaxTransactions
    /\ made' = made + 1
    /\ matching' \in {matching, matching \cup {made'}}
    /\ UNCHANGED <<export, wanted, lost>>

\* A payment changes its state and with it whether it matches.
Change(t) ==
    /\ matching' = IF t \in matching THEN matching \ {t} ELSE matching \cup {t}
    /\ wanted' = wanted \ {t}
    /\ lost' = (lost \/ t \in matching)
    /\ UNCHANGED <<made, export>>

\* The list offers the download when it is not too long.
List ==
    /\ export.pc = "none"
    /\ Found # <<>> /\ Len(Found) <= Limit
    /\ export' = [export EXCEPT !.pc = "link"]
    /\ UNCHANGED <<made, matching, wanted, lost>>

\* (from the page before the first)
DownloadFromZero ==
    /\ export.pc = "link"
    /\ export' = [pc |-> "search", page |-> 0, results |-> <<>>]
    /\ wanted' = matching /\ lost' = FALSE
    /\ UNCHANGED <<made, matching>>

\* The download searches with the filter of the link, from the first page.
Download ==
    /\ export.pc = "link"
    /\ export' = [pc |-> "search", page |-> 1, results |-> <<>>]
    /\ wanted' = matching /\ lost' = FALSE
    /\ UNCHANGED <<made, matching>>

\* (with the pages the other way round)
FetchPageBefore ==
    /\ export.pc = "search"
    /\ export' = [export EXCEPT
                     !.results = PageOf(export.page) \o @,
                     !.page = @ + 1,
                     !.pc = IF HasNext(export.page) THEN "search" ELSE "done"]
    /\ UNCHANGED <<made, matching, wanted, lost>>

\* (with the full pages only)
FetchPageFull ==
    /\ export.pc = "search"
    /\ export' = [export EXCEPT
                     !.results = IF HasNext(export.page)
                                 THEN @ \o PageOf(export.page) ELSE @,
                     !.page = @ + 1,
                     !.pc = IF HasNext(export.page) THEN "search" ELSE "done"]
    /\ UNCHANGED <<made, matching, wanted, lost>>

\* (with the same page again, in its place)
FetchPageAgain ==
    /\ export.pc = "search"
    /\ export' = [export EXCEPT
                     !.results = PageOf(export.page),
                     !.pc = IF HasNext(export.page) THEN "search" ELSE "done"]
    /\ UNCHANGED <<made, matching, wanted, lost>>

\* A page arrives; the one it links to is asked for.
FetchPage ==
    /\ export.pc = "search"
    /\ export' = [export EXCEPT
                     !.results = @ \o PageOf(export.page),
                     !.page = @ + 1,
                     !.pc = IF HasNext(export.page) THEN "search" ELSE "done"]
    /\ UNCHANGED <<made, matching, wanted, lost>>

Next == Arrive \/ (\E t \in 1 .. made : Change(t))
            \/ List \/ Download \/ FetchPage

Spec == Init /\ [][Next]_vars /\ WF_vars(FetchPage)

-----------------------------------------------------------------------------
(* Properties                                                              *)

\* Whatever arrives while the pages are fetched, the file has every
\* transaction that matched all along, unless one stopped matching and moved
\* the ones behind it past the page being fetched (connector_client.js:177).
NothingLeftOut ==
    export.pc = "done" /\ ~lost => wanted \subseteq Range(export.results)

\* Arrivals may put a transaction into the file twice; the file is otherwise
\* in the order of the list: of any two that matched all along, the newer one
\* comes first where they first appear (connector_client.js:180).
InOrder ==
    ~lost =>
        \A t \in wanted, i \in DOMAIN export.results :
            export.results[i] \in wanted /\ export.results[i] < t =>
                \E j \in 1 .. i - 1 : export.results[j] = t

\* The download ends (transactions are finitely many).
Ends == export.pc = "search" ~> export.pc = "done"
=============================================================================
