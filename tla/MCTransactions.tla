--------------------------- MODULE MCTransactions ---------------------------
(***************************************************************************)
(* Instances for TLC of the four modules about transactions.  They share   *)
(* no state: in a behaviour one of them, the scene, is played.             *)
(***************************************************************************)
EXTENDS Naturals, Sequences, FiniteSets

CONSTANTS
    Scenes,
    Lists, Downloads, MaxPages,
    MaxTransactions, PageSize, Limit,
    SmallPageSize, LargePageSize, Sizes, Spread, MaxTotal,
    Tabs, Emails, AnyEmail, Choices

VARIABLES
    scene,
    request, listeners,
    made, matching, export, wanted, lost,
    total, limit, page, shown,
    address, session, asked, askedLast

L == INSTANCE TransactionLists
E == INSTANCE TransactionExport
P == INSTANCE TransactionPages
F == INSTANCE TransactionSearch

ASSUME ConstantsAssumption ==
    /\ L!ListsAssumption /\ E!ExportAssumption /\ P!PagesAssumption

listsVars == <<request, listeners>>
exportVars == <<made, matching, export, wanted, lost>>
pagesVars == <<total, limit, page, shown>>
searchVars == <<address, session, asked, askedLast>>

vars == <<scene, listsVars, exportVars, pagesVars, searchVars>>

Init == /\ scene \in Scenes
        /\ L!Init /\ E!Init /\ F!Init
        /\ IF scene = "pages" THEN P!Init
           ELSE total = 0 /\ limit = SmallPageSize /\ page = 1 /\ shown = 0

ListsOnly == /\ scene = "lists"
             /\ UNCHANGED <<scene, exportVars, pagesVars, searchVars>>

ExportOnly == /\ scene = "export"
              /\ UNCHANGED <<scene, listsVars, pagesVars, searchVars>>

PagesOnly == /\ scene = "pages"
             /\ UNCHANGED <<scene, listsVars, exportVars, searchVars>>

SearchOnly == /\ scene = "search"
              /\ UNCHANGED <<scene, listsVars, exportVars, pagesVars>>

Next == \/ ListsOnly /\ L!Next
        \/ ExportOnly /\ E!Next
        \/ PagesOnly /\ P!Next
        \/ SearchOnly /\ F!Next

Spec == /\ Init /\ [][Next]_vars
        /\ \A r \in Lists \cup Downloads :
              WF_vars(ListsOnly /\ L!Connector(r))
        /\ WF_vars(ExportOnly /\ E!FetchPage)

-----------------------------------------------------------------------------
(* The properties of the four modules, each stated and explained there.    *)

\* The types of all variables.
TypeOK == /\ scene \in Scenes
          /\ L!TypeOK /\ E!TypeOK /\ P!TypeOK
          /\ scene = "search" => F!TypeOK

\* A request that waits has a call of its own under way.
WaitingHasACall == scene = "lists" => L!WaitingHasACall
\* No request waits forever.
SomethingHappens == L!SomethingHappens
\* Whatever fails, every request is answered.
EveryErrorIsShown == L!EveryErrorIsShown

\* What matched all along is in the file.
NothingLeftOut == scene = "export" => E!NothingLeftOut
\* The file is in the order of the list.
InOrder == scene = "export" => E!InOrder
\* The download ends.
Ends == E!Ends

\* No link leads past the last page.
LinksLeadToTransactions == P!LinksLeadToTransactions
\* The links of a page are the ones to its neighbours and to both ends.
LinksAreRight == scene = "pages" => P!LinksAreRight

\* A list has every transaction that was asked for.
NothingHidden == scene = "search" => F!NothingHidden
\* The links of a list keep its filter.
LinksKeepFilter == scene = "search" => F!LinksKeepFilter
=============================================================================
