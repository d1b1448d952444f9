-------------------------- MODULE TransactionPages --------------------------
(***************************************************************************)
(* The pages of a list of transactions, and the links between them.        *)
(*                                                                         *)
(* The user follows the links of utils/paginator.js from page to page and  *)
(* changes how many transactions a page shows, while payments arrive and   *)
(* others stop matching the filter.                                        *)
(***************************************************************************)
EXTENDS Naturals, Integers, Sequences, FiniteSetsExt, SequencesExt

CONSTANTS
    SmallPageSize, LargePageSize,   \* 100 and 500 in the code
    Sizes,                          \* the page sizes of hand-written links
    Spread,                         \* PAGINATION_SPREAD
    MaxTotal                        \* bounds the number of transactions

PagesAssumption ==
    /\ SmallPageSize \in Nat \ {0} /\ LargePageSize \in Nat
    /\ SmallPageSize < LargePageSize
    /\ Sizes \subseteq 1 .. LargePageSize
    /\ Spread \in Nat /\ MaxTotal \in Nat

VARIABLES
    total,    \* connector: the number of transactions that match
    limit,    \* the page size of the list shown
    page,     \* its page number
    shown     \* the number of transactions when it was shown

vars == <<total, limit, page, shown>>

\* Page numbers are positive, page sizes between 1 and the largest.
ValidFilters(pageSize, pageNumber) ==
    pageSize \in 1 .. LargePageSize /\ pageNumber \in Nat \ {0}

TypeOK == /\ total \in 0 .. MaxTotal /\ shown \in 0 .. MaxTotal
          /\ ValidFilters(limit, page)

-----------------------------------------------------------------------------
(* utils/paginator.js                                                      *)

FirstPage == 1

\* Rounded up.
LastPage == (shown + limit - 1) \div limit

\* (without the lower limit)
PageByOffsetBelow(offset) == Min({page + offset, LastPage})

\* A page relative to the one shown, within the limits.
PageByOffset(offset) == Min({Max({page + offset, FirstPage}), LastPage})

PageObject(number, name) ==
    [number |-> number, name |-> name, active |-> FALSE]

CentredRange ==
    LET start == PageByOffset(-Spread) IN
    [i \in 1 .. PageByOffset(Spread) - start + 1 |-> start + i - 1]

NamedPagesInRange ==
    [i \in DOMAIN CentredRange |->
        [PageObject(CentredRange[i], "number") EXCEPT
            !.active = CentredRange[i] = page]]

\* A sequence of one, when it is there.
Optional(condition, number, name) ==
    IF condition THEN <<PageObject(number, name)>> ELSE <<>>

\* What is next to the page shown, which is itself at either end.
Adjacent(offset) == PageByOffset(offset)

NamedCentredRange ==
    Optional(FirstPage \notin Range(CentredRange), FirstPage, "first")
    \o Optional(Adjacent(-1) # page, Adjacent(-1), "previous")
    \o NamedPagesInRange
    \o Optional(Adjacent(1) # page, Adjacent(1), "next")
    \o Optional(LastPage \notin Range(CentredRange), LastPage, "last")

\* There are links when there is more than one page.
PaginationLinks ==
    IF shown > 0 /\ LastPage > 1 THEN NamedCentredRange ELSE <<>>

\* The sizes to choose from, one of which may be called "Show all".
DisplaySizeOptions ==
    {SmallPageSize}
        \cup (IF shown < SmallPageSize THEN {} ELSE {LargePageSize})

ShowDisplaySizeLinks == shown > SmallPageSize \/ shown > limit

-----------------------------------------------------------------------------
(* The user                                                                *)

\* A list is asked for: without a page size it has the small one.
Init == /\ total \in 0 .. MaxTotal
        /\ limit \in Sizes \cup {SmallPageSize}
        /\ page = 1 /\ shown = total

Arrive ==
    /\ total < MaxTotal
    /\ total' = total + 1
    /\ UNCHANGED <<limit, page, shown>>

Follow ==
    /\ \E i \in DOMAIN PaginationLinks : page' = PaginationLinks[i].number
    /\ shown' = total
    /\ UNCHANGED <<total, limit>>

\* (with the page left as it is)
ChangeSizeOnly ==
    /\ ShowDisplaySizeLinks
    /\ limit' \in DisplaySizeOptions
    /\ shown' = total
    /\ UNCHANGED <<total, page>>

\* The forms of the page sizes carry page 1.
ChangeSize ==
    /\ ShowDisplaySizeLinks
    /\ limit' \in DisplaySizeOptions
    /\ page' = 1
    /\ shown' = total
    /\ UNCHANGED total

\* A payment changes its state and no longer matches the filter.
Leave ==
    /\ total > 0
    /\ total' = total - 1
    /\ UNCHANGED <<limit, page, shown>>

Next == Arrive \/ Leave \/ Follow \/ ChangeSize

Spec == Init /\ [][Next]_vars

-----------------------------------------------------------------------------
(* Properties                                                              *)

\* Whatever links are followed and sizes chosen, a link leads to the first
\* page or to one that had transactions when the link was made
\* (paginator.js:90, display_size.njk:12).
LinksLeadToTransactions ==
    [][<<limit, page>>' # <<limit, page>> =>
          page' = 1 \/ (page' - 1) * limit' < shown]_vars

\* On a page that has transactions,
\* the numbers are the pages within Spread of the one shown and no others, in
\* order, with that one active; one step leads to either neighbour and to
\* either end, if there is one, and no two links to the ends and neighbours
\* lead back to the page shown (the comment at paginator.js:126).
LinksAreRight ==
    LET links == PaginationLinks
        at(name) == {i \in DOMAIN links : links[i].name = name}
        to(name) == {links[i].number : i \in at(name)}
        pages == 1 .. ((shown - 1) \div limit + 1)
        near == {p \in pages : p - page \in -Spread .. Spread}
    IN  Len(links) > 0 /\ page \in pages =>
        /\ to("number") = near
        /\ \A i \in at("number") :
              /\ links[i].active <=> links[i].number = page
              /\ \A j \in at("number") :
                    i < j => links[i].number < links[j].number
        /\ to("previous") = {page - 1} \cap pages
        /\ to("next") = {page + 1} \cap pages
        /\ to("first") = {1} \ near
        /\ to("last") = {Max(pages)} \ near
=============================================================================
