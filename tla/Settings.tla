------------------------------- MODULE Settings -------------------------------
(***************************************************************************)
(* The settings of a card account that connector keeps: the cards it       *)
(* accepts, 3D Secure, and the e-mails to those who pay.                   *)
(*                                                                         *)
(* A request first reads the account and then makes its calls one after    *)
(* the other.  When the account cannot be read the request goes on without *)
(* it: most pages answer with an error, the two that list cards throw in   *)
(* the callback of their last call, which ends the worker.                 *)
(***************************************************************************)
EXTENDS Naturals, Sequences, FiniteSets

CONSTANTS
    Tabs,
    Areas,      \* bound: what is played, "cards" or "emails"
    Cards       \* all card types: records of brand, type and requires3ds

Types == {"ALL", "DEBIT"}

SettingsAssumption ==
    /\ Areas \subseteq {"cards", "emails"}
    /\ \A card \in Cards : /\ card.type \in {"CREDIT", "DEBIT"}
                           /\ card.requires3ds \in BOOLEAN

VARIABLES
    area,
    supports3ds,  \* whether the payment provider of the account has 3D Secure
    requires3ds,  \* connector: 3D Secure is on
    accepted,     \* connector: the card types accepted
    emails,       \* connector: whether e-mails are sent
    tab

vars == <<area, supports3ds, requires3ds, accepted, emails, tab>>

-----------------------------------------------------------------------------
\* The calls of each operation.
CallsOf == [selectType  |-> <<"accepted">>,
            showBrands  |-> <<"cardTypes", "accepted">>,
            showSummary |-> <<"cardTypes", "accepted">>,
            toggleIndex |-> <<"accepted">>,
            updateBrands |-> <<"cardTypes", "save">>,
            on          |-> <<"toggle">>,
            off         |-> <<"toggle">>,
            emailIndex  |-> <<"getEmail">>,
            emailOff    |-> <<"getEmail", "setEmail">>,
            emailOn     |-> <<"getEmail", "setEmail">>,
            emailUpdate |-> <<"getEmail", "setEmail">>]

Pages == {"other", "type", "brands", "threeDS", "email", "hung"}

\* left: how many calls of op; known, requires: what was read of the account;
\* type, brands: of the form; offers: the brands or buttons of the page; fresh:
\* nothing of it has been changed since the request that read it arrived.
Tab == [page : Pages, op : DOMAIN CallsOf, left : 0 .. 2,
        known : BOOLEAN, requires : BOOLEAN, type : Types,
        brands : SUBSET {card.brand : card \in Cards},
        offers : SUBSET ({card.brand : card \in Cards}
                            \cup {"on", "off", "emailOn", "emailOff"}),
        fresh : BOOLEAN]

TypeOK == /\ supports3ds \in BOOLEAN /\ requires3ds \in BOOLEAN
          /\ supports3ds \/ ~requires3ds
          /\ accepted \subseteq Cards
          /\ emails \in BOOLEAN
          /\ tab \in [Tabs -> Tab]

At(page) == [page |-> page, op |-> "selectType", left |-> 0,
             known |-> FALSE, requires |-> FALSE, type |-> "ALL",
             brands |-> {}, offers |-> {}, fresh |-> FALSE]

Init == /\ area \in Areas
        /\ supports3ds \in BOOLEAN /\ requires3ds = FALSE
        /\ accepted = {}
        /\ emails = TRUE
        /\ tab = [t \in Tabs |-> At("other")]

-----------------------------------------------------------------------------
(* The cards                                                               *)

\* inferAcceptedCardType: debit only when all that is accepted is.
AcceptedType(cards) ==
    IF cards # {} /\ \A card \in cards : card.type = "DEBIT"
    THEN "DEBIT" ELSE "ALL"

\* filter3dsRequiredCardTypesIfNotSupported
Listed == {card \in Cards : supports3ds \/ ~card.requires3ds}

\* (without the need for 3D Secure)
IsAvailableAnyway(card, type, requires) == type = "ALL" \/ card.type = "DEBIT"

IsAvailable(card, type, requires) ==
    /\ card.requires3ds => requires
    /\ type = "ALL" \/ card.type = "DEBIT"

\* reconcileCardsByBrand: the brands of which a card is available, and those
\* of which one is accepted, as all are while none is.
AvailableBrands(type, requires) ==
    {card.brand : card \in {c \in Listed : IsAvailable(c, type, requires)}}

\* (when all the cards of the brand are)
SelectedBrandsWhole(cards) ==
    {card.brand : card \in {c \in Listed : cards = {} \/
        \A d \in Listed : d.brand = c.brand => d \in cards}}

SelectedBrands(cards) ==
    {card.brand : card \in {c \in Listed : cards = {} \/ c \in cards}}

\* updateBrands: the cards saved.
CardsOf(type, brands) ==
    {card \in Cards : /\ type = "DEBIT" => card.type = "DEBIT"
                      /\ card.brand \in brands}

-----------------------------------------------------------------------------
(* Requests                                                                *)

Busy(t) == tab[t].left > 0

\* The requests that look at the account at once, and with their last call.
NeedsAccount == {"toggleIndex", "emailIndex", "emailOff", "emailOn", "emailUpdate"}
ListsCards == {"showBrands", "showSummary"}

\* A page that changes something keeps whether it is fresh; others start so.
Ask(t, op, type, brands) ==
    /\ ~Busy(t)
    /\ \E known \in BOOLEAN :
          tab' = [tab EXCEPT ![t] =
              IF ~known /\ op \in NeedsAccount THEN At("other")
              ELSE [At("other") EXCEPT
                       !.op = op, !.left = Len(CallsOf[op]), !.type = type,
                       !.known = known \/ op \notin ListsCards,
                       !.requires = /\ requires3ds
                                    /\ op \in ListsCards \cup {"toggleIndex"},
                       !.brands = brands,
                       !.fresh = IF op \in {"updateBrands", "on", "off"}
                                 THEN tab[t].fresh ELSE TRUE]]
    /\ UNCHANGED <<area, supports3ds, requires3ds, accepted, emails>>

Read(t) ==
    \/ /\ area = "cards"
       /\ \E op \in {"selectType", "showSummary", "toggleIndex"} :
             Ask(t, op, "ALL", {})
    \/ area = "emails" /\ Ask(t, "emailIndex", "ALL", {})

\* updateType leads to the brands.
UpdateType(t) ==
    /\ tab[t].page = "type"
    /\ \E type \in Types : Ask(t, "showBrands", type, {})

\* Without a brand the form is shown again.
UpdateBrands(t) ==
    /\ tab[t].page = "brands"
    /\ \E brands \in SUBSET tab[t].offers :
          IF brands = {} THEN Ask(t, "showBrands", tab[t].type, {})
          ELSE Ask(t, "updateBrands", tab[t].type, brands)

\* The buttons of a page.
Toggle(t) ==
    /\ tab[t].page \in {"threeDS", "email"}
    /\ \E op \in tab[t].offers : Ask(t, op, "ALL", {})

\* The paragraph of the e-mails, whose text is left out.
EmailUpdate(t) ==
    /\ tab[t].page = "email"
    /\ Ask(t, "emailUpdate", "ALL", {})

-----------------------------------------------------------------------------
(* Calls                                                                   *)

Show(t, page) == tab' = [tab EXCEPT ![t] = page]

\* The call under way.
Current(t) == CallsOf[tab[t].op][Len(CallsOf[tab[t].op]) + 1 - tab[t].left]

\* What it makes of connector.
AcceptedAfter(t) == IF Current(t) = "save"
                    THEN CardsOf(tab[t].type, tab[t].brands) ELSE accepted

RequiresAfter(t) == IF Current(t) = "toggle"
                    THEN tab[t].op = "on" ELSE requires3ds

Change(t) ==
    /\ accepted' = AcceptedAfter(t)
    /\ requires3ds' = RequiresAfter(t)
    /\ emails' = IF Current(t) = "setEmail" /\ tab[t].op # "emailUpdate"
                 THEN tab[t].op = "emailOn" ELSE emails
    /\ UNCHANGED <<area, supports3ds>>

Changes(t) == Busy(t) /\ Current(t) \in {"save", "toggle", "setEmail"}

\* The other pages are no longer fresh once connector has other cards or
\* another setting.
Outdated(t) ==
    IF <<accepted, requires3ds>>' = <<accepted, requires3ds>> THEN tab
    ELSE [u \in Tabs |-> IF u = t THEN tab[u] ELSE [tab[u] EXCEPT !.fresh = FALSE]]

Answer(t) ==
    LET r == tab[t] IN
    CASE r.op = "selectType"  -> At("type")
      [] r.op = "showBrands"  ->
            [At("brands") EXCEPT !.type = r.type, !.fresh = r.fresh,
                                 !.offers = AvailableBrands(r.type, r.requires)]
      [] r.op = "toggleIndex" ->
            [At("threeDS") EXCEPT !.fresh = r.fresh,
                !.offers =
                    IF supports3ds /\ ~r.requires THEN {"on"}
                    ELSE IF supports3ds /\ ~\E card \in accepted : card.requires3ds
                    THEN {"off"} ELSE {}]
      [] r.op = "emailIndex"  ->
            [At("email") EXCEPT !.offers = IF emails THEN {"emailOff"} ELSE {"emailOn"}]
      [] OTHER                -> At("other")

\* The two pages that list cards need the account at the end.
Throws(t) == tab[t].op \in ListsCards /\ ~tab[t].known

\* The last call is answered, or one before it.
Served(t) ==
    /\ Busy(t)
    /\ tab[t].left > 1 \/ ~Throws(t)
    /\ Change(t)
    /\ tab' = [Outdated(t) EXCEPT ![t] =
                  IF tab[t].left > 1 THEN [tab[t] EXCEPT !.left = tab[t].left - 1]
                  ELSE Answer(t)]

\* The exception ends the worker, and with it the requests it serves.
Dies(t) ==
    /\ tab[t].left = 1 /\ Throws(t)
    /\ \E others \in SUBSET {u \in Tabs : Busy(u)} :
          tab' = [u \in Tabs |-> IF u = t \/ u \in others THEN At("other") ELSE tab[u]]
    /\ UNCHANGED <<area, supports3ds, requires3ds, accepted, emails>>

\* Refused or broken down.  Nobody tells the one who changes the e-mails.
Fails(t) ==
    /\ Busy(t)
    /\ Show(t, At(IF Current(t) = "setEmail" THEN "hung" ELSE "other"))
    /\ UNCHANGED <<area, supports3ds, requires3ds, accepted, emails>>

\* A change is made and its answer lost: the client sends it again, and each
\* way of ending is open still.
Repeat(t) == Changes(t) /\ Change(t) /\ tab' = Outdated(t)

Call(t) == Served(t) \/ Dies(t) \/ Fails(t)

Next == \E t \in Tabs : \/ Read(t) \/ UpdateType(t) \/ UpdateBrands(t)
                        \/ Toggle(t) \/ EmailUpdate(t)
                        \/ Call(t) \/ Repeat(t)

\* The back ends answer every call, however often it is sent: the clients
\* themselves wait without limit.
Spec == Init /\ [][Next]_vars /\ \A t \in Tabs : WF_vars(Call(t))

-----------------------------------------------------------------------------
(* Properties                                                              *)

\* Cards that require 3D Secure are accepted while it is on only.
Consistent(cards, requires) == requires \/ \A card \in cards : ~card.requires3ds

\* No change sent from a page that is still up to date lets such a card be
\* accepted without 3D Secure (payment_types_controller.js:32,
\* views/3d_secure/index.njk).  The handlers that save look at neither setting,
\* so that of two pages opened before either is saved one accepts it and the
\* other turns 3D Secure off.
MaestroNeeds3ds ==
    \A t \in Tabs :
        Changes(t) /\ tab[t].fresh /\ Consistent(accepted, requires3ds) =>
            Consistent(AcceptedAfter(t), RequiresAfter(t))

\* Saving the cards as the form shows them, with the type it was opened with
\* and nothing ticked or unticked, changes nothing but the meaning of none.
ResaveKeeps ==
    LET type == AcceptedType(accepted)
        shown == SelectedBrands(accepted) \cap AvailableBrands(type, requires3ds)
    IN  accepted # {} /\ Consistent(accepted, requires3ds) =>
            CardsOf(type, shown) = accepted

\* Every request ends.  It ends with an answer unless a change of the e-mails
\* fails, of which nobody is told (email_notifications_controller.js:43): that
\* page is left "hung".
Answered == \A t \in Tabs : []<>~Busy(t)
=============================================================================
