---------------------------- MODULE SettingsProofs ----------------------------
(***************************************************************************)
(* Theorems about Settings, for all cards and any number of tabs: what a   *)
(* fresh page shows is still so, whatever became of the calls of others.   *)
(***************************************************************************)
EXTENDS Settings, TLAPS

Brands == {card.brand : card \in Cards}

\* The calls left of a request are its last ones, and a page has its own buttons.
PageOK(t) ==
    /\ tab[t].left <= Len(CallsOf[tab[t].op])
    /\ Busy(t) => tab[t].page = "other"
    /\ tab[t].page = "threeDS" => tab[t].offers \subseteq {"on", "off"}
    /\ tab[t].page = "email" => tab[t].offers \subseteq {"emailOn", "emailOff"}
    /\ tab[t].page = "brands" => tab[t].offers \subseteq Brands
    /\ tab[t].page = "threeDS" /\ "on" \in tab[t].offers => supports3ds
    /\ Busy(t) /\ tab[t].op = "on" => supports3ds

\* What a page that is fresh shows, or sends, is so still.
FreshOK(t) ==
    tab[t].fresh =>
        /\ tab[t].page = "brands" =>
               tab[t].offers = AvailableBrands(tab[t].type, requires3ds)
        /\ Busy(t) /\ tab[t].op = "showBrands" => tab[t].requires = requires3ds
        /\ Busy(t) /\ tab[t].op = "updateBrands" =>
               tab[t].brands \subseteq AvailableBrands(tab[t].type, requires3ds)
        /\ tab[t].page = "threeDS" /\ "off" \in tab[t].offers =>
               \A card \in accepted : ~card.requires3ds
        /\ Busy(t) /\ tab[t].op = "off" => \A card \in accepted : ~card.requires3ds

\* The cards accepted were saved with one form.
SavedOK ==
    \/ accepted = {}
    \/ \E type \in Types, brands \in SUBSET Brands :
          accepted = CardsOf(type, brands)

Inv == TypeOK /\ SavedOK /\ \A t \in Tabs : PageOK(t) /\ FreshOK(t)
-----------------------------------------------------------------------------
\* The call that changes something is the last, and tells what the request is.
LEMMA LastCalls ==
    ASSUME NEW op \in DOMAIN CallsOf
    PROVE  /\ Len(CallsOf[op]) \in 1 .. 2
           /\ \A n \in 1 .. Len(CallsOf[op]) :
                LET call == CallsOf[op][Len(CallsOf[op]) + 1 - n] IN
                /\ n > 1 => call \notin {"save", "toggle", "setEmail"}
                /\ call = "save" => op = "updateBrands"
                /\ call = "toggle" => op \in {"on", "off"}
                /\ call = "setEmail" => op \in {"emailOn", "emailOff", "emailUpdate"}
<1>1. CASE op \in {"selectType", "toggleIndex"}
  <2>1. CallsOf[op] = <<"accepted">>
    BY <1>1 DEF CallsOf
  <2> QED
    BY <1>1, <2>1
<1>2. CASE op \in {"showBrands", "showSummary"}
  <2>1. CallsOf[op] = <<"cardTypes", "accepted">>
    BY <1>2 DEF CallsOf
  <2> QED
    BY <1>2, <2>1
<1>3. CASE op = "updateBrands"
  <2>1. CallsOf[op] = <<"cardTypes", "save">>
    BY <1>3 DEF CallsOf
  <2> QED
    BY <1>3, <2>1
<1>4. CASE op \in {"on", "off"}
  <2>1. CallsOf[op] = <<"toggle">>
    BY <1>4 DEF CallsOf
  <2> QED
    BY <1>4, <2>1
<1>5. CASE op = "emailIndex"
  <2>1. CallsOf[op] = <<"getEmail">>
    BY <1>5 DEF CallsOf
  <2> QED
    BY <1>5, <2>1
<1>6. CASE op \in {"emailOn", "emailOff", "emailUpdate"}
  <2>1. CallsOf[op] = <<"getEmail", "setEmail">>
    BY <1>6 DEF CallsOf
  <2> QED
    BY <1>6, <2>1
<1>7. op \in {"selectType", "showBrands", "showSummary", "toggleIndex", "updateBrands",
             "on", "off", "emailIndex", "emailOff", "emailOn", "emailUpdate"}
  BY DEF CallsOf
<1> QED
  BY <1>1, <1>2, <1>3, <1>4, <1>5, <1>6, <1>7

LEMMA AtPage ==
    ASSUME NEW page \in Pages
    PROVE  /\ At(page) \in Tab
           /\ At(page).left = 0 /\ At(page).offers = {} /\ At(page).page = page
           /\ ~At(page).fresh
<1>1. "selectType" \in DOMAIN CallsOf
  BY DEF CallsOf
<1>2. {} \in SUBSET Brands
  OBVIOUS
<1> QED
  BY <1>1, <1>2 DEF At, Tab, Types

\* A page without buttons and a request.
LEMMA BlankPage ==
    ASSUME NEW u \in Tabs, NEW page \in Pages, tab'[u] = At(page)
    PROVE  PageOK(u)' /\ FreshOK(u)'
<1>1. /\ tab'[u].left = 0 /\ tab'[u].offers = {} /\ tab'[u].page = page
      /\ ~tab'[u].fresh
  BY AtPage
<1> QED
  BY <1>1 DEF PageOK, FreshOK, Busy

LEMMA AvailableSame ==
    ASSUME supports3ds' = supports3ds, NEW type, NEW requires
    PROVE  AvailableBrands(type, requires)' = AvailableBrands(type, requires)
BY DEF AvailableBrands, Listed, IsAvailable

LEMMA AvailableAreBrands ==
    \A type, requires : AvailableBrands(type, requires) \subseteq Brands
BY DEF AvailableBrands, Listed, Brands

Unchanged == UNCHANGED <<area, supports3ds, requires3ds, accepted, emails>>

LEMMA SameTab ==
    ASSUME Inv, Unchanged, NEW u \in Tabs, tab'[u] = tab[u]
    PROVE  PageOK(u)' /\ FreshOK(u)'
<1>1. PageOK(u)'
  BY DEF Inv, PageOK, Unchanged, Busy
<1>2. FreshOK(u)'
  BY AvailableSame DEF Inv, FreshOK, Unchanged, Busy
<1> QED
  BY <1>1, <1>2

LEMMA SameSaved == ASSUME Inv, Unchanged PROVE SavedOK'
BY DEF Inv, SavedOK, Unchanged, CardsOf

\* A step of one tab that changes nothing of the account.
LEMMA OneTab ==
    ASSUME Inv, Unchanged, NEW t \in Tabs, NEW r \in Tab,
           tab' = [tab EXCEPT ![t] = r],
           PageOK(t)', FreshOK(t)'
    PROVE  Inv'
<1>1. tab \in [Tabs -> Tab]
  BY DEF Inv, TypeOK
<1>2. tab' \in [Tabs -> Tab] /\ \A u \in Tabs \ {t} : tab'[u] = tab[u]
  BY <1>1
<1>3. \A u \in Tabs : PageOK(u)' /\ FreshOK(u)'
  BY <1>2, SameTab
<1>4. TypeOK'
  BY <1>2 DEF Inv, TypeOK, Unchanged
<1> QED
  BY <1>3, <1>4, SameSaved DEF Inv

-----------------------------------------------------------------------------
(* Requests                                                                *)

LEMMA AskInv ==
    ASSUME Inv, NEW t \in Tabs, NEW op \in DOMAIN CallsOf, NEW type \in Types,
           NEW brands \in SUBSET Brands, Ask(t, op, type, brands),
           op = "on" => supports3ds,
           op = "off" /\ tab[t].fresh => \A card \in accepted : ~card.requires3ds,
           op = "updateBrands" /\ tab[t].fresh =>
                brands \subseteq AvailableBrands(type, requires3ds)
    PROVE  Inv'
<1>1. PICK known \in BOOLEAN :
        tab' = [tab EXCEPT ![t] =
              IF ~known /\ op \in NeedsAccount THEN At("other")
              ELSE [At("other") EXCEPT
                       !.op = op, !.left = Len(CallsOf[op]), !.type = type,
                       !.known = known \/ op \notin ListsCards,
                       !.requires = /\ requires3ds
                                    /\ op \in ListsCards \cup {"toggleIndex"},
                       !.brands = brands,
                       !.fresh = IF op \in {"updateBrands", "on", "off"}
                                 THEN tab[t].fresh ELSE TRUE]]
  BY DEF Ask
<1>2. Unchanged
  BY DEF Ask, Unchanged
<1>3. tab \in [Tabs -> Tab] /\ tab[t] \in Tab /\ requires3ds \in BOOLEAN
  BY DEF Inv, TypeOK
<1>4. At("other") \in Tab
  BY AtPage DEF Pages
<1>5. CASE ~known /\ op \in NeedsAccount
  <2>1. tab' = [tab EXCEPT ![t] = At("other")]
    BY <1>1, <1>5
  <2>2. tab'[t] = At("other")
    BY <1>3, <2>1
  <2> QED
    BY <1>2, <1>4, <2>1, <2>2, BlankPage, OneTab DEF Pages
<1>6. CASE ~(~known /\ op \in NeedsAccount)
  <2> DEFINE r == [At("other") EXCEPT
                       !.op = op, !.left = Len(CallsOf[op]), !.type = type,
                       !.known = known \/ op \notin ListsCards,
                       !.requires = /\ requires3ds
                                    /\ op \in ListsCards \cup {"toggleIndex"},
                       !.brands = brands,
                       !.fresh = IF op \in {"updateBrands", "on", "off"}
                                 THEN tab[t].fresh ELSE TRUE]
  <2>1. tab' = [tab EXCEPT ![t] = r]
    BY <1>1, <1>6
  <2>2. Len(CallsOf[op]) \in 0 .. 2
    BY LastCalls
  <2>3. r \in Tab
    BY <1>3, <1>4, <2>2 DEF Tab, Brands
  <2>4. /\ r.page = "other" /\ r.op = op /\ r.left = Len(CallsOf[op]) /\ r.type = type
        /\ r.brands = brands
        /\ r.requires = (requires3ds /\ op \in ListsCards \cup {"toggleIndex"})
        /\ r.fresh /\ op \in {"updateBrands", "on", "off"} => tab[t].fresh
    BY DEF At
  <2> HIDE DEF r
  <2>5. tab'[t] = r
    BY <1>3, <2>1
  <2>6. PageOK(t)'
    BY <1>2, <2>4, <2>5 DEF PageOK, Unchanged
  <2>7. FreshOK(t)'
    <3>1. op = "showBrands" => r.requires = requires3ds
      BY <1>3, <2>4 DEF ListsCards
    <3>2. /\ tab'[t].fresh = r.fresh /\ tab'[t].op = op /\ tab'[t].page = "other"
          /\ tab'[t].requires = r.requires /\ tab'[t].brands = brands
          /\ tab'[t].type = type
      BY <2>4, <2>5
    <3>3. r.fresh /\ op = "updateBrands" =>
            brands \subseteq AvailableBrands(type, requires3ds)'
      <4>1. AvailableBrands(type, requires3ds)' = AvailableBrands(type, requires3ds)
        BY <1>2, AvailableSame DEF Unchanged
      <4> QED
        BY <1>2, <2>4, <4>1 DEF Unchanged
    <3> QED
      BY <1>2, <2>4, <3>1, <3>2, <3>3 DEF FreshOK, Unchanged
  <2> QED
    BY <1>2, <2>1, <2>3, <2>6, <2>7, OneTab
<1> QED
  BY <1>5, <1>6

LEMMA RequestInv ==
    ASSUME Inv, NEW t \in Tabs,
           Read(t) \/ UpdateType(t) \/ UpdateBrands(t) \/ Toggle(t) \/ EmailUpdate(t)
    PROVE  Inv'
<1>1. tab[t] \in Tab
  BY DEF Inv, TypeOK
<1>2. /\ {"selectType", "showBrands", "showSummary", "toggleIndex", "updateBrands",
          "on", "off", "emailIndex", "emailOff", "emailOn", "emailUpdate"}
              \subseteq DOMAIN CallsOf
      /\ "ALL" \in Types /\ {} \in SUBSET Brands
  BY DEF CallsOf, Types
<1>3. CASE Read(t)
  BY <1>2, <1>3, AskInv DEF Read
<1>4. CASE UpdateType(t)
  BY <1>2, <1>4, AskInv DEF UpdateType
<1>5. CASE UpdateBrands(t)
  <2>1. /\ tab[t].page = "brands" /\ tab[t].offers \subseteq Brands
        /\ tab[t].type \in Types
        /\ tab[t].fresh => tab[t].offers = AvailableBrands(tab[t].type, requires3ds)
    BY <1>1, <1>5 DEF UpdateBrands, Inv, PageOK, FreshOK, Tab, Brands
  <2>2. PICK brands \in SUBSET tab[t].offers :
          IF brands = {} THEN Ask(t, "showBrands", tab[t].type, {})
          ELSE Ask(t, "updateBrands", tab[t].type, brands)
    BY <1>5 DEF UpdateBrands
  <2>3. CASE brands = {}
    BY <1>2, <2>1, <2>2, <2>3, AskInv
  <2>4. CASE brands # {}
    <3>1. Ask(t, "updateBrands", tab[t].type, brands)
      BY <2>2, <2>4
    <3>2. brands \in SUBSET Brands
      BY <2>1
    <3> QED
      BY <1>2, <2>1, <3>1, <3>2, AskInv
  <2> QED
    BY <2>3, <2>4
<1>6. CASE Toggle(t)
  <2>1. PICK op \in tab[t].offers : Ask(t, op, "ALL", {})
    BY <1>6 DEF Toggle
  <2>2. tab[t].page \in {"threeDS", "email"}
    BY <1>6 DEF Toggle
  <2>3. op \in {"on", "off", "emailOn", "emailOff"}
    BY <2>2 DEF Inv, PageOK
  <2>4. /\ op = "on" => supports3ds
        /\ op = "off" /\ tab[t].fresh => \A card \in accepted : ~card.requires3ds
    BY <2>2 DEF Inv, PageOK, FreshOK
  <2> QED
    BY <1>2, <2>1, <2>3, <2>4, AskInv
<1>7. CASE EmailUpdate(t)
  BY <1>2, <1>7, AskInv DEF EmailUpdate
<1> QED
  BY <1>3, <1>4, <1>5, <1>6, <1>7

-----------------------------------------------------------------------------
(* Calls                                                                   *)

LEMMA CallIs ==
    ASSUME Inv, NEW t \in Tabs, Busy(t)
    PROVE  /\ tab[t] \in Tab /\ tab[t].op \in DOMAIN CallsOf
           /\ tab[t].left \in 1 .. 2
           /\ tab[t].left > 1 => ~Changes(t)
           /\ Current(t) = "save" => tab[t].op = "updateBrands"
           /\ Current(t) = "toggle" => tab[t].op \in {"on", "off"}
           /\ Current(t) = "setEmail" =>
                tab[t].op \in {"emailOn", "emailOff", "emailUpdate"}
           /\ tab[t].op = "on" => supports3ds
<1>1. tab[t] \in Tab /\ tab[t].op \in DOMAIN CallsOf /\ tab[t].left \in 1 .. 2
  BY DEF Inv, TypeOK, Tab, Busy
<1>2. Len(CallsOf[tab[t].op]) \in 1 .. 2 /\ tab[t].left <= Len(CallsOf[tab[t].op])
  BY <1>1, LastCalls DEF Inv, PageOK
<1>3. tab[t].left \in 1 .. Len(CallsOf[tab[t].op])
  BY <1>1, <1>2
<1>4. tab[t].op = "on" => supports3ds
  BY DEF Inv, PageOK
<1> QED
  BY <1>1, <1>3, <1>4, LastCalls DEF Changes, Current

\* What a change leaves of the account, and of the pages of the others.
LEMMA ChangeKeeps ==
    ASSUME Inv, NEW t \in Tabs, Busy(t), Change(t),
           \A u \in Tabs \ {t} : tab'[u] = Outdated(t)[u]
    PROVE  /\ supports3ds' = supports3ds /\ requires3ds' \in BOOLEAN
           /\ supports3ds' \/ ~requires3ds'
           /\ accepted' \subseteq Cards /\ emails' \in BOOLEAN
           /\ SavedOK'
           /\ \A u \in Tabs \ {t} : tab'[u] \in Tab /\ PageOK(u)' /\ FreshOK(u)'
<1>1. /\ accepted' = AcceptedAfter(t) /\ requires3ds' = RequiresAfter(t)
      /\ supports3ds' = supports3ds /\ area' = area
  BY DEF Change
<1>2. /\ requires3ds' \in BOOLEAN /\ (supports3ds' \/ ~requires3ds')
  BY <1>1, CallIs DEF RequiresAfter, Inv, TypeOK
<1>3. emails' \in BOOLEAN
  BY DEF Change, Inv, TypeOK
<1>4. tab[t].type \in Types /\ tab[t].brands \in SUBSET Brands
  BY CallIs DEF Tab, Brands
<1>5. SavedOK' /\ accepted' \subseteq Cards
  <2>1. CASE Current(t) = "save"
    <3>1. accepted' = CardsOf(tab[t].type, tab[t].brands)
      BY <1>1, <2>1 DEF AcceptedAfter
    <3> QED
      BY <1>4, <3>1 DEF SavedOK, CardsOf, Brands
  <2>2. CASE Current(t) # "save"
    <3>1. accepted' = accepted
      BY <1>1, <2>2 DEF AcceptedAfter
    <3> QED
      BY <3>1 DEF SavedOK, CardsOf, Inv, TypeOK
  <2> QED
    BY <2>1, <2>2
<1>6. ASSUME NEW u \in Tabs \ {t}
      PROVE  tab'[u] \in Tab /\ PageOK(u)' /\ FreshOK(u)'
  <2>1. tab[u] \in Tab
    BY DEF Inv, TypeOK
  <2>2. CASE accepted' = accepted /\ requires3ds' = requires3ds
    <3>1. tab'[u] = tab[u]
      BY <2>2 DEF Outdated
    <3>2. PageOK(u)'
      BY <1>1, <3>1 DEF Inv, PageOK, Busy
    <3>3. FreshOK(u)'
      BY <1>1, <2>2, <3>1, AvailableSame DEF Inv, FreshOK, Busy
    <3> QED
      BY <2>1, <3>1, <3>2, <3>3
  <2>3. CASE ~(accepted' = accepted /\ requires3ds' = requires3ds)
    <3>1. tab'[u] = [tab[u] EXCEPT !.fresh = FALSE]
      BY <2>3 DEF Outdated
    <3>2. tab'[u] \in Tab /\ ~tab'[u].fresh /\ tab'[u].page = tab[u].page
          /\ tab'[u].op = tab[u].op /\ tab'[u].left = tab[u].left
          /\ tab'[u].offers = tab[u].offers
      BY <2>1, <3>1 DEF Tab
    <3>3. PageOK(u)'
      BY <1>1, <3>2 DEF Inv, PageOK, Busy
    <3> QED
      BY <3>2, <3>3 DEF FreshOK
  <2> QED
    BY <2>2, <2>3
<1> QED
  BY <1>1, <1>2, <1>3, <1>5, <1>6

\* The pages that are answered to a last call.
LEMMA AnswerOK ==
    ASSUME Inv, NEW t \in Tabs, Busy(t), Change(t), tab'[t] = Answer(t)
    PROVE  Answer(t) \in Tab /\ PageOK(t)' /\ FreshOK(t)'
<1>1. tab[t] \in Tab
  BY CallIs
<1>2. tab[t].op \in {"showBrands", "toggleIndex"} =>
        accepted' = accepted /\ requires3ds' = requires3ds
  BY CallIs DEF Change, AcceptedAfter, RequiresAfter
<1>3. supports3ds' = supports3ds
  BY DEF Change
<1>4. CASE tab[t].op \notin {"showBrands", "toggleIndex", "emailIndex"}
  <2>1. \E page \in Pages : Answer(t) = At(page)
    BY <1>4 DEF Answer, Pages
  <2> QED
    BY <2>1, AtPage, BlankPage
<1>5. CASE tab[t].op = "showBrands"
  <2> DEFINE r == [At("brands") EXCEPT !.type = tab[t].type, !.fresh = tab[t].fresh,
                       !.offers = AvailableBrands(tab[t].type, tab[t].requires)]
  <2>1. Answer(t) = r
    BY <1>5 DEF Answer
  <2>2. At("brands") \in Tab
    BY AtPage DEF Pages
  <2>3. AvailableBrands(tab[t].type, tab[t].requires) \subseteq Brands
    BY AvailableAreBrands
  <2>4. r \in Tab
    BY <1>1, <2>2, <2>3 DEF Tab, Brands
  <2>5. r.page = "brands" /\ r.left = 0 /\ r.fresh = tab[t].fresh
        /\ r.offers = AvailableBrands(tab[t].type, tab[t].requires)
        /\ r.type = tab[t].type
    BY DEF At
  <2> HIDE DEF r
  <2>6. PageOK(t)'
    BY <2>1, <2>3, <2>5 DEF PageOK, Busy, Brands
  <2>7. tab[t].fresh => tab[t].requires = requires3ds
    BY <1>5 DEF Inv, FreshOK
  <2>8. FreshOK(t)'
    BY <1>2, <1>3, <1>5, <2>1, <2>5, <2>7, AvailableSame DEF FreshOK, Busy
  <2> QED
    BY <2>1, <2>4, <2>6, <2>8
<1>6. CASE tab[t].op = "toggleIndex"
  <2> DEFINE offers == IF supports3ds /\ ~tab[t].requires THEN {"on"}
                       ELSE IF supports3ds /\ ~\E card \in accepted : card.requires3ds
                       THEN {"off"} ELSE {}
             r == [At("threeDS") EXCEPT !.fresh = tab[t].fresh, !.offers = offers]
  <2>1. Answer(t) = r
    BY <1>6 DEF Answer
  <2>2. At("threeDS") \in Tab
    BY AtPage DEF Pages
  <2>3. offers \subseteq {"on", "off"}
    OBVIOUS
  <2>4. /\ "on" \in offers => supports3ds
        /\ "off" \in offers => \A card \in accepted : ~card.requires3ds
    OBVIOUS
  <2> HIDE DEF offers
  <2>5. r \in Tab
    BY <1>1, <2>2, <2>3 DEF Tab
  <2>6. r.page = "threeDS" /\ r.left = 0 /\ r.offers = offers
    BY DEF At
  <2> HIDE DEF r
  <2>7. PageOK(t)'
    BY <1>3, <2>1, <2>3, <2>4, <2>6 DEF PageOK, Busy
  <2>8. FreshOK(t)'
    BY <1>2, <1>6, <2>1, <2>4, <2>6 DEF FreshOK, Busy
  <2> QED
    BY <2>1, <2>5, <2>7, <2>8
<1>7. CASE tab[t].op = "emailIndex"
  <2> DEFINE offers == IF emails THEN {"emailOff"} ELSE {"emailOn"}
             r == [At("email") EXCEPT !.offers = offers]
  <2>1. Answer(t) = r
    BY <1>7 DEF Answer
  <2>2. At("email") \in Tab
    BY AtPage DEF Pages
  <2>3. offers \subseteq {"emailOn", "emailOff"}
    OBVIOUS
  <2> HIDE DEF offers
  <2>4. r \in Tab
    BY <2>2, <2>3 DEF Tab
  <2>5. r.page = "email" /\ r.left = 0 /\ r.offers = offers /\ ~r.fresh
    BY DEF At
  <2> HIDE DEF r
  <2>6. PageOK(t)' /\ FreshOK(t)'
    BY <2>1, <2>3, <2>5 DEF PageOK, FreshOK, Busy
  <2> QED
    BY <2>1, <2>4, <2>6
<1> QED
  BY <1>4, <1>5, <1>6, <1>7

LEMMA ServedInv ==
    ASSUME Inv, NEW t \in Tabs, Served(t)
    PROVE  Inv'
<1>1. /\ Busy(t) /\ Change(t)
      /\ tab' = [Outdated(t) EXCEPT ![t] =
                    IF tab[t].left > 1 THEN [tab[t] EXCEPT !.left = tab[t].left - 1]
                    ELSE Answer(t)]
  BY DEF Served
<1>2. tab \in [Tabs -> Tab]
  BY DEF Inv, TypeOK
<1>3. DOMAIN Outdated(t) = Tabs /\ Outdated(t)[t] = tab[t]
  BY <1>2 DEF Outdated
<1>4. DOMAIN tab' = Tabs /\ \A u \in Tabs \ {t} : tab'[u] = Outdated(t)[u]
  <2>1. DOMAIN tab' = DOMAIN Outdated(t)
    BY <1>1
  <2>2. ASSUME NEW u \in Tabs \ {t} PROVE tab'[u] = Outdated(t)[u]
    BY <1>1, <1>3
  <2> QED
    BY <1>3, <2>1, <2>2
<1>5. tab'[t] = IF tab[t].left > 1 THEN [tab[t] EXCEPT !.left = tab[t].left - 1]
                ELSE Answer(t)
  BY <1>1, <1>3
<1>6. tab'[t] \in Tab /\ PageOK(t)' /\ FreshOK(t)'
  <2>1. CASE tab[t].left > 1
    <3>1. ~Changes(t) /\ tab[t] \in Tab
      BY <1>1, <2>1, CallIs
    <3>2. /\ accepted' = accepted /\ requires3ds' = requires3ds
          /\ supports3ds' = supports3ds
      BY <1>1, <3>1 DEF Change, Changes, AcceptedAfter, RequiresAfter
    <3>3. /\ tab[t].left - 1 \in 0 .. 2 /\ tab[t].left \in 1 .. 2
          /\ tab[t].left <= Len(CallsOf[tab[t].op])
      BY <1>1, CallIs DEF Inv, PageOK
    <3>4. Len(CallsOf[tab[t].op]) \in Nat
      BY <1>1, CallIs, LastCalls
    <3>5. tab'[t] = [tab[t] EXCEPT !.left = tab[t].left - 1]
      BY <1>5, <2>1
    <3>6. tab'[t] \in Tab
      BY <3>1, <3>3, <3>5 DEF Tab
    <3>7. /\ tab'[t].page = tab[t].page /\ tab'[t].op = tab[t].op
          /\ tab'[t].left = tab[t].left - 1 /\ tab'[t].type = tab[t].type
          /\ tab'[t].requires = tab[t].requires /\ tab'[t].brands = tab[t].brands
          /\ tab'[t].offers = tab[t].offers /\ tab'[t].fresh = tab[t].fresh
      BY <3>1, <3>5 DEF Tab
    <3>8. PageOK(t)'
      BY <1>1, <3>2, <3>3, <3>4, <3>7 DEF Inv, PageOK, Busy
    <3>9. FreshOK(t)'
      <4>1. FreshOK(t) /\ tab[t].page = "other"
        BY <1>1 DEF Inv, PageOK
      <4>2. tab[t].left > 0
        BY <1>1 DEF Busy
      <4>3. FreshOK(t)' <=>
              (tab[t].fresh =>
                /\ tab'[t].left > 0 /\ tab[t].op = "showBrands" =>
                       tab[t].requires = requires3ds
                /\ tab'[t].left > 0 /\ tab[t].op = "updateBrands" =>
                       tab[t].brands \subseteq AvailableBrands(tab[t].type, requires3ds)
                /\ tab'[t].left > 0 /\ tab[t].op = "off" =>
                       \A card \in accepted : ~card.requires3ds)
        BY <3>2, <3>7, <4>1 DEF FreshOK, Busy, AvailableBrands, Listed, IsAvailable
      <4> QED
        BY <4>1, <4>2, <4>3 DEF FreshOK, Busy
    <3> QED
      BY <3>6, <3>8, <3>9
  <2>2. CASE ~(tab[t].left > 1)
    BY <1>1, <1>5, <2>2, AnswerOK
  <2> QED
    BY <2>1, <2>2
<1>7. \A u \in Tabs : tab'[u] \in Tab /\ PageOK(u)' /\ FreshOK(u)'
  BY <1>1, <1>4, <1>6, ChangeKeeps
<1>8. tab' \in [Tabs -> Tab]
  BY <1>1, <1>3, <1>7
<1> QED
  BY <1>1, <1>4, <1>7, <1>8, ChangeKeeps DEF Inv, TypeOK

LEMMA RepeatInv ==
    ASSUME Inv, NEW t \in Tabs, Repeat(t)
    PROVE  Inv'
<1>1. Busy(t) /\ Change(t) /\ tab' = Outdated(t) /\ Changes(t)
  BY DEF Repeat, Changes
<1>2. tab \in [Tabs -> Tab]
  BY DEF Inv, TypeOK
<1>3. DOMAIN tab' = Tabs /\ tab'[t] = tab[t] /\ tab[t] \in Tab
  BY <1>1, <1>2 DEF Outdated
<1>4. /\ accepted' = AcceptedAfter(t) /\ requires3ds' = RequiresAfter(t)
      /\ supports3ds' = supports3ds
  BY <1>1 DEF Change
<1>5. PageOK(t)'
  BY <1>3, <1>4 DEF Inv, PageOK, Busy
<1>6. FreshOK(t)'
  <2>1. tab[t].page # "brands" /\ tab[t].page # "threeDS"
    BY <1>1 DEF Inv, PageOK
  <2>2. tab[t].op = "off" => accepted' = accepted
    BY <1>1, <1>4, CallIs DEF AcceptedAfter
  <2>3. tab[t].op = "updateBrands" => requires3ds' = requires3ds
    BY <1>1, <1>4, CallIs DEF RequiresAfter
  <2>4. tab[t].op # "showBrands"
    BY <1>1, CallIs DEF Changes
  <2> QED
    BY <1>1, <1>3, <1>4, <2>1, <2>2, <2>3, <2>4, AvailableSame
       DEF Inv, FreshOK, Busy
<1>7. \A u \in Tabs : tab'[u] \in Tab /\ PageOK(u)' /\ FreshOK(u)'
  BY <1>1, <1>3, <1>5, <1>6, ChangeKeeps
<1>8. tab' \in [Tabs -> Tab]
  <2>1. CASE <<accepted, requires3ds>>' = <<accepted, requires3ds>>
    BY <1>1, <1>2, <2>1 DEF Outdated
  <2>2. CASE ~(<<accepted, requires3ds>>' = <<accepted, requires3ds>>)
    <3>1. tab' = [u \in Tabs |-> IF u = t THEN tab[u] ELSE [tab[u] EXCEPT !.fresh = FALSE]]
      BY <1>1, <2>2 DEF Outdated
    <3>2. tab' = [u \in Tabs |-> tab'[u]]
      BY <3>1
    <3> QED
      BY <1>7, <3>2
  <2> QED
    BY <2>1, <2>2
<1> QED
  BY <1>1, <1>7, <1>8, ChangeKeeps DEF Inv, TypeOK

LEMMA EndInv ==
    ASSUME Inv, NEW t \in Tabs, Dies(t) \/ Fails(t)
    PROVE  Inv'
<1>1. Unchanged
  BY DEF Dies, Fails, Unchanged
<1>2. tab \in [Tabs -> Tab]
  BY DEF Inv, TypeOK
<1>3. DOMAIN tab' = Tabs /\ \A u \in Tabs :
        tab'[u] = tab[u] \/ \E page \in Pages : tab'[u] = At(page)
  <2>1. CASE Dies(t)
    BY <2>1 DEF Dies, Pages
  <2>2. CASE Fails(t)
    <3>1. PICK page \in Pages : tab' = [tab EXCEPT ![t] = At(page)]
      BY <2>2 DEF Fails, Show, Pages
    <3> QED
      BY <1>2, <3>1
  <2> QED
    BY <2>1, <2>2
<1>4. \A u \in Tabs : tab'[u] \in Tab
  BY <1>2, <1>3, AtPage
<1>5. \A u \in Tabs : PageOK(u)' /\ FreshOK(u)'
  BY <1>1, <1>3, BlankPage, SameTab
<1>6. tab' \in [Tabs -> Tab]
  <2>1. tab' = [u \in Tabs |-> tab'[u]]
    BY <1>2, <1>3 DEF Dies, Fails, Show
  <2> QED
    BY <1>4, <2>1
<1> QED
  BY <1>1, <1>5, <1>6, SameSaved DEF Inv, TypeOK, Unchanged

-----------------------------------------------------------------------------
LEMMA InitInv == Init => Inv
<1> SUFFICES ASSUME Init PROVE Inv
  OBVIOUS
<1>1. tab = [t \in Tabs |-> At("other")] /\ accepted = {} /\ requires3ds = FALSE
      /\ emails = TRUE /\ supports3ds \in BOOLEAN
  BY DEF Init
<1>2. /\ At("other") \in Tab /\ At("other").left = 0 /\ At("other").offers = {}
      /\ At("other").page = "other" /\ ~At("other").fresh
  BY AtPage DEF Pages
<1>3. \A t \in Tabs : PageOK(t) /\ FreshOK(t)
  BY <1>1, <1>2 DEF PageOK, FreshOK, Busy
<1>4. TypeOK /\ SavedOK
  BY <1>1, <1>2 DEF TypeOK, SavedOK
<1> QED
  BY <1>3, <1>4 DEF Inv

LEMMA StepInv == ASSUME Inv, [Next]_vars PROVE Inv'
<1>1. CASE UNCHANGED vars
  <2>1. Unchanged /\ tab' = tab
    BY <1>1 DEF vars, Unchanged
  <2>2. \A u \in Tabs : PageOK(u)' /\ FreshOK(u)'
    BY <2>1, SameTab
  <2> QED
    BY <2>1, <2>2, SameSaved DEF Inv, TypeOK, Unchanged
<1> QED
  BY <1>1, RequestInv, ServedInv, RepeatInv, EndInv DEF Next, Call

-----------------------------------------------------------------------------
\* Every card of a brand needs 3D Secure, or none: what connector is asked for
\* are brands, and the page says which brand needs it.
BrandsAgree == \A card, other \in Cards :
    card.brand = other.brand => card.requires3ds = other.requires3ds

LEMMA FreshChange ==
    ASSUME Inv, BrandsAgree
    PROVE  MaestroNeeds3ds
<1> SUFFICES ASSUME NEW t \in Tabs, Changes(t), tab[t].fresh,
                    Consistent(accepted, requires3ds)
             PROVE  Consistent(AcceptedAfter(t), RequiresAfter(t))
  BY DEF MaestroNeeds3ds
<1>1. Busy(t)
  BY DEF Changes
<1>2. CASE Current(t) = "save"
  <2>1. AcceptedAfter(t) = CardsOf(tab[t].type, tab[t].brands)
        /\ RequiresAfter(t) = requires3ds
    BY <1>2 DEF AcceptedAfter, RequiresAfter
  <2>2. tab[t].brands \subseteq AvailableBrands(tab[t].type, requires3ds)
    BY <1>1, <1>2, CallIs DEF Inv, FreshOK
  <2>3. ASSUME NEW card \in CardsOf(tab[t].type, tab[t].brands), ~requires3ds
        PROVE  ~card.requires3ds
    <3>1. card \in Cards /\ card.brand \in AvailableBrands(tab[t].type, requires3ds)
      BY <2>2 DEF CardsOf
    <3>2. PICK other \in Cards : other.brand = card.brand
                                 /\ (other.requires3ds => requires3ds)
      BY <3>1 DEF AvailableBrands, Listed, IsAvailable
    <3> QED
      BY <2>3, <3>1, <3>2 DEF BrandsAgree
  <2> QED
    BY <2>1, <2>3 DEF Consistent
<1>3. CASE Current(t) = "toggle"
  <2>1. AcceptedAfter(t) = accepted /\ RequiresAfter(t) = (tab[t].op = "on")
    BY <1>3 DEF AcceptedAfter, RequiresAfter
  <2>2. tab[t].op \in {"on", "off"}
    BY <1>1, <1>3, CallIs
  <2>3. tab[t].op = "off" => \A card \in accepted : ~card.requires3ds
    BY <1>1 DEF Inv, FreshOK
  <2> QED
    BY <2>1, <2>2, <2>3 DEF Consistent
<1>4. CASE Current(t) = "setEmail"
  BY <1>4 DEF AcceptedAfter, RequiresAfter
<1> QED
  BY <1>2, <1>3, <1>4 DEF Changes

LEMMA ResavedSame ==
    ASSUME Inv
    PROVE  ResaveKeeps
<1> DEFINE type == AcceptedType(accepted)
           shown == SelectedBrands(accepted) \cap AvailableBrands(type, requires3ds)
<1> SUFFICES ASSUME accepted # {}, Consistent(accepted, requires3ds)
             PROVE  CardsOf(type, shown) = accepted
  BY DEF ResaveKeeps
<1>1. /\ accepted \subseteq Cards /\ (supports3ds \/ ~requires3ds)
      /\ requires3ds \in BOOLEAN /\ supports3ds \in BOOLEAN
  BY DEF Inv, TypeOK
<1>2. /\ type \in {"ALL", "DEBIT"}
      /\ type = "DEBIT" <=> \A card \in accepted : card.type = "DEBIT"
  BY DEF AcceptedType
<1> HIDE DEF type
<1>3. ASSUME NEW card \in accepted
      PROVE  card \in CardsOf(type, shown)
  <2>1. card \in Listed /\ IsAvailable(card, type, requires3ds)
    BY <1>1, <1>2 DEF Listed, IsAvailable, Consistent
  <2>2. card.brand \in shown
    BY <2>1 DEF SelectedBrands, AvailableBrands
  <2> QED
    BY <1>1, <1>2, <2>2 DEF CardsOf
<1>4. ASSUME NEW card \in CardsOf(type, shown)
      PROVE  card \in accepted
  <2>1. PICK saved \in Types, brands \in SUBSET Brands :
          accepted = CardsOf(saved, brands)
    BY DEF Inv, SavedOK
  <2>2. PICK other \in accepted : other.brand = card.brand
    BY <1>4 DEF CardsOf, SelectedBrands
  <2>3. card \in Cards /\ card.brand \in brands
    BY <2>1, <2>2 DEF CardsOf
  <2>4. saved = "DEBIT" => card.type = "DEBIT"
    BY <1>2, <2>1 DEF CardsOf
  <2> QED
    BY <2>1, <2>3, <2>4 DEF CardsOf
<1> QED
  BY <1>3, <1>4

-----------------------------------------------------------------------------
THEOREM SettingsInvariant == Spec => []Inv
<1>1. Inv /\ [Next]_vars => Inv'
  BY StepInv
<1> QED
  BY <1>1, InitInv, PTL DEF Spec

\* The types of Settings, for all cards.  Connector has 3D Secure on only for a
\* provider that has it: the button is not shown to the others.
THEOREM SettingsTypeCorrect == Spec => []TypeOK
<1>1. Inv => TypeOK
  BY DEF Inv
<1> QED
  BY <1>1, SettingsInvariant, PTL

\* No change sent from a page that is up to date lets a card that needs 3D
\* Secure be accepted without it (payment_types_controller.js:32,
\* views/3d_secure/index.njk), when the cards of one brand agree on the need.
THEOREM FreshChangesAreSafe == BrandsAgree => (Spec => []MaestroNeeds3ds)
<1> SUFFICES ASSUME BrandsAgree PROVE Spec => []MaestroNeeds3ds
  OBVIOUS
<1>1. Inv => MaestroNeeds3ds
  BY FreshChange
<1> QED
  BY <1>1, SettingsInvariant, PTL

\* Saving the cards as the form shows them keeps them
\* (payment_types_controller.js:71): they were saved with a form before.
THEOREM SavingAgainKeeps == Spec => []ResaveKeeps
<1>1. Inv => ResaveKeeps
  BY ResavedSame
<1> QED
  BY <1>1, SettingsInvariant, PTL
=============================================================================
