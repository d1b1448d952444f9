-------------------------- MODULE PaymentLinksProofs --------------------------
(***************************************************************************)
(* Theorems about PaymentLinks, for all sets of tabs, titles and amounts,  *)
(* kinds made together, and any number of tokens and attempts.             *)
(***************************************************************************)
EXTENDS PaymentLinks, TLAPS

\* What is typed for a payment link is an amount, whatever is asked again.
CookieOK(c) == "ADHOC" \in DOMAIN c => c["ADHOC"].amount # Invalid

\* What a page shows is an amount, and a request that makes a product has a
\* title in its copy of the cookie.
TabOK(r) ==
    /\ r.shown.amount # Invalid
    /\ CookieOK(r.copy)
    /\ r.page \in {"token", "product"} =>
          /\ r.kind \in DOMAIN r.copy
          /\ r.copy[r.kind].title \in Titles

Inv == TypeOK /\ CookieOK(session) /\ \A t \in Tabs : TabOK(tab[t])

-----------------------------------------------------------------------------
(* Cookies and tabs                                                        *)

LEMMA CookieShape ==
    ASSUME NEW c \in Cookies
    PROVE  /\ DOMAIN c \in Played
           /\ \A k \in DOMAIN c :
                 /\ k \in Kinds /\ c[k] \in Data
                 /\ \A d \in Data : LET e == [c EXCEPT ![k] = d] IN
                       e \in Cookies /\ DOMAIN e = DOMAIN c /\ e[k] = d
<1>1. PICK kinds \in Played : c \in [kinds -> Data]
  BY DEF Cookies
<1>2. DOMAIN c = kinds
  BY <1>1
<1> QED
  BY <1>1, <1>2 DEF Cookies, Kinds

LEMMA EmptyData == LinksAssumption => Empty \in Data /\ Empty.amount # Invalid
BY DEF Empty, Data, LinksAssumption

\* Another amount or title for one kind.
LEMMA SaveKeeps ==
    ASSUME NEW c \in Cookies, CookieOK(c), NEW k \in DOMAIN c, NEW d \in Data,
           k = "ADHOC" => d.amount # Invalid
    PROVE  /\ [c EXCEPT ![k] = d] \in Cookies /\ CookieOK([c EXCEPT ![k] = d])
           /\ k \in DOMAIN [c EXCEPT ![k] = d] /\ [c EXCEPT ![k] = d][k] = d
<1> DEFINE e == [c EXCEPT ![k] = d]
<1>1. e \in Cookies /\ DOMAIN e = DOMAIN c /\ e[k] = d
  BY CookieShape
<1>2. k # "ADHOC" /\ "ADHOC" \in DOMAIN c => e["ADHOC"] = c["ADHOC"]
  OBVIOUS
<1>3. CookieOK(e)
  BY <1>1, <1>2 DEF CookieOK
<1> QED
  BY <1>1, <1>3

LEMMA AtShape ==
    ASSUME LinksAssumption, session \in Cookies,
           NEW p \in {"form", "review", "card", "token", "product"} \cup Made,
           NEW k \in Kinds, NEW d \in Data, d.amount # Invalid
    PROVE  /\ At(p, k, d) \in Tab
           /\ p \notin {"token", "product"} => TabOK(At(p, k, d))
<1>1. Nothing(DOMAIN session) \in Cookies /\ CookieOK(Nothing(DOMAIN session))
  BY CookieShape, EmptyData DEF Nothing, Cookies, CookieOK
<1>2. 1 \in 1 .. MaxAttempts /\ 0 \in Nat
  BY DEF LinksAssumption
<1> QED
  BY <1>1, <1>2 DEF At, Tab, TabOK

\* A step of one tab.
LEMMA TabStep ==
    ASSUME Inv, NEW t \in Tabs, NEW r \in Tab, TabOK(r),
           tab' = [tab EXCEPT ![t] = r],
           session' \in Cookies, CookieOK(session'),
           tokens' \in Nat, products' \subseteq Product
    PROVE  Inv'
<1>1. tab' \in [Tabs -> Tab] /\ \A u \in Tabs : TabOK(tab'[u])
  BY DEF Inv, TypeOK
<1> QED
  BY <1>1 DEF Inv, TypeOK

\* A page is shown and, at most, something is saved.
LEMMA ShowInv ==
    ASSUME LinksAssumption, Inv, NEW t \in Tabs,
           NEW p \in {"form", "review", "card"} \cup Made,
           NEW k \in Kinds, NEW d \in Data, d.amount # Invalid,
           Show(t, p, k, d),
           session' \in Cookies, CookieOK(session'),
           tokens' = tokens, products' \subseteq Product
    PROVE  Inv'
<1>1. session \in Cookies /\ tokens \in Nat
  BY DEF Inv, TypeOK
<1>2. At(p, k, d) \in Tab /\ TabOK(At(p, k, d))
  BY <1>1, AtShape DEF Made
<1>3. tab' = [tab EXCEPT ![t] = At(p, k, d)]
  BY DEF Show
<1> QED
  BY <1>1, <1>2, <1>3, TabStep

LEMMA InitInv == ASSUME LinksAssumption, Init PROVE Inv
<1>1. session \in Cookies /\ CookieOK(session)
  BY EmptyData DEF Init, Nothing, Cookies, CookieOK
<1>2. \A k \in DOMAIN session : /\ At("form", k, Empty) \in Tab
                                /\ TabOK(At("form", k, Empty))
  BY <1>1, AtShape, EmptyData, CookieShape
<1>3. tab \in [Tabs -> {At("form", k, Empty) : k \in DOMAIN session}]
      /\ tokens = 0 /\ products = {}
  BY DEF Init
<1>4. tab \in [Tabs -> Tab] /\ \A t \in Tabs : TabOK(tab[t])
  BY <1>2, <1>3
<1> QED
  BY <1>1, <1>3, <1>4 DEF Inv, TypeOK

-----------------------------------------------------------------------------
(* Typing                                                                  *)

LEMMA Served ==
    ASSUME Inv, NEW t \in Tabs, NEW k, Serve(t, k)
    PROVE  /\ session \in Cookies /\ CookieOK(session)
           /\ k \in DOMAIN session /\ k \in Kinds /\ session[k] \in Data
           /\ tokens' = tokens /\ products' = products /\ products \subseteq Product
BY CookieShape DEF Inv, TypeOK, Serve

LEMMA GetStartInv ==
    ASSUME LinksAssumption, Inv, NEW t \in Tabs, GetStart(t)
    PROVE  Inv'
<1>1. Serve(t, "ADHOC") /\ Save("ADHOC", Empty) /\ Show(t, "form", "ADHOC", Empty)
  BY DEF GetStart
<1>2. session' \in Cookies /\ CookieOK(session')
  BY <1>1, Served, SaveKeeps, EmptyData DEF Save
<1> QED
  BY <1>1, <1>2, Served, EmptyData, ShowInv

LEMMA PostInformationInv ==
    ASSUME LinksAssumption, Inv, NEW t \in Tabs, PostInformation(t)
    PROVE  Inv'
<1>1. PICK title \in Titles \cup {NoTitle} :
        Save("ADHOC", [session["ADHOC"] EXCEPT !.title = title])
  BY DEF PostInformation
<1>2. Serve(t, "ADHOC") /\ Show(t, "form", "ADHOC", Empty)
  BY DEF PostInformation
<1> DEFINE d == [session["ADHOC"] EXCEPT !.title = title]
<1>3. /\ session["ADHOC"] \in Data /\ session["ADHOC"].amount # Invalid
      /\ session \in Cookies /\ CookieOK(session) /\ "ADHOC" \in DOMAIN session
  BY <1>2, Served DEF CookieOK
<1>4. d \in Data /\ d.amount # Invalid
  BY <1>3 DEF Data
<1>5. session' = [session EXCEPT !["ADHOC"] = d]
  BY <1>1 DEF Save
<1> HIDE DEF d
<1>6. session' \in Cookies /\ CookieOK(session')
  BY <1>3, <1>4, <1>5, SaveKeeps
<1> QED
  BY <1>2, <1>6, Served, EmptyData, ShowInv

LEMMA PostAmountInv ==
    ASSUME LinksAssumption, Inv, NEW t \in Tabs, PostAmount(t)
    PROVE  Inv'
<1>1. Serve(t, "ADHOC") /\ Show(t, "form", "ADHOC", Empty)
  BY DEF PostAmount
<1>2. /\ session["ADHOC"] \in Data /\ session["ADHOC"].amount # Invalid
      /\ session \in Cookies /\ CookieOK(session) /\ "ADHOC" \in DOMAIN session
  BY <1>1, Served DEF CookieOK
<1>3. CASE session' = session
  BY <1>1, <1>2, <1>3, Served, EmptyData, ShowInv
<1>4. CASE session' # session
  <2>1. PICK type \in {"fixed", "variable", ""},
             typed \in Amounts \cup {Blank, Invalid} :
          /\ Formatted(typed) # Invalid
          /\ Save("ADHOC", [session["ADHOC"] EXCEPT !.amount =
                  IF type = "variable" THEN NoAmount ELSE Formatted(typed)])
    BY <1>4 DEF PostAmount
  <2> DEFINE a == IF type = "variable" THEN NoAmount ELSE Formatted(typed)
             d == [session["ADHOC"] EXCEPT !.amount = a]
  <2>2. a \in Amounts \cup {Default, Invalid, NoAmount} /\ a # Invalid
    BY <2>1 DEF Formatted, LinksAssumption
  <2>3. session' = [session EXCEPT !["ADHOC"] = d]
    BY <2>1 DEF Save
  <2> HIDE DEF a
  <2>4. d \in Data /\ d.amount # Invalid
    BY <1>2, <2>2 DEF Data
  <2> HIDE DEF d
  <2>5. session' \in Cookies /\ CookieOK(session')
    BY <1>2, <2>3, <2>4, SaveKeeps
  <2> QED
    BY <1>1, <2>5, Served, EmptyData, ShowInv
<1> QED
  BY <1>3, <1>4

LEMMA GetReviewInv ==
    ASSUME LinksAssumption, Inv, NEW t \in Tabs, GetReview(t)
    PROVE  Inv'
<1>1. Serve(t, "ADHOC") /\ Show(t, "review", "ADHOC", session["ADHOC"])
      /\ session' = session
  BY DEF GetReview
<1>2. session["ADHOC"] \in Data /\ session["ADHOC"].amount # Invalid
  BY <1>1, Served DEF CookieOK
<1> QED
  BY <1>1, <1>2, Served, ShowInv

LEMMA DemoIndexInv ==
    ASSUME LinksAssumption, Inv, NEW t \in Tabs, DemoIndex(t)
    PROVE  Inv'
<1>1. Serve(t, "DEMO")
  BY DEF DemoIndex
<1>2. PICK typed \in Amounts \cup {Blank, Invalid}, title \in Titles :
        LET a == DemoAmount(typed)
            d == [title |-> title, amount |-> a]
        IN  IF a = Invalid \/ TooHigh(a)
            THEN /\ Save("DEMO", [session["DEMO"] EXCEPT !.amount = a])
                 /\ Show(t, "form", "DEMO", Empty)
            ELSE /\ Save("DEMO", d)
                 /\ Show(t, "review", "DEMO", d)
  BY DEF DemoIndex
<1> DEFINE a == DemoAmount(typed)
           d == [title |-> title, amount |-> a]
           e == [session["DEMO"] EXCEPT !.amount = a]
<1>3. session["DEMO"] \in Data /\ "DEMO" \in DOMAIN session
      /\ session \in Cookies /\ CookieOK(session) /\ "DEMO" \in Kinds
  BY <1>1, Served
<1>4. a \in Amounts \cup {Default, Invalid, NoAmount}
  BY <1>3 DEF DemoAmount, Data
<1> HIDE DEF a
<1>5. d \in Data /\ d.amount = a /\ e \in Data
  BY <1>3, <1>4 DEF Data
<1>6. CASE a = Invalid \/ TooHigh(a)
  <2>1. session' = [session EXCEPT !["DEMO"] = e] /\ Show(t, "form", "DEMO", Empty)
    BY <1>2, <1>6 DEF Save, a
  <2> HIDE DEF d, e
  <2>2. session' \in Cookies /\ CookieOK(session')
    BY <1>3, <1>5, <2>1, SaveKeeps
  <2> QED
    BY <1>1, <2>1, <2>2, Served, EmptyData, ShowInv
<1>7. CASE ~(a = Invalid \/ TooHigh(a))
  <2>1. session' = [session EXCEPT !["DEMO"] = d] /\ Show(t, "review", "DEMO", d)
    BY <1>2, <1>7 DEF Save, a
  <2> HIDE DEF d, e
  <2>2. session' \in Cookies /\ CookieOK(session')
    BY <1>3, <1>5, <2>1, SaveKeeps
  <2> QED
    BY <1>1, <1>5, <1>7, <2>1, <2>2, Served, ShowInv
<1> QED
  BY <1>6, <1>7

LEMMA MockCardDetailsInv ==
    ASSUME LinksAssumption, Inv, NEW t \in Tabs, MockCardDetails(t)
    PROVE  Inv'
<1>1. Serve(t, "DEMO") /\ session' = session
  BY DEF MockCardDetails
<1>2. tab[t].shown \in Data /\ tab[t].shown.amount # Invalid
  BY DEF Inv, TypeOK, Tab, TabOK
<1> QED
  BY <1>1, <1>2, Served, EmptyData, ShowInv DEF MockCardDetails

-----------------------------------------------------------------------------
(* Making a product                                                        *)

LEMMA SubmitInv ==
    ASSUME LinksAssumption, Inv, NEW t \in Tabs, NEW k \in Kinds,
           NEW shown \in Data, shown.amount # Invalid,
           NEW copy \in Cookies, CookieOK(copy), k \in DOMAIN copy,
           copy[k].title \in Titles,
           Submit(t, k, shown, copy), UNCHANGED <<tokens, products>>
    PROVE  Inv'
<1> DEFINE r == [At("token", k, shown) EXCEPT !.copy = copy]
<1>1. session \in Cookies /\ CookieOK(session) /\ tokens \in Nat /\ products \subseteq Product
  BY DEF Inv, TypeOK
<1>2. tab' = [tab EXCEPT ![t] = r] /\ session' = session
  BY DEF Submit
<1>3. r \in Tab
  <2>1. At("token", k, shown) \in Tab
    BY <1>1, AtShape
  <2> QED
    BY <2>1 DEF Tab
<1>4. r.copy = copy /\ r.kind = k /\ r.shown = shown
  BY DEF At
<1> HIDE DEF r
<1>5. TabOK(r)
  BY <1>4 DEF TabOK
<1> QED
  BY <1>1, <1>2, <1>3, <1>5, TabStep

LEMMA PostReviewInv ==
    ASSUME LinksAssumption, Inv, NEW t \in Tabs, PostReview(t)
    PROVE  Inv'
<1>1. Serve(t, "ADHOC")
  BY DEF PostReview
<1>2. tab[t].shown \in Data /\ tab[t].shown.amount # Invalid
  BY DEF Inv, TypeOK, Tab, TabOK
<1>3. CASE session["ADHOC"].title = NoTitle
  BY <1>1, <1>3, Served, EmptyData, ShowInv DEF PostReview
<1>4. CASE session["ADHOC"].title # NoTitle
  <2>1. session["ADHOC"].title \in Titles
    BY <1>1, <1>4, Served DEF Data
  <2>2. Submit(t, "ADHOC", tab[t].shown, session)
    BY <1>4 DEF PostReview
  <2> QED
    BY <1>1, <1>2, <2>1, <2>2, Served, SubmitInv
<1> QED
  BY <1>3, <1>4

LEMMA GoToPaymentInv ==
    ASSUME LinksAssumption, Inv, NEW t \in Tabs, GoToPayment(t)
    PROVE  Inv'
<1>1. Serve(t, "DEMO")
  BY DEF GoToPayment
<1>2. tab[t].shown \in Data /\ tab[t].shown.amount # Invalid
  BY DEF Inv, TypeOK, Tab, TabOK
<1>3. CASE ~Complete(session["DEMO"])
  BY <1>1, <1>3, Served, EmptyData, ShowInv DEF GoToPayment
<1>4. CASE Complete(session["DEMO"])
  <2>1. session["DEMO"].title \in Titles
    BY <1>1, <1>4, Served DEF Data, Complete
  <2>2. Submit(t, "DEMO", tab[t].shown, session)
    BY <1>4 DEF GoToPayment
  <2> QED
    BY <1>1, <1>2, <2>1, <2>2, Served, SubmitInv
<1> QED
  BY <1>3, <1>4

LEMMA PostPrototypeInv ==
    ASSUME LinksAssumption, Inv, NEW t \in Tabs, PostPrototype(t)
    PROVE  Inv'
<1>1. PICK typed \in Amounts \cup {Blank, Invalid}, title \in Titles \cup {NoTitle},
           unseen \in BOOLEAN :
        LET a == Formatted(typed)
            d == [title |-> title, amount |-> a]
        IN  IF ~Complete(d) \/ a = Invalid \/ TooHigh(a) \/ unseen
            THEN Save("PROTOTYPE", d) /\ Show(t, "form", "PROTOTYPE", Empty)
            ELSE Submit(t, "PROTOTYPE", d, [session EXCEPT !["PROTOTYPE"] = d])
  BY DEF PostPrototype
<1> DEFINE d == [title |-> title, amount |-> Formatted(typed)]
           e == [session EXCEPT !["PROTOTYPE"] = d]
<1>2. Serve(t, "PROTOTYPE") /\ UNCHANGED <<tokens, products>>
  BY DEF PostPrototype, Serve
<1>3. d \in Data /\ d.title = title /\ d.amount = Formatted(typed)
  BY DEF Data, Formatted
<1>4. IF ~Complete(d) \/ d.amount = Invalid \/ TooHigh(d.amount) \/ unseen
      THEN session' = e /\ Show(t, "form", "PROTOTYPE", Empty)
      ELSE Submit(t, "PROTOTYPE", d, e)
  BY <1>1, <1>3 DEF Save
<1> HIDE DEF d
<1>5. e \in Cookies /\ CookieOK(e) /\ "PROTOTYPE" \in DOMAIN e /\ e["PROTOTYPE"] = d
  BY <1>2, <1>3, Served, SaveKeeps
<1> HIDE DEF e
<1>6. CASE ~Complete(d) \/ d.amount = Invalid \/ TooHigh(d.amount) \/ unseen
  BY <1>2, <1>4, <1>5, <1>6, Served, EmptyData, ShowInv
<1>7. CASE ~(~Complete(d) \/ d.amount = Invalid \/ TooHigh(d.amount) \/ unseen)
  <2>1. d.title \in Titles /\ d.amount # Invalid
    BY <1>3, <1>7 DEF Complete
  <2>2. Submit(t, "PROTOTYPE", d, e)
    BY <1>4, <1>7
  <2> QED
    BY <1>2, <1>3, <1>5, <2>1, <2>2, Served, SubmitInv
<1> QED
  BY <1>6, <1>7

-----------------------------------------------------------------------------
(* Calls                                                                   *)

LEMMA BusyTab ==
    ASSUME Inv, NEW t \in Tabs, Busy(t)
    PROVE  LET r == tab[t] IN
           /\ r \in Tab /\ TabOK(r)
           /\ r.copy \in Cookies /\ CookieOK(r.copy) /\ r.kind \in DOMAIN r.copy
           /\ r.kind \in Kinds /\ r.copy[r.kind] \in Data
           /\ r.copy[r.kind].title \in Titles
           /\ tokens \in Nat /\ products \subseteq Product
           /\ session \in Cookies /\ CookieOK(session)
<1>1. tab[t] \in Tab /\ TabOK(tab[t])
  BY DEF Inv, TypeOK
<1>2. tab[t].copy \in Cookies /\ tab[t].kind \in Kinds
  BY <1>1 DEF Tab
<1> QED
  BY <1>1, <1>2, CookieShape DEF Inv, TypeOK, Busy, TabOK

\* The price that is sent is within a penny of the amount.
LEMMA PriceNear ==
    ASSUME LinksAssumption, NEW k, NEW a \in Amounts \cup {Default, Invalid, NoAmount}
    PROVE  /\ Price(k, a) \in Nat \cup {NoAmount}
           /\ a # Invalid => (Price(k, a) = NoAmount <=> a = NoAmount)
           /\ a \notin {Invalid, NoAmount} => Price(k, a) - 10 * a \in -10 .. 10
<1>1. CASE a \in {Invalid, NoAmount}
  <2>1. Price(k, a) = NoAmount
    BY <1>1 DEF Price
  <2> QED
    BY <1>1, <2>1
<1>2. CASE a \notin {Invalid, NoAmount}
  <2>1. a \in Nat /\ (a \in Below => a > 0)
    BY <1>2 DEF LinksAssumption
  <2>2. Times100(a) \in Nat /\ Times100(a) - 10 * a \in -1 .. 1
    BY <2>1 DEF Times100
  <2> DEFINE p == Times100(a)
  <2>3. Trunc(p) \in Nat /\ Trunc(p) <= p /\ p <= Trunc(p) + 9
    <3> HIDE DEF p
    <3>1. p \in Nat /\ p % 10 \in 0 .. 9 /\ p % 10 <= p
      BY <2>2 DEF p
    <3> QED
      BY <3>1 DEF Trunc
  <2>4. Price(k, a) \in {p, Trunc(p)}
    BY <1>2 DEF Price
  <2>5. Price(k, a) \in Nat /\ Price(k, a) - 10 * a \in -10 .. 10
    <3> HIDE DEF p
    <3> QED
      BY <2>1, <2>2, <2>3, <2>4 DEF p
  <2> QED
    BY <1>2, <2>5 DEF LinksAssumption
<1> QED
  BY <1>1, <1>2

LEMMA PayloadShape ==
    ASSUME LinksAssumption, Inv, NEW t \in Tabs, Busy(t)
    PROVE  /\ Payload(t) \in Product
           /\ Payload(t).by = t /\ Payload(t).token = tab[t].token
           /\ Payload(t).title = tab[t].copy[tab[t].kind].title
           /\ Payload(t).price = Price(tab[t].kind, tab[t].copy[tab[t].kind].amount)
<1> DEFINE d == tab[t].copy[tab[t].kind]
<1>1. /\ tab[t] \in Tab /\ d \in Data /\ d.title \in Titles
  BY BusyTab
<1>2. Price(tab[t].kind, d.amount) \in Nat \cup {NoAmount}
  BY <1>1, PriceNear DEF Data
<1> HIDE DEF d
<1>3. Payload(t) = [by |-> t, attempt |-> tab[t].attempt, kind |-> tab[t].kind,
                    title |-> d.title, price |-> Price(tab[t].kind, d.amount),
                    token |-> tab[t].token]
  BY DEF Payload, d
<1> QED
  BY <1>1, <1>2, <1>3 DEF Product, Tab, d

\* The request is answered with its copy, in which the product just made may
\* have been cleared.
LEMMA ReplyInv ==
    ASSUME LinksAssumption, Inv, NEW t \in Tabs, Busy(t),
           NEW page \in Made, NEW copy \in Cookies, CookieOK(copy),
           Reply(t, page, copy), tokens' = tokens, products' \subseteq Product
    PROVE  Inv'
BY BusyTab, EmptyData, ShowInv DEF Reply

\* Another attempt, or the second call.
LEMMA GoesOn ==
    ASSUME LinksAssumption, Inv, NEW t \in Tabs, Busy(t),
           NEW page \in {"token", "product"}, NEW token \in Nat,
           NEW attempt \in 1 .. MaxAttempts,
           tab' = [tab EXCEPT ![t] = [tab[t] EXCEPT !.page = page, !.token = token,
                                                    !.attempt = attempt]],
           session' = session, tokens' \in Nat, products' \subseteq Product
    PROVE  Inv'
<1> DEFINE r == [tab[t] EXCEPT !.page = page, !.token = token, !.attempt = attempt]
<1>1. r \in Tab /\ r.shown = tab[t].shown /\ r.copy = tab[t].copy /\ r.kind = tab[t].kind
  BY BusyTab DEF Tab
<1> HIDE DEF r
<1>2. TabOK(r)
  BY <1>1, BusyTab DEF TabOK, Busy
<1>3. tab' = [tab EXCEPT ![t] = r]
  BY DEF r
<1> QED
  BY <1>1, <1>2, <1>3, BusyTab, TabStep

LEMMA TokenInv ==
    ASSUME LinksAssumption, Inv, NEW t \in Tabs,
           CreateToken(t) \/ CreateTokenFails(t) \/ CreateTokenUnheard(t)
    PROVE  Inv'
<1>1. Busy(t) /\ tab[t].page = "token" /\ products' = products
  BY DEF CreateToken, CreateTokenFails, CreateTokenUnheard, Busy
<1>2. tab \in [Tabs -> Tab] /\ tab[t] \in Tab
  BY DEF Inv, TypeOK
<1>3. CASE CreateToken(t)
  <2>1. tab' = [tab EXCEPT ![t] = [tab[t] EXCEPT !.page = "product",
                                      !.token = tokens + 1, !.attempt = 1]]
    BY <1>2, <1>3 DEF CreateToken, Tab
  <2>2. tokens + 1 \in Nat /\ 1 \in 1 .. MaxAttempts
    BY <1>1, BusyTab DEF LinksAssumption
  <2>3. session' = session /\ tokens' \in Nat /\ products' \subseteq Product
    BY <1>1, <1>3, <2>2, BusyTab DEF CreateToken
  <2> DEFINE n == tokens + 1
  <2> HIDE DEF n
  <2>4. /\ n \in Nat
        /\ tab' = [tab EXCEPT ![t] = [tab[t] EXCEPT !.page = "product",
                                      !.token = n, !.attempt = 1]]
    BY <2>1, <2>2 DEF n
  <2> QED
    BY <1>1, <2>2, <2>3, <2>4, GoesOn
<1>4. CASE CreateTokenFails(t)
  BY <1>1, <1>4, BusyTab, ReplyInv DEF CreateTokenFails, CatchError, Made
<1>5. CASE CreateTokenUnheard(t)
  <2>1. tab[t].attempt + 1 \in 1 .. MaxAttempts /\ tab[t].token \in Nat
    BY <1>2, <1>5 DEF CreateTokenUnheard, SendAgain, Tab, LinksAssumption
  <2>2. tab' = [tab EXCEPT ![t] = [tab[t] EXCEPT !.page = "token",
                  !.token = tab[t].token, !.attempt = tab[t].attempt + 1]]
    BY <1>1, <1>2, <1>5 DEF CreateTokenUnheard, SendAgain, Tab
  <2> QED
    BY <1>1, <1>5, <2>1, <2>2, BusyTab, GoesOn DEF CreateTokenUnheard, SendAgain
<1> QED
  BY <1>3, <1>4, <1>5

LEMMA ProductInv ==
    ASSUME LinksAssumption, Inv, NEW t \in Tabs,
           CreateProduct(t) \/ CreateProductFails(t) \/ CreateProductAgain(t)
    PROVE  Inv'
<1>1. Busy(t) /\ tab[t].page = "product" /\ tokens' = tokens
  BY DEF CreateProduct, CreateProductFails, CreateProductAgain, Busy
<1>2. tab \in [Tabs -> Tab] /\ tab[t] \in Tab
  BY DEF Inv, TypeOK
<1>3. products' \subseteq Product
  BY <1>1, BusyTab, PayloadShape
  DEF CreateProduct, CreateProductFails, CreateProductAgain, NewProduct
<1>4. CASE CreateProduct(t)
  <2> DEFINE copy == [tab[t].copy EXCEPT ![tab[t].kind] = Empty]
  <2>1. copy \in Cookies /\ CookieOK(copy)
    BY <1>1, BusyTab, SaveKeeps, EmptyData
  <2>2. Reply(t, "live", copy)
    BY <1>4 DEF CreateProduct
  <2> HIDE DEF copy
  <2> QED
    BY <1>1, <1>3, <2>1, <2>2, ReplyInv DEF Made
<1>5. CASE CreateProductFails(t)
  BY <1>1, <1>3, <1>5, BusyTab, ReplyInv DEF CreateProductFails, CatchError, Made
<1>6. CASE CreateProductAgain(t)
  <2>1. tab[t].attempt + 1 \in 1 .. MaxAttempts /\ tab[t].token \in Nat
    BY <1>2, <1>6 DEF CreateProductAgain, SendAgain, Tab, LinksAssumption
  <2>2. tab' = [tab EXCEPT ![t] = [tab[t] EXCEPT !.page = "product",
                  !.token = tab[t].token, !.attempt = tab[t].attempt + 1]]
    BY <1>1, <1>2, <1>6 DEF CreateProductAgain, SendAgain, Tab
  <2>3. session' = session /\ tokens' \in Nat
    BY <1>1, <1>6, BusyTab DEF CreateProductAgain, SendAgain
  <2> QED
    BY <1>1, <1>3, <2>1, <2>2, <2>3, GoesOn
<1> QED
  BY <1>4, <1>5, <1>6

LEMMA DisableInv ==
    ASSUME LinksAssumption, Inv, NEW t \in Tabs, Disable(t)
    PROVE  Inv'
<1>1. PICK p \in products : products' = products \ {p} /\ Show(t, "form", p.kind, Empty)
  BY DEF Disable
<1>2. p.kind \in Kinds /\ products \subseteq Product
  BY DEF Inv, TypeOK, Product
<1>3. session' = session /\ tokens' = tokens /\ session \in Cookies /\ CookieOK(session)
  BY DEF Disable, Inv, TypeOK
<1> QED
  BY <1>1, <1>2, <1>3, EmptyData, ShowInv

LEMMA StepInv == ASSUME LinksAssumption, Inv, [Next]_vars PROVE Inv'
<1>1. CASE UNCHANGED vars
  BY <1>1 DEF vars, Inv, TypeOK
<1> QED
  BY <1>1, GetStartInv, PostInformationInv, PostAmountInv, GetReviewInv,
     DemoIndexInv, MockCardDetailsInv, PostReviewInv, GoToPaymentInv,
     PostPrototypeInv, TokenInv, ProductInv, DisableInv
  DEF Next, Type, Call

THEOREM LinksInvariant == LinksAssumption => (Spec => []Inv)
<1> SUFFICES ASSUME LinksAssumption PROVE Spec => []Inv
  OBVIOUS
<1>1. Init => Inv
  BY InitInv
<1>2. Inv /\ [Next]_vars => Inv'
  BY StepInv
<1> QED
  BY <1>1, <1>2, PTL DEF Spec

\* The type invariant of PaymentLinks holds for all constants.
THEOREM LinksTypeCorrect == LinksAssumption => (Spec => []TypeOK)
<1>1. Inv => TypeOK
  BY DEF Inv
<1> QED
  BY <1>1, LinksInvariant, PTL

-----------------------------------------------------------------------------
(* What a step does                                                        *)

\* A tab that waits moves by the calls of its own request alone.
LEMMA BusyMoves ==
    ASSUME Inv, [Next]_vars, NEW t \in Tabs, Busy(t), tab'[t] # tab[t]
    PROVE  Call(t)
<1>1. PICK u \in Tabs : \/ Type(u) \/ PostReview(u) \/ GoToPayment(u)
                        \/ PostPrototype(u) \/ Call(u) \/ Disable(u)
  BY DEF Next, vars
<1>2. tab \in [Tabs -> Tab]
  BY DEF Inv, TypeOK
<1>3. ASSUME u # t PROVE tab'[t] = tab[t]
  <2>1. CASE Type(u)
    BY <1>2, <1>3, <2>1 DEF Type, GetStart, PostInformation, PostAmount,
                            GetReview, DemoIndex, MockCardDetails, Show
  <2>2. CASE PostReview(u) \/ GoToPayment(u) \/ PostPrototype(u)
    BY <1>2, <1>3, <2>2 DEF PostReview, GoToPayment, PostPrototype, Submit, Show
  <2>3. CASE Call(u)
    BY <1>2, <1>3, <2>3
    DEF Call, CreateToken, CreateTokenFails, CreateTokenUnheard, CreateProduct,
        CreateProductFails, CreateProductAgain, SendAgain, CatchError, Reply, Show
  <2>4. CASE Disable(u)
    BY <1>2, <1>3, <2>4 DEF Disable, Show
  <2> QED
    BY <1>1, <2>1, <2>2, <2>3, <2>4
<1>4. ASSUME u = t PROVE Call(t)
  BY <1>1, <1>4 DEF Type, GetStart, PostInformation, PostAmount, GetReview,
                    DemoIndex, MockCardDetails, PostReview, GoToPayment,
                    PostPrototype, Disable, Serve
<1> QED
  BY <1>3, <1>4

\* A product comes into being by a call of the tab it is made by.
LEMMA ProductOfCall ==
    ASSUME LinksAssumption, Inv, [Next]_vars, NEW p \in products' \ products
    PROVE  \E t \in Tabs : Busy(t) /\ p = Payload(t)
<1>1. PICK t \in Tabs : CreateProduct(t) \/ CreateProductFails(t) \/ CreateProductAgain(t)
  BY DEF Next, vars, Type, Call, GetStart, PostInformation, PostAmount, GetReview,
         DemoIndex, MockCardDetails, PostReview, GoToPayment, PostPrototype,
         Serve, CreateToken, CreateTokenFails, CreateTokenUnheard, Disable
<1> QED
  BY <1>1 DEF CreateProduct, CreateProductFails, CreateProductAgain, NewProduct, Busy

LEMMA ReviewedStep ==
    ASSUME LinksAssumption, Inv, [Next]_vars, NEW p \in products' \ products,
           Current(p.by)
    PROVE  AsShown(p)
<1>1. PICK t \in Tabs : Busy(t) /\ p = Payload(t)
  BY ProductOfCall
<1> DEFINE a == tab[t].shown.amount
           k == tab[t].kind
<1>2. p.by = t
  BY <1>1, PayloadShape
<1>3. tab[t].copy[k] = tab[t].shown /\ a # Invalid
  BY <1>1, <1>2, BusyTab DEF TabOK, Current
<1>4. p.title = tab[t].shown.title /\ p.price = Price(k, a)
  BY <1>1, <1>3, PayloadShape
<1>5. a \in Amounts \cup {Default, Invalid, NoAmount}
  BY <1>1, BusyTab DEF Tab, Data
<1> HIDE DEF a, k
<1>6. /\ Price(k, a) = NoAmount <=> a = NoAmount
      /\ Price(k, a) # NoAmount => Price(k, a) - 10 * a \in -10 .. 10
  BY <1>3, <1>5, PriceNear DEF a
<1> QED
  BY <1>2, <1>4, <1>6 DEF a, AsShown

LEMMA LiveStep ==
    ASSUME Inv, [Next]_vars, NEW t \in Tabs, Busy(t), tab'[t].page = "live"
    PROVE  \E p \in products' : p.by = t /\ p.token = tab[t].token
<1>1. tab \in [Tabs -> Tab] /\ tab[t] \in Tab /\ tab[t].page \in {"token", "product"}
  BY DEF Inv, TypeOK, Busy
<1>2. Call(t)
  BY <1>1, BusyMoves
<1>3. ASSUME NEW page, NEW k, NEW d, Show(t, page, k, d) PROVE tab'[t].page = page
  BY <1>1, <1>3 DEF Show, At
<1>4. CreateProduct(t)
  BY <1>1, <1>2, <1>3
  DEF Call, CreateToken, CreateTokenFails, CreateTokenUnheard, CreateProductFails,
      CreateProductAgain, SendAgain, CatchError, Reply, Tab
<1>5. Payload(t) \in products'
  BY <1>4 DEF CreateProduct, NewProduct
<1>6. Payload(t).by = t /\ Payload(t).token = tab[t].token
  BY DEF Payload
<1> QED
  BY <1>5, <1>6

-----------------------------------------------------------------------------
\* A product has the title and, within a penny, the price that were shown,
\* whatever other tabs save while it is made (post-review-controller.js:52,
\* go_to_payment_controller.js:31, submit_controller.js:50).
THEOREM ProductIsAsReviewed == LinksAssumption => (Spec => ReviewedIsMade)
<1> SUFFICES ASSUME LinksAssumption PROVE Spec => ReviewedIsMade
  OBVIOUS
<1>1. Inv /\ [Next]_vars =>
        [\A p \in products' \ products : Current(p.by) => AsShown(p)]_vars
  BY ReviewedStep
<1> QED
  BY <1>1, LinksInvariant, PTL DEF Spec, ReviewedIsMade

\* Who is told that a link is live has a product of this very request
\* (post-review-controller.js:60), however often the call was repeated.
THEOREM LiveHasAProduct == LinksAssumption => (Spec => LiveIsMade)
<1> SUFFICES ASSUME LinksAssumption PROVE Spec => LiveIsMade
  OBVIOUS
<1>1. Inv /\ [Next]_vars =>
        [\A t \in Tabs : Busy(t) /\ tab'[t].page = "live" =>
            \E p \in products' : p.by = t /\ p.token = tab[t].token]_vars
  BY LiveStep
<1> QED
  BY <1>1, LinksInvariant, PTL DEF Spec, LiveIsMade
=============================================================================
