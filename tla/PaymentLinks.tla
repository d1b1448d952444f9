----------------------------- MODULE PaymentLinks -----------------------------
(***************************************************************************)
(* The products of an account: payment links (ADHOC), the links of the     *)
(* demo service (PROTOTYPE) and demo payments (DEMO).                      *)
(*                                                                         *)
(* What is typed for a product is kept in the session cookie, which all    *)
(* tabs share.  A handler that calls nobody is one step.  Making a product *)
(* is two calls, a token of publicauth and the product itself, and the     *)
(* request works on the copy of the cookie it came with: its reply         *)
(* overwrites what other tabs have saved meanwhile.                        *)
(***************************************************************************)
EXTENDS Integers, FiniteSets

CONSTANTS
    Tabs,
    Played,            \* bound: the sets of kinds that are made together
    Titles, NoTitle,   \* a title stands for the description too
    Amounts,           \* amounts typed, in pence
    Below, Above,      \* those whose pounds * 100 is less, or more, than whole
    Highest, Default,  \* MAX_AMOUNT and DEFAULTS of the demo, in pence
    Blank, Invalid,    \* other input: nothing, and not an amount
    NoAmount,
    MaxTokens,         \* bound: no product is begun after as many tokens
    MaxAttempts        \* how often a client sends a call

LinksAssumption ==
    /\ Played \subseteq SUBSET {"ADHOC", "PROTOTYPE", "DEMO"}
    /\ NoTitle \notin Titles
    /\ Amounts \subseteq Nat /\ {Default, Highest} \subseteq Nat
    /\ Below \subseteq Amounts \ {0} /\ Above \subseteq Amounts \ Below
    /\ Invalid \notin Nat /\ NoAmount \notin Nat /\ Invalid # NoAmount
    /\ MaxTokens \in Nat /\ MaxAttempts \in Nat \ {0}

VARIABLES
    session,    \* session.pageData of the cookie: what is typed, by kind
    tab,
    tokens,     \* publicauth: the number of tokens that were heard of
    products    \* the products service: the products not disabled

vars == <<session, tab, tokens, products>>

-----------------------------------------------------------------------------
Kinds == UNION Played

Data == [title : Titles \cup {NoTitle},
         amount : Amounts \cup {Default, Invalid, NoAmount}]

Empty == [title |-> NoTitle, amount |-> NoAmount]

\* The price is in tenths of a penny, to tell one that is not whole.
Product == [by : Tabs, attempt : 1 .. MaxAttempts, kind : Kinds, title : Titles,
            price : Nat \cup {NoAmount}, token : Nat]

Made == {"live", "failed"}

\* page: where the tab is; shown: the data its page shows, or showed when the
\* form was sent; copy: the cookie that was sent with it.
Cookies == UNION {[kinds -> Data] : kinds \in Played}

Tab == [page : {"form", "review", "card", "token", "product"} \cup Made,
        kind : Kinds, shown : Data, copy : Cookies,
        token : Nat, attempt : 1 .. MaxAttempts]

TypeOK == /\ session \in Cookies
          /\ tab \in [Tabs -> Tab]
          /\ tokens \in Nat
          /\ products \subseteq Product

Nothing(kinds) == [k \in kinds |-> Empty]

At(p, k, d) == [page |-> p, kind |-> k, shown |-> d,
                copy |-> Nothing(DOMAIN session), token |-> 0, attempt |-> 1]

Init == /\ session \in {Nothing(kinds) : kinds \in Played}
        /\ tab \in [Tabs -> {At("form", k, Empty) : k \in DOMAIN session}]
        /\ tokens = 0
        /\ products = {}

-----------------------------------------------------------------------------
(* The amounts                                                             *)

\* currency_formatter: nothing stays undefined, the rest has to be digits.
Formatted(typed) == IF typed = Blank THEN NoAmount ELSE typed

Times100(a) == CASE a \in Below -> 10 * a - 1
                 [] a \in Above -> 10 * a + 1
                 [] OTHER      -> 10 * a

Trunc(p) == p - (p % 10)

\* A link without an amount has no price, nor has one with NaN.
Price(k, a) == IF a \in {NoAmount, Invalid} THEN NoAmount
               ELSE IF k = "ADHOC" THEN Times100(a) ELSE Trunc(Times100(a))

TooHigh(a) == a # Invalid /\ a > Highest

-----------------------------------------------------------------------------
(* Typing                                                                  *)

Busy(t) == tab[t].page \in {"token", "product"}

Serve(t, k) == ~Busy(t) /\ k \in DOMAIN session /\ UNCHANGED <<tokens, products>>

Save(k, d) == session' = [session EXCEPT ![k] = d]

Show(t, page, k, d) == tab' = [tab EXCEPT ![t] = At(page, k, d)]

GetStart(t) ==
    /\ Serve(t, "ADHOC")
    /\ Save("ADHOC", Empty)
    /\ Show(t, "form", "ADHOC", Empty)

\* The title is saved even when it is empty and asked for again.
PostInformation(t) ==
    /\ Serve(t, "ADHOC")
    /\ \E title \in Titles \cup {NoTitle} :
          Save("ADHOC", [session["ADHOC"] EXCEPT !.title = title])
    /\ Show(t, "form", "ADHOC", Empty)

PostAmount(t) ==
    /\ Serve(t, "ADHOC")
    /\ \E type \in {"fixed", "variable", ""}, typed \in Amounts \cup {Blank, Invalid} :
          IF type = "" \/ Formatted(typed) = Invalid
          THEN UNCHANGED session
          ELSE Save("ADHOC", [session["ADHOC"] EXCEPT !.amount =
                      IF type = "variable" THEN NoAmount ELSE Formatted(typed)])
    /\ Show(t, "form", "ADHOC", Empty)

GetReview(t) ==
    /\ Serve(t, "ADHOC")
    /\ Show(t, "review", "ADHOC", session["ADHOC"])
    /\ UNCHANGED session

\* The amount typed, or else the one saved, or else the default.
DemoAmount(typed) ==
    IF typed # Blank THEN typed
    ELSE IF session["DEMO"].amount # NoAmount THEN session["DEMO"].amount
    ELSE Default

\* A bad amount is saved as well: it is shown to be corrected.
DemoIndex(t) ==
    /\ Serve(t, "DEMO")
    /\ \E typed \in Amounts \cup {Blank, Invalid}, title \in Titles :
          LET a == DemoAmount(typed)
              d == [title |-> title, amount |-> a]
          IN  IF a = Invalid \/ TooHigh(a)
              THEN /\ Save("DEMO", [session["DEMO"] EXCEPT !.amount = a])
                   /\ Show(t, "form", "DEMO", Empty)
              ELSE /\ Save("DEMO", d)
                   /\ Show(t, "review", "DEMO", d)

Complete(d) == d.title # NoTitle /\ d.amount # NoAmount

MockCardDetails(t) ==
    /\ Serve(t, "DEMO") /\ tab[t].kind = "DEMO" /\ tab[t].page = "review"
    /\ IF Complete(session["DEMO"])
       THEN Show(t, "card", "DEMO", tab[t].shown)
       ELSE Show(t, "form", "DEMO", Empty)
    /\ UNCHANGED session

-----------------------------------------------------------------------------
(* Making a product                                                        *)

Submit(t, k, shown, copy) ==
    /\ tokens + Cardinality({u \in Tabs : tab[u].page = "token"}) < MaxTokens
    /\ tab' = [tab EXCEPT ![t] =
          [At("token", k, shown) EXCEPT !.copy = copy]]
    /\ UNCHANGED session

PostReview(t) ==
    /\ Serve(t, "ADHOC") /\ tab[t].kind = "ADHOC" /\ tab[t].page = "review"
    /\ IF session["ADHOC"].title = NoTitle
       THEN Show(t, "form", "ADHOC", Empty) /\ UNCHANGED session
       ELSE Submit(t, "ADHOC", tab[t].shown, session)

GoToPayment(t) ==
    /\ Serve(t, "DEMO") /\ tab[t].kind = "DEMO" /\ tab[t].page = "card"
    /\ IF Complete(session["DEMO"])
       THEN Submit(t, "DEMO", tab[t].shown, session)
       ELSE Show(t, "form", "DEMO", Empty) /\ UNCHANGED session

\* unseen: an error another request left in the session, or the address to
\* return to is not secure.
PostPrototype(t) ==
    /\ Serve(t, "PROTOTYPE")
    /\ \E typed \in Amounts \cup {Blank, Invalid}, title \in Titles \cup {NoTitle},
          unseen \in BOOLEAN :
          LET a == Formatted(typed)
              d == [title |-> title, amount |-> a]
          IN  IF ~Complete(d) \/ a = Invalid \/ TooHigh(a) \/ unseen
              THEN Save("PROTOTYPE", d) /\ Show(t, "form", "PROTOTYPE", Empty)
              ELSE Submit(t, "PROTOTYPE", d, [session EXCEPT !["PROTOTYPE"] = d])

\* The reply writes the copy back.
Reply(t, page, copy) ==
    /\ session' = copy
    /\ Show(t, page, tab[t].kind, Empty)

\* (as if it had been made)
CatchErrorAsLive(t) == Reply(t, "live", [tab[t].copy EXCEPT ![tab[t].kind] = Empty])

CatchError(t) == Reply(t, "failed", tab[t].copy)

CreateToken(t) ==
    /\ tab[t].page = "token"
    /\ tokens' = tokens + 1
    /\ tab' = [tab EXCEPT ![t].page = "product", ![t].token = tokens + 1,
                          ![t].attempt = 1]
    /\ UNCHANGED <<session, products>>

\* Refused, or broken down, perhaps after a token was made that nobody knows.
CreateTokenFails(t) ==
    /\ tab[t].page = "token"
    /\ CatchError(t)
    /\ UNCHANGED <<tokens, products>>

SendAgain(t) ==
    /\ tab[t].attempt < MaxAttempts
    /\ tab' = [tab EXCEPT ![t].attempt = @ + 1]
    /\ UNCHANGED session

CreateTokenUnheard(t) ==
    /\ tab[t].page = "token"
    /\ SendAgain(t)
    /\ UNCHANGED <<tokens, products>>

\* (of what the session has by now)
PayloadOfSession(t) ==
    LET d == session[tab[t].kind]
    IN  [by |-> t, attempt |-> tab[t].attempt, kind |-> tab[t].kind,
         title |-> d.title, price |-> Price(tab[t].kind, d.amount),
         token |-> tab[t].token]

Payload(t) ==
    LET d == tab[t].copy[tab[t].kind]
    IN  [by |-> t, attempt |-> tab[t].attempt, kind |-> tab[t].kind,
         title |-> d.title, price |-> Price(tab[t].kind, d.amount),
         token |-> tab[t].token]

NewProduct(t) == products' = products \cup {Payload(t)}

\* The reply clears what was typed and says that the product is live.
CreateProduct(t) ==
    /\ tab[t].page = "product"
    /\ NewProduct(t)
    /\ Reply(t, "live", [tab[t].copy EXCEPT ![tab[t].kind] = Empty])
    /\ UNCHANGED tokens

CreateProductFails(t) ==
    /\ tab[t].page = "product"
    /\ NewProduct(t) \/ UNCHANGED products
    /\ CatchError(t)
    /\ UNCHANGED tokens

\* This client sends again after every 5xx, whether or not it was served.
CreateProductAgain(t) ==
    /\ tab[t].page = "product"
    /\ NewProduct(t) \/ UNCHANGED products
    /\ SendAgain(t)
    /\ UNCHANGED tokens

\* A link of the page that lists the products of one kind.
Disable(t) ==
    /\ ~Busy(t)
    /\ \E p \in products :
          /\ p.kind # "DEMO"
          /\ products' = products \ {p}
          /\ Show(t, "form", p.kind, Empty)
    /\ UNCHANGED <<session, tokens>>

Type(t) == \/ GetStart(t) \/ PostInformation(t) \/ PostAmount(t)
           \/ GetReview(t) \/ DemoIndex(t) \/ MockCardDetails(t)

Call(t) == \/ CreateToken(t) \/ CreateTokenFails(t) \/ CreateTokenUnheard(t)
           \/ CreateProduct(t) \/ CreateProductFails(t) \/ CreateProductAgain(t)

Next == \E t \in Tabs :
            \/ Type(t)
            \/ PostReview(t) \/ GoToPayment(t) \/ PostPrototype(t)
            \/ Call(t)
            \/ Disable(t)

\* The back ends answer every call, sent MaxAttempts times at most: the clients
\* themselves wait without limit.
Spec == Init /\ [][Next]_vars /\ \A t \in Tabs : WF_vars(Call(t))

-----------------------------------------------------------------------------
(* Properties                                                              *)

\* The product has what the page showed that it was asked for from: the title,
\* and the price to the penny.
AsShown(p) ==
    LET shown == tab[p.by].shown
    IN  /\ p.title = shown.title
        /\ (p.price = NoAmount) = (shown.amount = NoAmount)
        /\ p.price # NoAmount => p.price - 10 * shown.amount \in -10 .. 10

\* The cookie sent with the form had what its page showed.
Current(t) == tab[t].copy[tab[t].kind] = tab[t].shown

\* Who creates a product gets what the page showed, whatever the other tabs
\* save while it is made, unless one of them had saved something else before
\* the form was sent (review, card and demo pages).
ReviewedIsMade ==
    [][\A p \in products' \ products : Current(p.by) => AsShown(p)]_vars

\* "Your payment link is now live": the product is there, and it has the
\* token this request asked for.
LiveIsMade ==
    [][\A t \in Tabs : Busy(t) /\ tab'[t].page = "live" =>
          \E p \in products' : p.by = t /\ p.token = tab[t].token]_vars

\* "The price of product in pence": it is the amount that was typed.
PriceIsInPence ==
    [][\A p \in products' \ products :
          Current(p.by) /\ p.price # NoAmount =>
              p.price = 10 * tab[p.by].shown.amount]_vars

\* Every request that makes a product is answered: no tab waits for ever.
Answered == \A t \in Tabs : []<>~Busy(t)
=============================================================================
