---------------------------- MODULE RefundsProofs ----------------------------
(***************************************************************************)
(* Theorems about Refunds, for every set of tabs and charges, all amounts  *)
(* and any number of attempts: who is told of success has a refund, and    *)
(* the books of every charge are right.                                    *)
(***************************************************************************)
EXTENDS Refunds, FiniteSetTheorems, TLAPS

\* Which values the fields have does not matter to the argument, only that
\* the fields are there.
Fields == {"shows", "call", "attempt", "charge", "read", "ofCharge", "typed", "amount"}

FormedTabs == DOMAIN tab = Tabs /\ \A t \in Tabs : DOMAIN tab[t] = Fields

FormedRefunds ==
    \A r \in refunds : {"by", "charge", "amount", "seen", "state"} \subseteq DOMAIN r

\* A tab that is told of success has a refund and no call under way, and the
\* call of a refund asks for what was chosen on the page.
TabOK(t) ==
    /\ tab[t].shows = "success" =>
          /\ tab[t].call = "none"
          /\ \E r \in refunds : IsOfPage(r, t)
    /\ tab[t].call = "postRefund" => tab[t].amount = Chosen(t, tab[t].typed)

Told == FormedTabs /\ FormedRefunds /\ \A t \in Tabs : TabOK(t)

-----------------------------------------------------------------------------
\* No refund is lost: it may become another state of itself.
Same(q, r) == /\ q.by = r.by /\ q.charge = r.charge
              /\ q.amount = r.amount /\ q.seen = r.seen

Kept == \A r \in refunds : \E q \in refunds' : Same(q, r)

\* A step that neither sends a refund nor tells anybody of success.
Harmless(t) == tab'[t].shows # "success" /\ tab'[t].call # "postRefund"

\* A step that leaves what was chosen, and at most ends the call.
Unchosen(t) ==
    /\ tab'[t].read = tab[t].read /\ tab'[t].typed = tab[t].typed
    /\ tab'[t].charge = tab[t].charge /\ tab'[t].amount = tab[t].amount
    /\ tab'[t].call \in {tab[t].call, "none"}
    /\ tab'[t].shows = "success" => tab[t].shows = "success"

LEMMA HarmlessOK == \A t \in Tabs : Harmless(t) => TabOK(t)'
BY DEF Harmless, TabOK

LEMMA UnchosenOK ==
    ASSUME Told, Kept, NEW t \in Tabs, Unchosen(t)
    PROVE  TabOK(t)'
<1>1. \A typed : Chosen(t, typed)' = Chosen(t, typed)
  BY DEF Unchosen, Chosen
<1>2. ASSUME tab'[t].shows = "success" PROVE \E r \in refunds' : IsOfPage(r, t)'
  <2>1. PICK r \in refunds : IsOfPage(r, t)
    BY <1>2 DEF Told, TabOK, Unchosen
  <2>2. PICK q \in refunds' : Same(q, r)
    BY DEF Kept
  <2>3. IsOfPage(q, t)'
    BY <1>1, <2>1, <2>2 DEF IsOfPage, Same, Unchosen
  <2> QED
    BY <2>3
<1> QED
  BY <1>1, <1>2 DEF Told, TabOK, Unchosen

LEMMA InitTold == Init => Told
<1> SUFFICES ASSUME Init PROVE Told
  OBVIOUS
<1>1. DOMAIN Closed = Fields /\ Closed.shows = "closed" /\ Closed.call = "none"
  BY DEF Closed, Fields
<1>2. tab = [t \in Tabs |-> Closed] /\ refunds = {}
  BY DEF Init
<1> QED
  BY <1>1, <1>2 DEF Told, FormedTabs, FormedRefunds, TabOK

\* The steps of one tab, of which the others hear nothing.
LEMMA OneTab ==
    ASSUME Told, Kept, NEW t \in Tabs, \A u \in Tabs \ {t} : tab'[u] = tab[u],
           TabOK(t)'
    PROVE  \A u \in Tabs : TabOK(u)'
<1> SUFFICES ASSUME NEW u \in Tabs \ {t} PROVE TabOK(u)'
  OBVIOUS
<1>1. Unchosen(u)
  BY DEF Unchosen
<1> QED
  BY <1>1, UnchosenOK

\* The failure of a call is told to all who wait, and never as a success.
LEMMA FailKeeps ==
    ASSUME Told, Kept, NEW t \in Tabs, tab[t].call # "none",
           NEW failure \in Breakdowns \cup {"repeat", "amount"}, Fail(t, failure)
    PROVE  FormedTabs' /\ \A u \in Tabs : TabOK(u)'
<1>1. tab' = [Emit(failure) EXCEPT ![t].call = "none", ![t].attempt = 1]
  BY DEF Fail
<1>2. /\ DOMAIN Emit(failure) = Tabs
      /\ \A u \in Tabs : DOMAIN Emit(failure)[u] = Fields
  BY DEF Emit, Told, FormedTabs
<1>3. /\ ShowsOfPage(failure) # "success" /\ ShowsOfRefund(failure) # "success"
  BY DEF ShowsOfPage, ShowsOfRefund, Breakdowns
<1>4. \A u \in Tabs : LET e == Emit(failure)[u] IN
          /\ e.read = tab[u].read /\ e.typed = tab[u].typed
          /\ e.charge = tab[u].charge /\ e.amount = tab[u].amount /\ e.call = tab[u].call
          /\ e.shows = "success" => tab[u].shows = "success"
  BY <1>3 DEF Emit, Told, FormedTabs, Fields
<1>5. FormedTabs'
  BY <1>1, <1>2 DEF FormedTabs
<1>6. \A u \in Tabs \ {t} : tab'[u] = Emit(failure)[u]
  BY <1>1, <1>2
<1>7. /\ tab'[t].call = "none" /\ tab'[t].read = Emit(failure)[t].read
      /\ tab'[t].typed = Emit(failure)[t].typed
      /\ tab'[t].charge = Emit(failure)[t].charge
      /\ tab'[t].amount = Emit(failure)[t].amount
      /\ tab'[t].shows = Emit(failure)[t].shows
  BY <1>1, <1>2 DEF Fields
<1>8. \A u \in Tabs : Unchosen(u)
  BY <1>4, <1>6, <1>7 DEF Unchosen
<1> QED
  BY <1>5, <1>8, UnchosenOK

-----------------------------------------------------------------------------
(* The page                                                                *)

LEMMA OpenTold ==
    ASSUME Told, NEW t \in Tabs, NEW c \in Charges, Open(t, c)
    PROVE  Told'
<1> DEFINE r == [Closed EXCEPT !.shows = "loading", !.call = "getCharge", !.charge = c]
<1>1. tab' = [tab EXCEPT ![t] = r] /\ refunds' = refunds
  BY DEF Open
<1>2. DOMAIN r = Fields /\ r.shows = "loading" /\ r.call = "getCharge"
  BY DEF Closed, Fields
<1> HIDE DEF r
<1>3. FormedTabs' /\ FormedRefunds' /\ Kept
  BY <1>1, <1>2 DEF Told, FormedTabs, FormedRefunds, Kept, Same
<1>4. tab'[t] = r /\ \A u \in Tabs \ {t} : tab'[u] = tab[u]
  BY <1>1 DEF Told, FormedTabs
<1>5. TabOK(t)'
  BY <1>2, <1>4, HarmlessOK DEF Harmless
<1> QED
  BY <1>3, <1>4, <1>5, OneTab DEF Told

\* The replies to the calls that read the page.
LEMMA ReadTold ==
    ASSUME Told, NEW t \in Tabs,
           GetCharge(t) \/ GetEvents(t) \/ GetUsers(t) \/ GetUsersFails(t)
    PROVE  Told'
<1>1. refunds' = refunds /\ tab[t].call # "none"
  BY DEF GetCharge, GetEvents, GetUsers, GetUsersFails
<1>2. tab[t].shows # "success"
  BY <1>1 DEF Told, TabOK
<1>3. /\ DOMAIN tab' = Tabs /\ DOMAIN tab'[t] = Fields
      /\ \A u \in Tabs \ {t} : tab'[u] = tab[u]
  BY DEF GetCharge, GetEvents, GetUsers, GetUsersFails, Told, FormedTabs
<1>4. \A shows \in {"open", "notFound", "error"} : Settle(t, shows) # "success"
  BY <1>2 DEF Settle
<1>5. Harmless(t)
  BY <1>2, <1>4 DEF GetCharge, GetEvents, GetUsers, GetUsersFails, Harmless,
                    ShowsOfPage, Told, FormedTabs, Fields
<1>6. FormedTabs' /\ FormedRefunds' /\ Kept
  BY <1>1, <1>3 DEF Told, FormedTabs, FormedRefunds, Kept, Same
<1> QED
  BY <1>3, <1>5, <1>6, HarmlessOK, OneTab DEF Told

LEMMA ReadFailsTold ==
    ASSUME Told, NEW t \in Tabs, ReadFails(t)
    PROVE  Told'
<1>1. refunds' = refunds /\ tab[t].call # "none" /\ Kept /\ FormedRefunds'
  BY DEF ReadFails, Told, FormedRefunds, Kept, Same
<1> QED
  BY <1>1, FailKeeps DEF ReadFails, Told

-----------------------------------------------------------------------------
(* The refund                                                              *)

LEMMA SubmitTold ==
    ASSUME Told, NEW t \in Tabs, Submit(t) \/ SubmitInvalid(t)
    PROVE  Told'
<1>1. refunds' = refunds /\ Kept /\ FormedRefunds'
  BY DEF Submit, SubmitInvalid, Told, FormedRefunds, Kept, Same
<1>2. FormedTabs' /\ \A u \in Tabs \ {t} : tab'[u] = tab[u]
  BY DEF Submit, SubmitInvalid, Told, FormedTabs
<1>3. CASE Submit(t)
  <2>1. PICK typed \in Typed \cup {Full} :
          tab' = [tab EXCEPT ![t].shows = "submitting", ![t].call = "postRefund",
                             ![t].typed = typed, ![t].amount = Chosen(t, typed)]
    BY <1>3 DEF Submit
  <2>2. /\ tab'[t].shows = "submitting" /\ tab'[t].typed = typed
        /\ tab'[t].amount = Chosen(t, typed) /\ tab'[t].read = tab[t].read
    BY <2>1 DEF Told, FormedTabs, Fields
  <2>3. Chosen(t, typed)' = Chosen(t, typed)
    BY <2>2 DEF Chosen
  <2>4. TabOK(t)'
    BY <2>2, <2>3 DEF TabOK, Chosen
  <2> QED
    BY <1>1, <1>2, <2>4, OneTab DEF Told
<1>4. CASE SubmitInvalid(t)
  <2>1. Unchosen(t)
    BY <1>4 DEF SubmitInvalid, Unchosen, Told, FormedTabs, Fields
  <2> QED
    BY <1>1, <1>2, <2>1, UnchosenOK, OneTab DEF Told
<1> QED
  BY <1>3, <1>4

\* A refund that is made is of the amount of the call.
LEMMA AcceptKeeps ==
    ASSUME Told, NEW t \in Tabs, Accept(t)
    PROVE  /\ Kept /\ FormedRefunds'
           /\ \E r \in refunds' :
                 /\ r.by = t /\ r.charge = tab[t].charge
                 /\ r.seen = tab[t].read /\ r.amount = tab[t].amount
<1> DEFINE r == [id |-> Cardinality(refunds), by |-> t, charge |-> tab[t].charge,
                 amount |-> Payload(t).amount, seen |-> tab[t].read,
                 state |-> "submitted"]
<1>1. refunds' = refunds \cup {r}
  BY DEF Accept
<1>2. /\ r.by = t /\ r.charge = tab[t].charge
      /\ r.seen = tab[t].read /\ r.amount = tab[t].amount
      /\ {"by", "charge", "amount", "seen", "state"} \subseteq DOMAIN r
  BY DEF Payload
<1> HIDE DEF r
<1> QED
  BY <1>1, <1>2 DEF Told, Kept, Same, FormedRefunds

LEMMA RefundedTold ==
    ASSUME Told, NEW t \in Tabs, Refunded(t)
    PROVE  Told'
<1>1. /\ tab[t].call = "postRefund" /\ Accept(t)
      /\ tab' = [tab EXCEPT ![t].call = "none", ![t].attempt = 1,
                            ![t].shows = Settle(t, "success")]
  BY DEF Refunded
<1>2. FormedTabs' /\ \A u \in Tabs \ {t} : tab'[u] = tab[u]
  BY <1>1 DEF Told, FormedTabs
<1>3. /\ tab'[t].call = "none" /\ tab'[t].typed = tab[t].typed
      /\ tab'[t].read = tab[t].read /\ tab'[t].charge = tab[t].charge
  BY <1>1 DEF Told, FormedTabs, Fields
<1>4. tab[t].amount = Chosen(t, tab[t].typed)
  BY <1>1 DEF Told, TabOK
<1>5. Chosen(t, tab[t].typed)' = Chosen(t, tab[t].typed)
  BY <1>3 DEF Chosen
<1>6. TabOK(t)'
  BY <1>1, <1>3, <1>4, <1>5, AcceptKeeps DEF TabOK, IsOfPage
<1> QED
  BY <1>1, <1>2, <1>6, AcceptKeeps, OneTab DEF Told

LEMMA RefundEndsTold ==
    ASSUME Told, NEW t \in Tabs, Refused(t) \/ RefundFails(t) \/ RefundedUnheard(t)
    PROVE  Told'
<1>1. tab[t].call # "none"
  BY DEF Refused, RefundFails, RefundedUnheard
<1>2. Kept /\ FormedRefunds'
  BY AcceptKeeps DEF Refused, RefundFails, RefundedUnheard, Told, FormedRefunds, Kept, Same
<1>3. PICK failure \in Breakdowns \cup {"repeat", "amount"} : Fail(t, failure)
  <2>1. Verdict(t) # "accepted" => Verdict(t) \in {"repeat", "amount"}
    BY DEF Verdict
  <2> QED
    BY <2>1 DEF Refused, RefundFails, RefundedUnheard, Breakdowns
<1> QED
  BY <1>1, <1>2, <1>3, FailKeeps DEF Told

LEMMA SendAgainTold ==
    ASSUME Told, NEW t \in Tabs, SendAgain(t)
    PROVE  Told'
<1>1. Kept /\ FormedRefunds'
  BY AcceptKeeps DEF SendAgain, Told, FormedRefunds, Kept, Same
<1>2. tab' = [tab EXCEPT ![t].attempt = @ + 1]
  BY DEF SendAgain
<1>3. FormedTabs' /\ \A u \in Tabs \ {t} : tab'[u] = tab[u]
  BY <1>2 DEF Told, FormedTabs
<1>4. Unchosen(t)
  BY <1>2 DEF Unchosen, Told, FormedTabs, Fields
<1> QED
  BY <1>1, <1>3, <1>4, UnchosenOK, OneTab DEF Told

LEMMA GatewayTold ==
    ASSUME Told, GatewaySettles
    PROVE  Told'
<1>1. PICK r \in refunds, state \in {"success", "error"} :
        refunds' = (refunds \ {r}) \cup {[r EXCEPT !.state = state]} /\ tab' = tab
  BY DEF GatewaySettles
<1> DEFINE q == [r EXCEPT !.state = state]
<1>2. /\ DOMAIN q = DOMAIN r
      /\ {"by", "charge", "amount", "seen", "state"} \subseteq DOMAIN r
  BY DEF Told, FormedRefunds
<1>3. Same(q, r)
  BY <1>2 DEF Same
<1>4. refunds' = (refunds \ {r}) \cup {q}
  BY <1>1
<1> HIDE DEF q
<1>5. Kept
  BY <1>3, <1>4 DEF Kept, Same
<1>6. FormedRefunds'
  BY <1>2, <1>4 DEF Told, FormedRefunds
<1>7. \A t \in Tabs : TabOK(t)'
  BY <1>1, <1>5, UnchosenOK DEF Unchosen
<1> QED
  BY <1>1, <1>6, <1>7 DEF Told, FormedTabs

LEMMA StepTold == ASSUME Told, [Next]_vars PROVE Told'
<1>1. CASE UNCHANGED vars
  BY <1>1 DEF vars, Told, FormedTabs, FormedRefunds, TabOK, IsOfPage, Chosen
<1> QED
  BY <1>1, OpenTold, ReadTold, ReadFailsTold, SubmitTold, RefundedTold,
     RefundEndsTold, SendAgainTold, GatewayTold
  DEF Next, ReadAnswered, RefundAnswered

-----------------------------------------------------------------------------
(* Sums of amounts.  The induction theorems of the library have a predicate *)
(* as their parameter; what is needed of them is stated here for sets.      *)

\* A number that is missing from such a set would be the last of finitely many
\* with as many predecessors among one number fewer.
LEMMA NatSetInduction ==
    ASSUME NEW S, 0 \in S, \A n \in Nat : n \in S => n + 1 \in S
    PROVE  Nat \subseteq S
<1> SUFFICES ASSUME NEW m \in Nat, m \notin S PROVE FALSE
  OBVIOUS
<1> DEFINE T == {k \in 0 .. m : k \notin S}
           U == T \ {m}
           f == [k \in T |-> k - 1]
<1>1. IsFiniteSet(T)
  BY FS_Interval, FS_Subset, IsFiniteSet(0 .. m)
<1>2. IsFiniteSet(U) /\ Cardinality(U) = Cardinality(T) - 1 /\ Cardinality(T) \in Nat
  BY <1>1, m \in T, FS_RemoveElement, FS_CardinalityType
<1>3. \A k \in T : k - 1 \in U
  OBVIOUS
<1>4. f \in [T -> U]
  BY <1>3
<1> HIDE DEF T, U
<1>5. PICK x, y \in T : x # y /\ f[x] = f[y]
  <2> HIDE DEF f
  <2> QED
    BY <1>1, <1>2, <1>4, FS_PigeonHole
<1> QED
  BY <1>5 DEF T

\* A set has every subset of S when it has each of which it has all that are
\* one element smaller.
LEMMA SubsetInduction ==
    ASSUME NEW S, IsFiniteSet(S), NEW P,
           \A s \in SUBSET S : (\A x \in s : s \ {x} \in P) => s \in P
    PROVE  SUBSET S \subseteq P
<1> DEFINE N == {n \in Nat : \A s \in SUBSET S : Cardinality(s) = n => s \in P}
<1>1. \A s \in SUBSET S : IsFiniteSet(s) /\ Cardinality(s) \in Nat
  BY FS_Subset, FS_CardinalityType
<1>2. 0 \in N
  <2>1. \A s \in SUBSET S : Cardinality(s) = 0 => s = {}
    BY <1>1, FS_EmptySet
  <2> QED
    BY <2>1
<1>3. ASSUME NEW n \in Nat, n \in N
      PROVE  n + 1 \in N
  <2> SUFFICES ASSUME NEW s \in SUBSET S, Cardinality(s) = n + 1
               PROVE  s \in P
    OBVIOUS
  <2> SUFFICES ASSUME NEW x \in s PROVE s \ {x} \in P
    OBVIOUS
  <2>1. IsFiniteSet(s)
    BY <1>1
  <2>2. Cardinality(s \ {x}) = Cardinality(s) - 1
    BY <2>1, FS_RemoveElement
  <2>3. Cardinality(s \ {x}) = n
    BY <2>2
  <2> QED
    BY <1>3, <2>3
<1>4. Nat \subseteq N
  <2> HIDE DEF N
  <2> QED
    BY <1>2, <1>3, NatSetInduction
<1> QED
  BY <1>1, <1>4

Sum(S) == MapThenSumSet(AmountOf, S)
One(S) == CHOOSE x \in S : TRUE

\* g is the function by which MapThenSumSet adds, on the sets of D.
Adds(g, D) ==
    g = [s \in D |-> IF s = {} THEN 0 ELSE AmountOf(One(s)) + g[s \ {One(s)}]]

LEMMA SumUnfolded == \A S : Sum(S) = (CHOOSE g : Adds(g, SUBSET S))[S]
  BY DEF Sum, MapThenSumSet, MapThenFoldSet, Adds, One

LEMMA OneIsIn == \A s : s # {} => One(s) \in s
  BY DEF One

\* There is such a function, for the sets of every size.
LEMMA AddsExists ==
    ASSUME NEW S, IsFiniteSet(S)
    PROVE  \E g : Adds(g, SUBSET S)
<1> DEFINE D(n) == {s \in SUBSET S : Cardinality(s) <= n}
           N == {n \in Nat : \E g : Adds(g, D(n))}
<1>0. \A s \in SUBSET S : IsFiniteSet(s) /\ Cardinality(s) \in Nat
                          /\ Cardinality(s) <= Cardinality(S)
  BY FS_Subset, FS_CardinalityType
<1>1. 0 \in N
  <2>1. \A s \in D(0) : s = {}
    BY <1>0, FS_EmptySet
  <2>2. Adds([s \in D(0) |-> 0], D(0))
    BY <2>1 DEF Adds
  <2> QED
    BY <2>2
<1>2. ASSUME NEW n \in Nat, n \in N
      PROVE  n + 1 \in N
  <2>1. PICK g : Adds(g, D(n))
    BY <1>2
  <2> DEFINE h == [s \in D(n + 1) |->
                     IF s = {} THEN 0 ELSE AmountOf(One(s)) + g[s \ {One(s)}]]
  <2>2. \A s \in D(n + 1) : s # {} => s \ {One(s)} \in D(n)
    <3> SUFFICES ASSUME NEW s \in D(n + 1), s # {}
                 PROVE  s \ {One(s)} \in D(n)
      OBVIOUS
    <3>1. IsFiniteSet(s) /\ Cardinality(s) \in Nat
      BY <1>0
    <3>2. Cardinality(s \ {One(s)}) = Cardinality(s) - 1
      BY <3>1, OneIsIn, FS_RemoveElement
    <3> QED
      BY <3>1, <3>2
  <2>3. \A s \in D(n) : s \in D(n + 1)
    BY <1>0
  <2>4. \A s \in D(n) : g[s] = IF s = {} THEN 0 ELSE AmountOf(One(s)) + g[s \ {One(s)}]
    BY <2>1 DEF Adds
  <2>5. \A s \in D(n) : h[s] = g[s]
    BY <2>3, <2>4
  <2>6. \A s \in D(n + 1) : s # {} => h[s \ {One(s)}] = g[s \ {One(s)}]
    BY <2>2, <2>5
  <2> HIDE DEF D
  <2>7. h = [s \in D(n + 1) |->
               IF s = {} THEN 0 ELSE AmountOf(One(s)) + h[s \ {One(s)}]]
    BY <2>6
  <2> HIDE DEF h
  <2>8. Adds(h, D(n + 1))
    BY <2>7 DEF Adds
  <2> QED
    BY <2>8
<1>3. Nat \subseteq N
  <2> HIDE DEF N
  <2> QED
    BY <1>1, <1>2, NatSetInduction
<1>4. Cardinality(S) \in N
  BY <1>0, <1>3
<1>5. SUBSET S = D(Cardinality(S))
  BY <1>0
<1> HIDE DEF D
<1> QED
  BY <1>4, <1>5

\* Any two of them agree.
LEMMA AddsAgree ==
    ASSUME NEW S, IsFiniteSet(S), NEW T \in SUBSET S,
           NEW g, Adds(g, SUBSET S), NEW h, Adds(h, SUBSET T)
    PROVE  g[T] = h[T]
<1> DEFINE P == {s \in SUBSET T : g[s] = h[s]}
<1>1. IsFiniteSet(T)
  BY FS_Subset
<1>2. ASSUME NEW s \in SUBSET T, \A x \in s : s \ {x} \in P
      PROVE  s \in P
  <2>1. g[s] = IF s = {} THEN 0 ELSE AmountOf(One(s)) + g[s \ {One(s)}]
    BY DEF Adds
  <2>2. h[s] = IF s = {} THEN 0 ELSE AmountOf(One(s)) + h[s \ {One(s)}]
    BY DEF Adds
  <2>3. s # {} => g[s \ {One(s)}] = h[s \ {One(s)}]
    BY <1>2, OneIsIn
  <2> QED
    BY <2>1, <2>2, <2>3
<1>3. SUBSET T \subseteq P
  <2> HIDE DEF P
  <2> QED
    BY <1>1, <1>2, SubsetInduction
<1>4. T \in P
  BY <1>3
<1> QED
  BY <1>4

\* What the sum of a finite set is, by its own choice of an element.
LEMMA SumStep ==
    ASSUME NEW S, IsFiniteSet(S)
    PROVE  Sum(S) = IF S = {} THEN 0
                    ELSE AmountOf(One(S)) + Sum(S \ {One(S)})
<1> DEFINE T == S \ {One(S)}
           g == CHOOSE g : Adds(g, SUBSET S)
           h == CHOOSE h : Adds(h, SUBSET T)
<1>1. Adds(g, SUBSET S) /\ Sum(S) = g[S]
  BY AddsExists, SumUnfolded
<1>2. IsFiniteSet(T) /\ T \in SUBSET S
  BY FS_Subset
<1>3. Adds(h, SUBSET T) /\ Sum(T) = h[T]
  <2> HIDE DEF T
  <2> QED
    BY <1>2, AddsExists, SumUnfolded
<1> HIDE DEF g, h
<1>4. g[S] = IF S = {} THEN 0 ELSE AmountOf(One(S)) + g[T]
  BY <1>1 DEF Adds
<1>5. g[T] = h[T]
  <2> HIDE DEF T
  <2> QED
    BY <1>1, <1>2, <1>3, AddsAgree
<1> QED
  BY <1>1, <1>3, <1>4, <1>5

\* The order in which amounts are added does not matter.
LEMMA SumOf ==
    ASSUME NEW S, IsFiniteSet(S), \A r \in S : AmountOf(r) \in Nat
    PROVE  /\ Sum(S) \in Nat
           /\ \A r \in S : Sum(S) = AmountOf(r) + Sum(S \ {r})
<1> DEFINE Ok(s) == /\ Sum(s) \in Nat
                    /\ \A r \in s : /\ Sum(s \ {r}) \in Nat
                                    /\ Sum(s) = AmountOf(r) + Sum(s \ {r})
           P == {s \in SUBSET S : Ok(s)}
<1>1. ASSUME NEW s \in SUBSET S, \A x \in s : s \ {x} \in P
      PROVE  s \in P
  <2>1. IsFiniteSet(s)
    BY FS_Subset
  <2>2. CASE s = {}
    <3>1. Sum(s) = 0
      BY <2>1, <2>2, SumStep
    <3> QED
      BY <2>2, <3>1
  <2>3. CASE s # {}
    <3> DEFINE q == One(s)
    <3>1. q \in s /\ Sum(s) = AmountOf(q) + Sum(s \ {q})
      BY <2>1, <2>3, OneIsIn, SumStep
    <3> HIDE DEF q
    <3>2. Sum(s) \in Nat /\ \A r \in s : Sum(s \ {r}) \in Nat
      <4>1. \A r \in s : Sum(s \ {r}) \in Nat
        BY <1>1
      <4>2. AmountOf(q) \in Nat
        <5> q \in S
          BY <3>1
        <5> QED
          OBVIOUS
      <4> QED
        BY <3>1, <4>1, <4>2
    <3>3. ASSUME NEW r \in s, r # q
          PROVE  Sum(s) = AmountOf(r) + Sum(s \ {r})
      <4>1. Ok(s \ {q}) /\ Ok(s \ {r})
        BY <1>1, <3>1
      <4>2. Sum(s \ {q}) = AmountOf(r) + Sum((s \ {q}) \ {r})
        BY <3>3, <4>1
      <4>3. (s \ {q}) \ {r} = (s \ {r}) \ {q}
        OBVIOUS
      <4>4. Sum(s \ {r}) = AmountOf(q) + Sum((s \ {q}) \ {r})
        <5>1. Sum(s \ {r}) = AmountOf(q) + Sum((s \ {r}) \ {q})
          BY <3>1, <3>3, <4>1
        <5> QED
          BY <5>1, <4>3
      <4>5. AmountOf(q) \in Nat /\ AmountOf(r) \in Nat
        <5> q \in S /\ r \in S
          BY <3>1
        <5> QED
          OBVIOUS
      <4>6. Sum(s \ {r}) \in Nat /\ Sum(s \ {q}) \in Nat
        BY <4>1
      <4>7. Sum((s \ {q}) \ {r}) \in Nat
        BY <3>3, <4>1
      <4> QED
        BY <3>1, <4>2, <4>4, <4>5, <4>7
    <3> QED
      BY <3>1, <3>2, <3>3
  <2> QED
    BY <2>2, <2>3
<1>2. SUBSET S \subseteq P
  <2> HIDE DEF P
  <2> QED
    BY <1>1, SubsetInduction
<1> QED
  BY <1>2
-----------------------------------------------------------------------------
(* The books                                                               *)

\* The charge of a page that is or was shown.
ChargeOK(t) ==
    \/ tab[t].charge \in Charges
    \/ tab[t].call = "none" /\ tab[t].shows = "closed"

\* Never more is refunded than was paid, and what is available is less than
\* any refund of the charge has seen, unless one of them failed.
Accounted(c) ==
    /\ Available(c) \in Nat
    /\ ~FailedAtGateway(c) => \A r \in RefundsOf(c) : Available(c) < r.seen

\* No two refunds are the same.
Numbered ==
    /\ \A r \in refunds : r.id < Cardinality(refunds)
    /\ \A r, q \in refunds : r.id = q.id => r = q

Books == /\ TypeOK /\ IsFiniteSet(refunds) /\ Numbered
         /\ \A t \in Tabs : ChargeOK(t)
         /\ \A c \in Charges : Accounted(c)
         /\ OneRefundPerReading
         /\ FullRefundsAll

\* The page shows the amount in pounds and pence, and a full refund reads it
\* back to the penny.
LEMMA FullIsRead == \A pence \in Nat : RefundAmount(NetAmount(pence)) = pence
BY DEF RefundAmount, NetAmount

LEMMA ChosenType ==
    ASSUME RefundsAssumption, TypeOK, NEW t \in Tabs, NEW typed \in Typed \cup {Full}
    PROVE  /\ Chosen(t, typed) \in Nat
           /\ typed = Full => Chosen(t, typed) = tab[t].read
<1>1. tab[t].read \in Nat
  BY DEF TypeOK, Tab
<1>2. typed = Full => Chosen(t, typed) = tab[t].read
  BY <1>1, FullIsRead DEF Chosen
<1>3. typed # Full => Chosen(t, typed) \in Nat
  <2> HAVE typed # Full
  <2>1. typed \in Nat \X (0 .. 99)
    BY DEF RefundsAssumption
  <2>2. typed[1] \in Nat /\ typed[2] \in Nat
    BY <2>1
  <2>3. Chosen(t, typed) = typed[1] * 100 + typed[2]
    BY DEF Chosen, RefundAmount
  <2> QED
    BY <2>2, <2>3
<1> QED
  BY <1>1, <1>2, <1>3

\* The sum of refunds, with one more and with one less.
LEMMA RefundSums ==
    ASSUME NEW Q, Q \subseteq Refund, IsFiniteSet(Q), NEW r \in Refund
    PROVE  /\ r.amount \in Nat /\ Sum(Q) \in Nat
           /\ r \in Q => Sum(Q) = r.amount + Sum(Q \ {r}) /\ Sum(Q \ {r}) \in Nat
           /\ r \notin Q => Sum(Q \cup {r}) = r.amount + Sum(Q)
<1>1. \A q \in Refund : AmountOf(q) = q.amount /\ AmountOf(q) \in Nat
  BY DEF Refund, AmountOf
<1>2. Sum(Q) \in Nat /\ \A q \in Q : Sum(Q) = AmountOf(q) + Sum(Q \ {q})
  <2>1. \A q \in Q : AmountOf(q) \in Nat
    BY <1>1
  <2> QED
    BY <2>1, SumOf
<1>3. Sum(Q \ {r}) \in Nat
  <2> DEFINE P == Q \ {r}
  <2>1. IsFiniteSet(P) /\ \A q \in P : AmountOf(q) \in Nat
    BY <1>1, FS_RemoveElement
  <2> HIDE DEF P
  <2>2. Sum(P) \in Nat
    BY <2>1, SumOf
  <2> QED
    BY <2>2 DEF P
<1>4. ASSUME r \notin Q PROVE Sum(Q \cup {r}) = r.amount + Sum(Q)
  <2> DEFINE P == Q \cup {r}
  <2>1. IsFiniteSet(P) /\ (\A q \in P : AmountOf(q) \in Nat) /\ r \in P
    BY <1>1, FS_AddElement
  <2>2. P \ {r} = Q
    BY <1>4
  <2> HIDE DEF P
  <2>3. Sum(P) = AmountOf(r) + Sum(P \ {r})
    BY <2>1, SumOf
  <2> QED
    BY <1>1, <2>2, <2>3 DEF P
<1> QED
  BY <1>1, <1>2, <1>3, <1>4

\* What of a charge is refunded or is about to be.
Live(c) == {r \in RefundsOf(c) : r.state # "error"}

LEMMA AvailableIs == \A c : Available(c) = Paid - Sum(Live(c))
BY DEF Available, Sum, Live

LEMMA LiveType ==
    ASSUME TypeOK, IsFiniteSet(refunds), NEW c
    PROVE  /\ Live(c) \subseteq Refund /\ IsFiniteSet(Live(c)) /\ Sum(Live(c)) \in Nat
           /\ RefundsOf(c) \subseteq Refund /\ IsFiniteSet(RefundsOf(c))
<1>1. Live(c) \subseteq Refund /\ RefundsOf(c) \subseteq Refund
  BY DEF Live, RefundsOf, TypeOK
<1>2. Live(c) \in SUBSET refunds /\ RefundsOf(c) \in SUBSET refunds
  BY DEF Live, RefundsOf
<1>3. IsFiniteSet(Live(c)) /\ IsFiniteSet(RefundsOf(c))
  BY <1>2, FS_Subset
<1>4. \A q \in Live(c) : AmountOf(q) \in Nat
  BY <1>1 DEF Refund, AmountOf
<1> QED
  BY <1>1, <1>3, <1>4, SumOf

-----------------------------------------------------------------------------
(* What a step may do to the books                                         *)

Balanced == /\ refunds \subseteq Refund /\ IsFiniteSet(refunds) /\ Numbered
            /\ \A c \in Charges : Accounted(c)
            /\ OneRefundPerReading

\* A charge that has nothing left has nothing afterwards, but for a failure.
LeftEmpty ==
    \A c \in Charges :
        ~FailedAtGateway(c)' =>
            ~FailedAtGateway(c) /\ (Available(c) = 0 => Available(c)' = 0)

LEMMA UnchangedBooks ==
    ASSUME Books, refunds' = refunds
    PROVE  Balanced' /\ LeftEmpty
<1>1. \A c : RefundsOf(c)' = RefundsOf(c)
  BY DEF RefundsOf
<1>2. \A c : Available(c)' = Available(c) /\ FailedAtGateway(c)' = FailedAtGateway(c)
  BY <1>1 DEF Available, FailedAtGateway
<1> QED
  BY <1>1, <1>2 DEF Books, TypeOK, Balanced, LeftEmpty, Accounted, OneRefundPerReading, Numbered

\* The refund that Accept makes.
NewRefund(t) ==
    [id |-> Cardinality(refunds), by |-> t, charge |-> tab[t].charge,
     amount |-> tab[t].amount, seen |-> tab[t].read, state |-> "submitted"]

\* A refund is made of no more than is available, which is what its page has
\* seen and what nobody else has.
LEMMA AcceptBooks ==
    ASSUME RefundsAssumption, Books, NEW t \in Tabs, NEW c, c = tab[t].charge,
           tab[t].call = "postRefund", Verdict(t) = "accepted", Accept(t)
    PROVE  /\ Balanced' /\ LeftEmpty
           /\ c \in Charges
           /\ ~FailedAtGateway(c)' => Available(c)' = tab[t].read - tab[t].amount
<1> PICK r : r = NewRefund(t)
  OBVIOUS
<1>1. refunds' = refunds \cup {r}
  BY DEF Accept, Payload, NewRefund
<1>2. c \in Charges /\ Available(c) \in Nat /\ tab[t].read \in Nat
  BY DEF Books, ChargeOK, Accounted, TypeOK, Tab
<1>3. Available(c) = tab[t].read /\ tab[t].amount \in 1 .. Available(c)
  BY DEF Verdict, Payload
<1>4. r \in Refund /\ r.charge = c /\ r.seen = Available(c) /\ r.state = "submitted"
      /\ r.amount = tab[t].amount
  BY <1>2, <1>3, FS_CardinalityType DEF Refund, NewRefund, Books, TypeOK, Tab
<1>5. refunds' \subseteq Refund /\ IsFiniteSet(refunds')
  BY <1>1, <1>4, FS_AddElement DEF Books, TypeOK
<1>6. \A d \in Charges : FailedAtGateway(d)' <=> FailedAtGateway(d)
  BY <1>1, <1>4 DEF FailedAtGateway, RefundsOf
<1>7. \A d \in Charges \ {c} : Available(d)' = Available(d) /\ RefundsOf(d)' = RefundsOf(d)
  <2> SUFFICES ASSUME NEW d \in Charges \ {c}
               PROVE  Available(d)' = Available(d) /\ RefundsOf(d)' = RefundsOf(d)
    OBVIOUS
  <2>1. RefundsOf(d)' = RefundsOf(d)
    BY <1>1, <1>4 DEF RefundsOf
  <2> QED
    BY <2>1 DEF Available
<1>8. r \notin refunds /\ Numbered'
  <2>1. Cardinality(refunds) \in Nat
    BY FS_CardinalityType DEF Books
  <2>2. r.id = Cardinality(refunds)
    BY DEF NewRefund
  <2>3. r \notin refunds
    BY <2>1, <2>2 DEF Books, Numbered
  <2>4. Cardinality(refunds') = Cardinality(refunds) + 1
    BY <1>1, <2>3, FS_AddElement DEF Books
  <2>5. \A q \in refunds : q.id \in Nat /\ q.id < Cardinality(refunds)
    BY DEF Books, TypeOK, Refund, Numbered
  <2>6. \A q \in refunds' : q.id < Cardinality(refunds')
    BY <1>1, <2>1, <2>2, <2>4, <2>5
  <2>7. \A p, q \in refunds' : p.id = q.id => p = q
    BY <1>1, <2>1, <2>2, <2>5 DEF Books, Numbered
  <2> QED
    BY <2>3, <2>6, <2>7 DEF Numbered
<1>9. RefundsOf(c)' = RefundsOf(c) \cup {r} /\ Live(c)' = Live(c) \cup {r}
  BY <1>1, <1>4 DEF RefundsOf, Live
<1>10. r \notin Live(c)
  BY <1>8 DEF Live, RefundsOf
<1>11. Sum(Live(c) \cup {r}) = r.amount + Sum(Live(c)) /\ Sum(Live(c)) \in Nat
  BY <1>4, <1>10, RefundSums, LiveType DEF Books
<1>12. Available(c)' = Paid - Sum(Live(c)')
  BY DEF Available, Sum, Live
<1>13. Available(c)' = Available(c) - tab[t].amount
  <2>1. Available(c) = Paid - Sum(Live(c)) /\ Paid \in Nat
    BY AvailableIs DEF RefundsAssumption
  <2>2. Available(c)' = Paid - (tab[t].amount + Sum(Live(c)))
    BY <1>4, <1>9, <1>11, <1>12
  <2>3. tab[t].amount \in Nat
    BY <1>2, <1>3
  <2> QED
    BY <1>11, <2>1, <2>2, <2>3
<1>14. Available(c)' \in Nat /\ Available(c)' < Available(c)
  BY <1>2, <1>3, <1>13
<1>15. Accounted(c)'
  <2>1. \A q \in RefundsOf(c) : q.seen \in Nat
    BY LiveType DEF Books, Refund
  <2>2. ~FailedAtGateway(c) => \A q \in RefundsOf(c) : Available(c)' < q.seen
    BY <1>2, <1>14, <2>1 DEF Books, Accounted
  <2> QED
    BY <1>2, <1>4, <1>6, <1>9, <1>14, <2>2 DEF Accounted
<1>16. \A d \in Charges : Accounted(d)'
  BY <1>6, <1>7, <1>15 DEF Accounted, Books
<1>17. OneRefundPerReading'
  <2> SUFFICES ASSUME NEW r1 \in refunds', NEW r2 \in refunds',
                      r1.charge = r2.charge, ~FailedAtGateway(r1.charge)',
                      r1.seen = r2.seen
               PROVE  r1 = r2
    BY DEF OneRefundPerReading
  <2>1. ASSUME NEW q \in refunds, q.charge = c, ~FailedAtGateway(c)
        PROVE  q.seen # r.seen
    <3>1. q \in RefundsOf(c) /\ q.seen \in Nat
      BY <2>1 DEF RefundsOf, Books, TypeOK, Refund
    <3>2. Available(c) < q.seen
      BY <1>2, <2>1, <3>1 DEF Books, Accounted
    <3> QED
      BY <1>2, <1>4, <3>1, <3>2
  <2>2. r1.charge \in Charges
    BY <1>5 DEF Refund
  <2> QED
    BY <1>1, <1>4, <1>6, <2>1, <2>2 DEF Books, OneRefundPerReading
<1>18. LeftEmpty
  BY <1>2, <1>3, <1>6, <1>7 DEF LeftEmpty
<1> QED
  BY <1>2, <1>3, <1>5, <1>8, <1>13, <1>16, <1>17, <1>18 DEF Balanced

\* A refund that succeeds stays in the sum; one that fails gives its amount
\* back, and nothing more is promised of its charge.
LEMMA GatewayBooks ==
    ASSUME RefundsAssumption, Books, GatewaySettles
    PROVE  Balanced' /\ LeftEmpty
<1>1. PICK r \in refunds, state \in {"success", "error"} :
        /\ r.state = "submitted"
        /\ refunds' = (refunds \ {r}) \cup {[r EXCEPT !.state = state]}
  BY DEF GatewaySettles
<1> DEFINE q == [r EXCEPT !.state = state]
           c == r.charge
<1>2. r \in Refund /\ c \in Charges
  BY DEF Books, TypeOK, Refund
<1>3. /\ q \in Refund /\ q.state = state /\ q.charge = c /\ q.amount = r.amount
      /\ q.seen = r.seen /\ q.id = r.id /\ q # r
  BY <1>1, <1>2 DEF Refund
<1>4. refunds' = (refunds \ {r}) \cup {q}
  BY <1>1
<1> HIDE DEF q
<1>5. refunds' \subseteq Refund /\ IsFiniteSet(refunds')
  BY <1>3, <1>4, FS_AddElement, FS_RemoveElement DEF Books, TypeOK
<1>6. \A d \in Charges : FailedAtGateway(d) => FailedAtGateway(d)'
  BY <1>1, <1>4 DEF FailedAtGateway, RefundsOf
<1>7. \A d \in Charges \ {c} : Available(d)' = Available(d) /\ RefundsOf(d)' = RefundsOf(d)
  <2> SUFFICES ASSUME NEW d \in Charges \ {c}
               PROVE  Available(d)' = Available(d) /\ RefundsOf(d)' = RefundsOf(d)
    OBVIOUS
  <2>1. RefundsOf(d)' = RefundsOf(d)
    BY <1>3, <1>4 DEF RefundsOf
  <2> QED
    BY <2>1 DEF Available
<1>8. RefundsOf(c)' = (RefundsOf(c) \ {r}) \cup {q}
  BY <1>3, <1>4 DEF RefundsOf
<1>9. r \in Live(c)
  BY <1>1 DEF Live, RefundsOf
<1>10. /\ Sum(Live(c)) = r.amount + Sum(Live(c) \ {r})
       /\ Sum(Live(c) \ {r}) \in Nat /\ r.amount \in Nat
  BY <1>2, <1>9, RefundSums, LiveType DEF Books
<1>11. Available(c)' = Paid - Sum(Live(c)')
  BY DEF Available, Sum, Live
<1>12. Available(c) = Paid - Sum(Live(c)) /\ Available(c) \in Nat /\ Paid \in Nat
  BY <1>2, AvailableIs DEF Books, Accounted, RefundsAssumption
<1>13. q \notin refunds /\ Numbered'
  <2>1. q \notin refunds
    BY <1>3 DEF Books, Numbered
  <2>2. Cardinality(refunds') = Cardinality(refunds)
    <3> DEFINE P == refunds \ {r}
    <3>1. IsFiniteSet(P) /\ Cardinality(P) = Cardinality(refunds) - 1
      BY FS_RemoveElement DEF Books
    <3>2. q \notin P /\ refunds' = P \cup {q}
      BY <1>4, <2>1
    <3> HIDE DEF P
    <3>3. Cardinality(refunds') = Cardinality(P) + 1
      BY <3>1, <3>2, FS_AddElement
    <3>4. Cardinality(refunds) \in Nat
      BY FS_CardinalityType DEF Books
    <3> QED
      BY <3>1, <3>3, <3>4
  <2>3. \A p \in refunds' : p.id < Cardinality(refunds')
    BY <1>3, <1>4, <2>2 DEF Books, Numbered
  <2>4. \A p, o \in refunds' : p.id = o.id => p = o
    BY <1>3, <1>4 DEF Books, Numbered
  <2> QED
    BY <2>1, <2>3, <2>4 DEF Numbered
<1>14. CASE state = "error"
  <2>1. Live(c)' = Live(c) \ {r}
    BY <1>3, <1>4, <1>8, <1>14 DEF Live
  <2>2. Available(c)' \in Nat
    BY <1>10, <1>11, <1>12, <2>1
  <2>3. FailedAtGateway(c)'
    BY <1>3, <1>8, <1>14 DEF FailedAtGateway
  <2>4. \A d \in Charges : Accounted(d)'
    BY <1>6, <1>7, <2>2, <2>3 DEF Accounted, Books
  <2>5. OneRefundPerReading'
    <3> SUFFICES ASSUME NEW r1 \in refunds', NEW r2 \in refunds',
                        r1.charge = r2.charge, ~FailedAtGateway(r1.charge)',
                        r1.seen = r2.seen
                 PROVE  r1 = r2
      BY DEF OneRefundPerReading
    <3>1. r1.charge \in Charges /\ r1.charge # c
      BY <1>5, <2>3 DEF Refund
    <3>2. r1 \in refunds /\ r2 \in refunds /\ ~FailedAtGateway(r1.charge)
      BY <1>3, <1>4, <1>6, <3>1
    <3> QED
      BY <3>2 DEF Books, OneRefundPerReading
  <2>6. LeftEmpty
    BY <1>6, <1>7, <2>3 DEF LeftEmpty
  <2> QED
    BY <1>5, <1>13, <2>4, <2>5, <2>6 DEF Balanced
<1>15. CASE state = "success"
  <2>1. Live(c)' = (Live(c) \ {r}) \cup {q}
    BY <1>3, <1>8, <1>15 DEF Live
  <2>2. q \notin Live(c) \ {r}
    BY <1>13 DEF Live, RefundsOf
  <2>3. Sum((Live(c) \ {r}) \cup {q}) = q.amount + Sum(Live(c) \ {r})
    <3> DEFINE P == Live(c) \ {r}
    <3>1. P \subseteq Refund /\ IsFiniteSet(P) /\ q \notin P
      BY <2>2, LiveType, FS_RemoveElement DEF Books
    <3> HIDE DEF P
    <3>2. Sum(P \cup {q}) = q.amount + Sum(P)
      BY <1>3, <3>1, RefundSums
    <3> QED
      BY <3>2 DEF P
  <2>4. Available(c)' = Available(c)
    BY <1>3, <1>10, <1>11, <1>12, <2>1, <2>3
  <2>5. Accounted(c)'
    BY <1>2, <1>3, <1>6, <1>8, <1>9, <2>4 DEF Accounted, Books, Live
  <2>6. \A d \in Charges : Accounted(d)'
    BY <1>6, <1>7, <2>5 DEF Accounted, Books
  <2>7. OneRefundPerReading'
    <3> SUFFICES ASSUME NEW r1 \in refunds', NEW r2 \in refunds',
                        r1.charge = r2.charge, ~FailedAtGateway(r1.charge)',
                        r1.seen = r2.seen
                 PROVE  r1 = r2
      BY DEF OneRefundPerReading
    <3>1. ~FailedAtGateway(r1.charge)
      BY <1>5, <1>6 DEF Refund
    <3>2. \A p \in refunds : p.charge = c /\ ~FailedAtGateway(c) /\ p.seen = r.seen => p = r
      BY DEF Books, OneRefundPerReading
    <3> QED
      BY <1>3, <1>4, <3>1, <3>2 DEF Books, OneRefundPerReading
  <2>8. LeftEmpty
    BY <1>6, <1>7, <2>4 DEF LeftEmpty
  <2> QED
    BY <1>5, <1>13, <2>6, <2>7, <2>8 DEF Balanced
<1> QED
  BY <1>14, <1>15

-----------------------------------------------------------------------------
(* What a step may do to the tabs                                          *)

\* Nobody is told of a success who was not told before.
NoNewSuccess(t) ==
    tab'[t].shows = "success" =>
        /\ tab[t].shows = "success"
        /\ tab'[t].typed = tab[t].typed /\ tab'[t].charge = tab[t].charge

Tabbed == /\ tab' \in [Tabs -> Tab]
          /\ \A t \in Tabs : ChargeOK(t)' /\ NoNewSuccess(t)

LEMMA TabbedBooks ==
    ASSUME Books, Balanced', LeftEmpty, Tabbed
    PROVE  Books'
<1>1. FullRefundsAll'
  <2> SUFFICES ASSUME NEW t \in Tabs, NEW c, c = tab'[t].charge,
                      tab'[t].shows = "success", tab'[t].typed = Full,
                      ~FailedAtGateway(c)'
               PROVE  Available(c)' = 0
    BY DEF FullRefundsAll, FailedAtGateway, Available, RefundsOf
  <2>1. tab[t].shows = "success" /\ tab[t].typed = Full /\ tab[t].charge = c
    BY DEF Tabbed, NoNewSuccess
  <2>2. c \in Charges
    BY <2>1 DEF Books, ChargeOK
  <2>3. ~FailedAtGateway(c)
    BY <2>2 DEF LeftEmpty
  <2> QED
    BY <2>1, <2>2, <2>3 DEF Books, FullRefundsAll, LeftEmpty
<1> QED
  BY <1>1 DEF Tabbed, Balanced, Books, TypeOK

\* The step of one tab, of which the others hear nothing.
LEMMA TabbedOne ==
    ASSUME Books, NEW t \in Tabs, NEW r \in Tab, tab' = [tab EXCEPT ![t] = r],
           r.charge \in Charges,
           r.shows = "success" => tab[t].shows = "success" /\ r.typed = tab[t].typed
                                  /\ r.charge = tab[t].charge
    PROVE  Tabbed
<1>1. tab \in [Tabs -> Tab] /\ \A u \in Tabs : ChargeOK(u)
  BY DEF Books, TypeOK
<1>2. tab' \in [Tabs -> Tab] /\ tab'[t] = r /\ \A u \in Tabs \ {t} : tab'[u] = tab[u]
  BY <1>1
<1>3. ChargeOK(t)' /\ NoNewSuccess(t)
  BY <1>2 DEF ChargeOK, NoNewSuccess
<1>4. \A u \in Tabs \ {t} : ChargeOK(u)' /\ NoNewSuccess(u)
  BY <1>1, <1>2 DEF ChargeOK, NoNewSuccess
<1> QED
  BY <1>2, <1>3, <1>4 DEF Tabbed

\* The failure of a call.
LEMMA TabbedFail ==
    ASSUME RefundsAssumption, Books, NEW t \in Tabs,
           NEW failure \in Breakdowns \cup {"repeat", "amount"}, Fail(t, failure)
    PROVE  Tabbed
<1>1. /\ ShowsOfPage(failure) \in Shows \ {"success", "closed"}
      /\ ShowsOfRefund(failure) \in Shows \ {"success", "closed"}
  BY DEF ShowsOfPage, ShowsOfRefund, Breakdowns, Shows
<1>2. tab \in [Tabs -> Tab] /\ \A u \in Tabs : ChargeOK(u)
  BY DEF Books, TypeOK
<1>3. ASSUME NEW u \in Tabs
      PROVE  /\ Emit(failure)[u] \in Tab
             /\ Emit(failure)[u].charge = tab[u].charge
             /\ Emit(failure)[u].typed = tab[u].typed
             /\ Emit(failure)[u].call = tab[u].call
             /\ Emit(failure)[u].shows \in {"success", "closed"} =>
                    Emit(failure)[u].shows = tab[u].shows
             /\ tab[u].shows = "closed" => Emit(failure)[u].shows = "closed"
  <2>1. tab[u] \in Tab
    BY <1>2
  <2>2. Emit(failure)[u] = CASE tab[u].shows = "loading" ->
                                  [tab[u] EXCEPT !.shows = ShowsOfPage(failure)]
                             [] tab[u].shows = "submitting" ->
                                  [tab[u] EXCEPT !.shows = ShowsOfRefund(failure)]
                             [] OTHER -> tab[u]
    BY DEF Emit
  <2> QED
    BY <1>1, <2>1, <2>2 DEF Tab
<1>4. tab' = [Emit(failure) EXCEPT ![t].call = "none", ![t].attempt = 1]
  BY DEF Fail
<1>5. Emit(failure) \in [Tabs -> Tab]
  BY <1>3 DEF Emit
<1>6. \A u \in Tabs \ {t} : tab'[u] = Emit(failure)[u]
  BY <1>4, <1>5
<1>7. tab'[t] = [Emit(failure)[t] EXCEPT !.call = "none", !.attempt = 1]
  BY <1>4, <1>5
<1>8. tab'[t] \in Tab /\ tab'[t].charge = tab[t].charge /\ tab'[t].typed = tab[t].typed
      /\ tab'[t].shows = Emit(failure)[t].shows /\ tab'[t].call = "none"
  <2>1. 1 \in 1 .. MaxAttempts
    BY DEF RefundsAssumption
  <2>2. tab'[t] \in Tab
    BY <1>3, <1>7, <2>1 DEF Tab, Calls
  <2> QED
    BY <1>3, <1>7, <2>2 DEF Tab
<1>9. tab' \in [Tabs -> Tab]
  BY <1>3, <1>4, <1>5, <1>6, <1>8
<1>10. \A u \in Tabs : ChargeOK(u)'
  BY <1>2, <1>3, <1>6, <1>8 DEF ChargeOK
<1>11. \A u \in Tabs : NoNewSuccess(u)
  BY <1>3, <1>6, <1>8 DEF NoNewSuccess
<1> QED
  BY <1>9, <1>10, <1>11 DEF Tabbed

\* A tab with a call has a charge, and is not told of a success by its read.
LEMMA CallHasCharge ==
    ASSUME Books, NEW t \in Tabs,
           tab[t].call # "none" \/ tab[t].shows # "closed"
    PROVE  tab[t] \in Tab /\ tab[t].charge \in Charges
BY DEF Books, TypeOK, ChargeOK

LEMMA ClosedType ==
    RefundsAssumption => Closed \in Tab /\ Closed.shows = "closed" /\ Closed.call = "none"
BY DEF Closed, Tab, Shows, Calls, RefundsAssumption

LEMMA OpenBooks ==
    ASSUME RefundsAssumption, Books, NEW t \in Tabs, NEW c \in Charges, Open(t, c)
    PROVE  Books'
<1> DEFINE r == [Closed EXCEPT !.shows = "loading", !.call = "getCharge", !.charge = c]
<1>1. tab' = [tab EXCEPT ![t] = r] /\ refunds' = refunds
  BY DEF Open
<1>2. r \in Tab /\ r.charge \in Charges /\ r.shows # "success"
  BY ClosedType DEF Tab, Shows, Calls, Waiting
<1> HIDE DEF r
<1> QED
  BY <1>1, <1>2, TabbedOne, UnchangedBooks, TabbedBooks

LEMMA ReadBooks ==
    ASSUME Books, NEW t \in Tabs,
           GetCharge(t) \/ GetEvents(t) \/ GetUsers(t) \/ GetUsersFails(t)
    PROVE  Books'
<1>1. refunds' = refunds /\ tab[t].call # "none"
  BY DEF GetCharge, GetEvents, GetUsers, GetUsersFails
<1>2. tab[t] \in Tab /\ tab[t].charge \in Charges
  BY <1>1, CallHasCharge
<1>3. \A shows \in {"open", "notFound", "error"} :
          Settle(t, shows) \in Shows /\ (Settle(t, shows) = "success" => tab[t].shows = "success")
  BY <1>2 DEF Settle, Tab, Shows, Waiting
<1> DEFINE Becomes(r) == /\ tab' = [tab EXCEPT ![t] = r]
                         /\ r.charge = tab[t].charge /\ r.typed = tab[t].typed
                         /\ r.shows = "success" => tab[t].shows = "success"
<1>4. \E r \in Tab : Becomes(r)
  <2>1. CASE GetCharge(t)
    <3> DEFINE r == [tab[t] EXCEPT !.call = "getEvents",
                                   !.read = Available(tab[t].charge),
                                   !.ofCharge = Cardinality(RefundsOf(tab[t].charge))]
    <3>1. Available(tab[t].charge) \in Nat /\ Cardinality(RefundsOf(tab[t].charge)) \in Nat
      BY <1>2, LiveType, FS_CardinalityType DEF Books, Accounted
    <3>2. r \in Tab /\ r.charge = tab[t].charge /\ r.typed = tab[t].typed
          /\ r.shows = tab[t].shows
      BY <1>2, <3>1 DEF Tab, Calls
    <3>3. tab' = [tab EXCEPT ![t] = r]
      BY <2>1 DEF GetCharge
    <3> QED
      BY <3>2, <3>3
  <2>2. CASE GetEvents(t) /\ RefundsOf(tab[t].charge) # {}
    <3> DEFINE r == [tab[t] EXCEPT !.call = "getUsers"]
    <3>1. r \in Tab /\ r.charge = tab[t].charge /\ r.typed = tab[t].typed
          /\ r.shows = tab[t].shows
      BY <1>2 DEF Tab, Calls
    <3>2. tab' = [tab EXCEPT ![t] = r]
      BY <2>2 DEF GetEvents
    <3> QED
      BY <3>1, <3>2
  <2>3. ASSUME NEW shows \in {"open", "notFound", "error"},
               tab' = [tab EXCEPT ![t].call = "none", ![t].shows = Settle(t, shows)]
        PROVE  \E r \in Tab : Becomes(r)
    <3> DEFINE r == [tab[t] EXCEPT !.call = "none", !.shows = Settle(t, shows)]
    <3>1. r \in Tab /\ r.charge = tab[t].charge /\ r.typed = tab[t].typed
          /\ r.shows = Settle(t, shows)
      BY <1>2, <1>3 DEF Tab, Calls
    <3>2. tab' = [tab EXCEPT ![t] = r]
      BY <2>3
    <3> HIDE DEF r
    <3> QED
      BY <1>3, <3>1, <3>2
  <2> QED
    BY <2>1, <2>2, <2>3 DEF GetEvents, GetUsers, GetUsersFails, ShowsOfPage
<1>5. Tabbed
  BY <1>2, <1>4, TabbedOne
<1> QED
  BY <1>1, <1>5, UnchangedBooks, TabbedBooks

LEMMA ReadFailsBooks ==
    ASSUME RefundsAssumption, Books, NEW t \in Tabs, ReadFails(t)
    PROVE  Books'
BY TabbedFail, UnchangedBooks, TabbedBooks DEF ReadFails

LEMMA SubmitBooks ==
    ASSUME RefundsAssumption, Books, NEW t \in Tabs, Submit(t) \/ SubmitInvalid(t)
    PROVE  Books'
<1>1. refunds' = refunds /\ tab[t].shows = "open"
  BY DEF Submit, SubmitInvalid
<1>2. tab[t] \in Tab /\ tab[t].charge \in Charges
  BY <1>1, CallHasCharge
<1>3. \E r \in Tab : /\ tab' = [tab EXCEPT ![t] = r]
                     /\ r.charge = tab[t].charge /\ r.shows # "success"
  <2>1. CASE Submit(t)
    <3>1. PICK typed \in Typed \cup {Full} :
            tab' = [tab EXCEPT ![t].shows = "submitting", ![t].call = "postRefund",
                               ![t].typed = typed, ![t].amount = Chosen(t, typed)]
      BY <2>1 DEF Submit
    <3> DEFINE r == [tab[t] EXCEPT !.shows = "submitting", !.call = "postRefund",
                                   !.typed = typed, !.amount = Chosen(t, typed)]
    <3>2. Chosen(t, typed) \in Nat
      BY ChosenType DEF Books
    <3>3. r \in Tab /\ r.charge = tab[t].charge /\ r.shows # "success"
      BY <1>2, <3>2 DEF Tab, Shows, Calls, Waiting
    <3>4. tab' = [tab EXCEPT ![t] = r]
      BY <3>1
    <3> QED
      BY <3>3, <3>4
  <2>2. CASE SubmitInvalid(t)
    <3> DEFINE r == [tab[t] EXCEPT !.shows = "invalid"]
    <3>1. r \in Tab /\ r.charge = tab[t].charge /\ r.shows # "success"
      BY <1>2 DEF Tab, Shows
    <3>2. tab' = [tab EXCEPT ![t] = r]
      BY <2>2 DEF SubmitInvalid
    <3> QED
      BY <3>1, <3>2
  <2> QED
    BY <2>1, <2>2
<1>4. Tabbed
  BY <1>2, <1>3, TabbedOne
<1> QED
  BY <1>1, <1>4, UnchangedBooks, TabbedBooks

\* Who is told of a full refund has emptied the charge just now.
LEMMA RefundedBooks ==
    ASSUME RefundsAssumption, Told, Books, NEW t \in Tabs, Refunded(t)
    PROVE  Books'
<1>1. /\ tab[t].call = "postRefund" /\ Verdict(t) = "accepted" /\ Accept(t)
      /\ tab' = [tab EXCEPT ![t].call = "none", ![t].attempt = 1,
                            ![t].shows = Settle(t, "success")]
  BY DEF Refunded
<1>2. PICK c : c = tab[t].charge
  OBVIOUS
<1>3. /\ Balanced' /\ LeftEmpty /\ c \in Charges
      /\ ~FailedAtGateway(c)' => Available(c)' = tab[t].read - tab[t].amount
  BY <1>1, <1>2, AcceptBooks
<1>4. tab \in [Tabs -> Tab] /\ tab[t] \in Tab
  BY DEF Books, TypeOK
<1>5. tab'[t] = [tab[t] EXCEPT !.call = "none", !.attempt = 1,
                                !.shows = Settle(t, "success")]
  BY <1>1, <1>4
<1>6. Settle(t, "success") \in Shows
  BY <1>4 DEF Settle, Tab, Shows
<1>7. /\ tab'[t] \in Tab /\ tab'[t].charge = c /\ tab'[t].typed = tab[t].typed
  <2>1. 1 \in 1 .. MaxAttempts
    BY DEF RefundsAssumption
  <2>2. tab'[t] \in Tab
    BY <1>4, <1>5, <1>6, <2>1 DEF Tab, Calls
  <2> QED
    BY <1>2, <1>4, <1>5, <2>2 DEF Tab
<1>8. tab' \in [Tabs -> Tab] /\ \A u \in Tabs \ {t} : tab'[u] = tab[u]
  BY <1>1, <1>4, <1>7
<1>9. \A u \in Tabs : ChargeOK(u)'
  BY <1>3, <1>7, <1>8 DEF ChargeOK, Books
<1>10. FullRefundsAll'
  <2> SUFFICES ASSUME NEW u \in Tabs, NEW d, d = tab'[u].charge,
                      tab'[u].shows = "success", tab'[u].typed = Full,
                      ~FailedAtGateway(d)'
               PROVE  Available(d)' = 0
    BY DEF FullRefundsAll, FailedAtGateway, Available, RefundsOf
  <2>1. CASE u = t
    <3>1. tab[t].amount = Chosen(t, Full)
      BY <1>1, <1>7, <2>1 DEF Told, TabOK
    <3>2. tab[t].amount = tab[t].read /\ tab[t].read \in Nat
      BY <1>4, <3>1, ChosenType DEF Books, Tab
    <3> QED
      BY <1>3, <1>7, <2>1, <3>2
  <2>2. CASE u # t
    <3>1. tab[u].shows = "success" /\ tab[u].typed = Full /\ tab[u].charge = d
      BY <1>8, <2>2
    <3>2. d \in Charges
      BY <3>1 DEF Books, ChargeOK
    <3>3. ~FailedAtGateway(d)
      BY <1>3, <3>2 DEF LeftEmpty
    <3> QED
      BY <1>3, <3>1, <3>2, <3>3 DEF Books, FullRefundsAll, LeftEmpty
  <2> QED
    BY <2>1, <2>2
<1> QED
  BY <1>3, <1>8, <1>9, <1>10 DEF Books, TypeOK, Balanced

LEMMA RefundEndsBooks ==
    ASSUME RefundsAssumption, Books, NEW t \in Tabs,
           Refused(t) \/ RefundFails(t) \/ RefundedUnheard(t)
    PROVE  Books'
<1>1. PICK failure \in Breakdowns \cup {"repeat", "amount"} : Fail(t, failure)
  <2>1. Verdict(t) # "accepted" => Verdict(t) \in {"repeat", "amount"}
    BY DEF Verdict
  <2> QED
    BY <2>1 DEF Refused, RefundFails, RefundedUnheard, Breakdowns
<1>2. Balanced' /\ LeftEmpty
  BY UnchangedBooks, AcceptBooks DEF Refused, RefundFails, RefundedUnheard
<1> QED
  BY <1>1, <1>2, TabbedFail, TabbedBooks

LEMMA SendAgainBooks ==
    ASSUME RefundsAssumption, Books, NEW t \in Tabs, SendAgain(t)
    PROVE  Books'
<1>1. Balanced' /\ LeftEmpty
  BY UnchangedBooks, AcceptBooks DEF SendAgain
<1>2. tab[t] \in Tab /\ tab[t].charge \in Charges
  BY CallHasCharge DEF SendAgain
<1> DEFINE r == [tab[t] EXCEPT !.attempt = @ + 1]
<1>3. tab' = [tab EXCEPT ![t] = r] /\ tab[t].attempt < MaxAttempts
  BY DEF SendAgain
<1>4. r \in Tab /\ r.charge = tab[t].charge /\ r.typed = tab[t].typed
      /\ r.shows = tab[t].shows
  BY <1>2, <1>3 DEF Tab, RefundsAssumption
<1> HIDE DEF r
<1>5. Tabbed
  BY <1>2, <1>3, <1>4, TabbedOne
<1> QED
  BY <1>1, <1>5, TabbedBooks

LEMMA GatewayTabsBooks ==
    ASSUME RefundsAssumption, Books, GatewaySettles
    PROVE  Books'
<1>1. tab' = tab
  BY DEF GatewaySettles
<1>2. Tabbed
  BY <1>1 DEF Tabbed, Books, TypeOK, ChargeOK, NoNewSuccess
<1> QED
  BY <1>2, GatewayBooks, TabbedBooks

LEMMA InitBooks == RefundsAssumption /\ Init => Books
<1> SUFFICES ASSUME RefundsAssumption, Init PROVE Books
  OBVIOUS
<1>1. refunds = {} /\ tab = [t \in Tabs |-> Closed]
  BY DEF Init
<1>2. Closed \in Tab /\ Closed.shows = "closed" /\ Closed.call = "none"
  BY ClosedType
<1>3. \A c : RefundsOf(c) = {} /\ Live(c) = {}
  BY <1>1 DEF RefundsOf, Live
<1>4. Sum({}) = 0
  BY FS_EmptySet, SumStep
<1>5. ASSUME NEW c \in Charges PROVE Accounted(c)
  <2>1. Available(c) = Paid - Sum({})
    BY <1>3, AvailableIs
  <2>2. Available(c) \in Nat
    BY <1>4, <2>1 DEF RefundsAssumption
  <2> QED
    BY <1>3, <2>2 DEF Accounted
<1> QED
  BY <1>1, <1>2, <1>5, FS_EmptySet
  DEF Books, TypeOK, ChargeOK, OneRefundPerReading, FullRefundsAll, Numbered

LEMMA StepBooks == ASSUME RefundsAssumption, Told, Books, [Next]_vars PROVE Books'
<1>1. CASE UNCHANGED vars
  <2>1. Tabbed
    BY <1>1 DEF vars, Tabbed, Books, TypeOK, ChargeOK, NoNewSuccess
  <2> QED
    BY <1>1, <2>1, UnchangedBooks, TabbedBooks DEF vars
<1> QED
  BY <1>1, OpenBooks, ReadBooks, ReadFailsBooks, SubmitBooks, RefundedBooks,
     RefundEndsBooks, SendAgainBooks, GatewayTabsBooks
  DEF Next, ReadAnswered, RefundAnswered

-----------------------------------------------------------------------------
\* The two together.
Inv == Told /\ Books

LEMMA InitInv == RefundsAssumption /\ Init => Inv
BY InitTold, InitBooks DEF Inv

LEMMA StepInv == ASSUME RefundsAssumption, Inv, [Next]_vars PROVE Inv'
BY StepTold, StepBooks DEF Inv

THEOREM RefundsInvariant == RefundsAssumption => (Spec => []Inv)
<1> SUFFICES ASSUME RefundsAssumption PROVE Spec => []Inv
  OBVIOUS
<1>1. Init => Inv
  BY InitInv
<1>2. Inv /\ [Next]_vars => Inv'
  BY StepInv
<1> QED
  BY <1>1, <1>2, PTL DEF Spec

\* Who is told of success has a refund, of the amount chosen on the page
\* (transaction_refund_controller.js:39), although the failures of other
\* requests are told to all: for any number of tabs, charges and attempts.
THEOREM SuccessHasARefund == RefundsAssumption => (Spec => []SuccessIsARefund)
<1>1. Inv => SuccessIsARefund
  BY DEF Inv, Told, TabOK, SuccessIsARefund
<1> QED
  BY <1>1, RefundsInvariant, PTL

\* Of one reading one refund is made at most, a full refund leaves nothing, and
\* never more is refunded than was paid: connector compares the amount of the
\* page with the one available now (charge.js carries it there).
THEOREM RefundsAreAccounted ==
    RefundsAssumption =>
        (Spec => [](OneRefundPerReading /\ FullRefundsAll
                    /\ \A c \in Charges : Available(c) \in Nat))
<1>1. Inv => OneRefundPerReading /\ FullRefundsAll /\ \A c \in Charges : Available(c) \in Nat
  BY DEF Inv, Books, Accounted
<1> QED
  BY <1>1, RefundsInvariant, PTL
=====
