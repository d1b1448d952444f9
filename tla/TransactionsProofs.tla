------------------------- MODULE TransactionsProofs -------------------------
(***************************************************************************)
(* Proofs about the four modules about transactions, for any number of     *)
(* requests, transactions, pages, tabs and choices.                        *)
(***************************************************************************)
EXTENDS MCTransactions, FiniteSetTheorems, SequenceTheorems, TLAPS

-----------------------------------------------------------------------------
(* Lists and downloads                                                     *)

\* A promise that is not settled is of a request that waits for its search; one
\* that listens for the failure of the card types has none.
CallOK(r) ==
    /\ L!Waits(r) => request[r].call # "none"
    /\ request[r].promised => L!Waits(r) /\ request[r].call = "search"
    /\ L!Waits(r) /\ request[r].call = "search" => request[r].promised
    /\ r \in L!Range(listeners) =>
           ~request[r].promised /\ request[r].fate # "unsent"

ListsInv == L!TypeOK /\ \A r \in L!Requests : CallOK(r)

\* A step of one request.
LEMMA OneRequest ==
    ASSUME ListsInv, NEW r \in L!Requests, NEW q \in L!Request,
           request' = [request EXCEPT ![r] = q], listeners' = listeners,
           q.fate = "waiting" => q.call # "none",
           q.promised => q.fate = "waiting" /\ q.call = "search",
           q.fate = "waiting" /\ q.call = "search" => q.promised,
           q.promised => request[r].promised \/ request[r].fate = "unsent",
           q.fate = "unsent" => request[r].fate = "unsent"
    PROVE  ListsInv'
<1>1. /\ request' \in [L!Requests -> L!Request] /\ request'[r] = q
      /\ \A p \in L!Requests \ {r} : request'[p] = request[p]
  BY DEF ListsInv, L!TypeOK
<1>2. \A p \in L!Requests : CallOK(p)'
  BY <1>1 DEF ListsInv, CallOK, L!Waits
<1> QED
  BY <1>1, <1>2 DEF ListsInv, L!TypeOK

LEMMA RequestShape ==
    ASSUME ListsInv, NEW r \in L!Requests
    PROVE  /\ request[r] \in L!Request
           /\ \A fate \in L!Fates :
                /\ L!Idle(r, fate) \in L!Request
                /\ L!Idle(r, fate).call = "none" /\ L!Idle(r, fate).fate = fate
                /\ ~L!Idle(r, fate).promised
           /\ L!Reject(r) \in L!Request
           /\ ~L!Reject(r).promised /\ L!Reject(r).call = request[r].call
           /\ L!Reject(r).fate = IF request[r].promised THEN "error" ELSE request[r].fate
<1>1. request[r] \in L!Request
  BY DEF ListsInv, L!TypeOK
<1>2. ASSUME NEW fate \in L!Fates
      PROVE  /\ L!Idle(r, fate) \in L!Request
             /\ L!Idle(r, fate).call = "none" /\ L!Idle(r, fate).fate = fate
             /\ ~L!Idle(r, fate).promised
  BY <1>1 DEF L!Idle, L!Request
<1>3. /\ L!Reject(r) \in L!Request /\ ~L!Reject(r).promised
      /\ L!Reject(r).call = request[r].call
      /\ L!Reject(r).fate = IF request[r].promised THEN "error" ELSE request[r].fate
  BY <1>1 DEF L!Reject, L!Request, L!Fates
<1> QED
  BY <1>1, <1>2, <1>3

LEMMA ListsInit == ASSUME L!ListsAssumption, L!Init PROVE ListsInv
<1>1. L!Unsent \in L!Request /\ L!Range(<<>>) = {}
  BY DEF L!ListsAssumption, L!Unsent, L!Request, L!Fates, L!Range
<1> QED
  BY <1>1 DEF L!Init, ListsInv, L!TypeOK, CallOK, L!Waits, L!Unsent

LEMMA SendInv ==
    ASSUME L!ListsAssumption, ListsInv, NEW r \in L!Requests,
           L!Search(r) \/ L!InvalidSearch(r)
    PROVE  ListsInv'
<1>1. request[r] \in L!Request /\ request[r].fate = "unsent" /\ ~request[r].promised
  BY RequestShape DEF L!Search, L!InvalidSearch, ListsInv, CallOK, L!Waits
<1>2. CASE L!Search(r)
  <2> DEFINE q == [call |-> "search", fate |-> "waiting", promised |-> TRUE, page |-> 0]
  <2>1. q \in L!Request
    BY DEF L!ListsAssumption, L!Request, L!Fates
  <2>2. request' = [request EXCEPT ![r] = q] /\ listeners' = listeners
    BY <1>2 DEF L!Search
  <2> QED
    BY <1>1, <2>1, <2>2, OneRequest
<1>3. CASE L!InvalidSearch(r)
  <2> DEFINE q == [request[r] EXCEPT !.fate = "error"]
  <2>1. q \in L!Request /\ q.fate = "error" /\ q.promised = request[r].promised
    BY <1>1 DEF L!Request, L!Fates
  <2>2. request' = [request EXCEPT ![r] = q] /\ listeners' = listeners
    BY <1>3 DEF L!InvalidSearch
  <2> HIDE DEF q
  <2> QED
    BY <1>1, <2>1, <2>2, OneRequest
<1> QED
  BY <1>2, <1>3

LEMMA SearchFoundInv ==
    ASSUME L!ListsAssumption, ListsInv, NEW r \in L!Requests, L!SearchFound(r)
    PROVE  ListsInv'
<1>1. request[r] \in L!Request /\ request[r].call = "search" /\ r \in Lists
  BY RequestShape DEF L!SearchFound
<1>2. CASE request[r].promised
  <2> DEFINE q == [request[r] EXCEPT !.call = "cardTypes", !.promised = FALSE]
  <2>1. /\ q \in L!Request /\ q.call = "cardTypes"
        /\ ~q.promised /\ q.fate = request[r].fate
    BY <1>1 DEF L!Request
  <2>2. request' = [request EXCEPT ![r] = q]
    BY <1>2 DEF L!SearchFound
  <2> HIDE DEF q
  <2>3. /\ request' \in [L!Requests -> L!Request] /\ request'[r] = q
        /\ \A p \in L!Requests \ {r} : request'[p] = request[p]
    BY <2>1, <2>2 DEF ListsInv, L!TypeOK
  <2>4. listeners \in Seq(Lists) /\ listeners' = Append(listeners, r)
    BY <1>2 DEF L!SearchFound, ListsInv, L!TypeOK
  <2>5. /\ listeners' \in Seq(Lists)
        /\ L!Range(listeners') = L!Range(listeners) \cup {r}
    BY <1>1, <2>4 DEF L!Range
  <2>6. request[r].fate = "waiting"
    BY <1>2 DEF ListsInv, CallOK, L!Waits
  <2>7. \A p \in L!Requests : CallOK(p)'
    BY <2>1, <2>3, <2>5, <2>6 DEF ListsInv, CallOK, L!Waits
  <2> QED
    BY <2>3, <2>5, <2>7 DEF ListsInv, L!TypeOK
<1>3. CASE ~request[r].promised
  <2> DEFINE q == [request[r] EXCEPT !.call = "none"]
  <2>1. /\ q \in L!Request /\ q.call = "none"
        /\ ~q.promised /\ q.fate = request[r].fate
    BY <1>1, <1>3 DEF L!Request
  <2>2. request' = [request EXCEPT ![r] = q] /\ listeners' = listeners
    BY <1>3 DEF L!SearchFound
  <2>3. q.fate # "waiting"
    BY <1>1, <1>3, <2>1 DEF ListsInv, CallOK, L!Waits
  <2> HIDE DEF q
  <2> QED
    BY <2>1, <2>2, <2>3, OneRequest
<1> QED
  BY <1>2, <1>3

LEMMA SearchAcceptedInv ==
    ASSUME L!ListsAssumption, ListsInv, NEW r \in L!Requests, L!SearchAccepted(r)
    PROVE  ListsInv'
<1> DEFINE q == [L!Reject(r) EXCEPT !.call = "none"]
<1>1. q \in L!Request /\ q.call = "none" /\ ~q.promised /\ q.fate = L!Reject(r).fate
  BY RequestShape DEF L!Request
<1>2. request' = [request EXCEPT ![r] = q] /\ listeners' = listeners
  BY DEF L!SearchAccepted
<1>3. q.fate # "waiting" /\ (q.fate = "unsent" => request[r].fate = "unsent")
  BY <1>1, RequestShape DEF L!SearchAccepted, ListsInv, CallOK, L!Waits
<1> HIDE DEF q
<1> QED
  BY <1>1, <1>2, <1>3, OneRequest

LEMMA PageFoundInv ==
    ASSUME L!ListsAssumption, ListsInv, NEW r \in L!Requests, L!PageFound(r)
    PROVE  ListsInv'
<1>1. /\ request[r] \in L!Request /\ request[r].call = "search"
      /\ listeners' = listeners
  BY RequestShape DEF L!PageFound
<1>2. CASE request[r].page + 1 < MaxPages /\ request' = [request EXCEPT ![r].page = @ + 1]
  <2> DEFINE q == [request[r] EXCEPT !.page = request[r].page + 1]
  <2>1. request[r].page + 1 \in 0 .. MaxPages
    BY <1>1, <1>2 DEF L!Request, L!ListsAssumption
  <2>2. /\ q \in L!Request /\ q.call = request[r].call /\ q.fate = request[r].fate
        /\ q.promised = request[r].promised
    BY <1>1, <2>1 DEF L!Request
  <2>3. request' = [request EXCEPT ![r] = q]
    BY <1>2
  <2> HIDE DEF q
  <2> QED
    BY <1>1, <2>2, <2>3, OneRequest DEF ListsInv, CallOK, L!Waits
<1>3. CASE request' = [request EXCEPT
                        ![r] = L!Idle(r, IF @.promised THEN "shown" ELSE @.fate)]
  <2> DEFINE fate == IF request[r].promised THEN "shown" ELSE request[r].fate
  <2>1. fate \in L!Fates /\ fate # "waiting" /\ (fate = "unsent" => request[r].fate = "unsent")
    BY <1>1 DEF L!Request, L!Fates, ListsInv, CallOK, L!Waits
  <2>2. request' = [request EXCEPT ![r] = L!Idle(r, fate)]
    BY <1>3
  <2> HIDE DEF fate
  <2> QED
    BY <1>1, <2>1, <2>2, RequestShape, OneRequest
<1> QED
  BY <1>2, <1>3 DEF L!PageFound

LEMMA SearchFailsInv ==
    ASSUME L!ListsAssumption, ListsInv, NEW r \in L!Requests, L!SearchFails(r)
    PROVE  ListsInv'
<1>1. /\ request[r].call = "search" /\ listeners' = listeners
      /\ request' = [[q \in L!Requests |-> L!Reject(q)] EXCEPT ![r].call = "none"]
  BY DEF L!SearchFails
<1>2. /\ DOMAIN request' = L!Requests /\ request'[r] = [L!Reject(r) EXCEPT !.call = "none"]
      /\ \A q \in L!Requests \ {r} : request'[q] = L!Reject(q)
  BY <1>1
<1>3. \A q \in L!Requests :
        /\ request'[q] \in L!Request /\ ~request'[q].promised
        /\ request'[q].call = IF q = r THEN "none" ELSE request[q].call
        /\ request'[q].fate = IF request[q].promised THEN "error" ELSE request[q].fate
  BY <1>2, RequestShape DEF L!Request
<1>4. \A q \in L!Requests : CallOK(q)'
  BY <1>1, <1>3 DEF ListsInv, CallOK, L!Waits
<1>5. request' \in [L!Requests -> L!Request]
  BY <1>1, <1>2, <1>3
<1> QED
  BY <1>1, <1>4, <1>5 DEF ListsInv, L!TypeOK

LEMMA DiesInv == ASSUME ListsInv, NEW answered, L!Dies(answered) PROVE ListsInv'
<1>1. /\ request' = [r \in L!Requests |->
                      IF r \in answered THEN L!Idle(r, "error")
                      ELSE IF request[r].fate = "waiting" THEN L!Idle(r, "lost")
                      ELSE L!Idle(r, request[r].fate)]
      /\ listeners' = <<>>
  BY DEF L!Dies
<1>2. \A r \in L!Requests :
        \E fate \in L!Fates \ {"waiting"} : request'[r] = L!Idle(r, fate)
  BY <1>1, RequestShape DEF L!Request, L!Fates
<1>3. \A r \in L!Requests : request'[r] \in L!Request /\ ~request'[r].promised
                          /\ request'[r].fate # "waiting"
  BY <1>2, RequestShape
<1>4. request' \in [L!Requests -> L!Request]
  BY <1>1, <1>3
<1>5. listeners' \in Seq(Lists) /\ L!Range(listeners') = {}
  BY <1>1 DEF L!Range
<1> QED
  BY <1>3, <1>4, <1>5 DEF ListsInv, L!TypeOK, CallOK, L!Waits

LEMMA CardTypesInv ==
    ASSUME L!ListsAssumption, ListsInv, NEW r \in L!Requests,
           L!CardTypesFound(r) \/ L!CardTypesFail(r)
    PROVE  ListsInv'
<1>1. CASE L!CardTypesFound(r)
  <2>1. CASE L!Answered(r)
    BY <1>1, <2>1, DiesInv DEF L!CardTypesFound
  <2>2. CASE ~L!Answered(r)
    <3>1. /\ request' = [request EXCEPT ![r] = L!Idle(r, "shown")]
          /\ listeners' = listeners
      BY <1>1, <2>2 DEF L!CardTypesFound
    <3> QED
      BY <3>1, RequestShape, OneRequest DEF L!Fates
  <2> QED
    BY <2>1, <2>2
<1>2. CASE L!CardTypesFail(r)
  <2>1. CASE \E q \in L!Range(listeners) : L!Answered(q)
    BY <1>2, <2>1, DiesInv DEF L!CardTypesFail
  <2>2. CASE ~\E q \in L!Range(listeners) : L!Answered(q)
    <3>1. /\ request' = [q \in L!Requests |->
                  IF q \in L!Range(L!Heard)
                  THEN [request[q] EXCEPT !.fate = "error",
                           !.call = IF q = r THEN "none" ELSE @]
                  ELSE request[q]]
          /\ listeners' = listeners
      BY <1>2, <2>2 DEF L!CardTypesFail
    <3>2. L!Heard = listeners
      <4>1. {i \in 1 .. Len(listeners) : L!Answered(listeners[i])} = {}
        BY <2>2 DEF L!Range, ListsInv, L!TypeOK
      <4> QED
        BY <4>1 DEF L!Heard, L!SelectInSeq
    <3>3. ASSUME NEW q \in L!Requests
          PROVE  request'[q] \in L!Request /\ CallOK(q)'
      <4>1. request[q] \in L!Request
        BY RequestShape
      <4>2. CASE q \in L!Range(listeners)
        <5>1. /\ request'[q] \in L!Request /\ request'[q].fate = "error"
              /\ request'[q].promised = request[q].promised
          BY <3>1, <3>2, <4>1, <4>2 DEF L!Request, L!Fates
        <5> QED
          BY <3>1, <4>2, <5>1 DEF ListsInv, CallOK, L!Waits
      <4>3. CASE q \notin L!Range(listeners)
        BY <3>1, <3>2, <4>1, <4>3 DEF ListsInv, CallOK, L!Waits
      <4> QED
        BY <4>2, <4>3
    <3>4. request' \in [L!Requests -> L!Request]
      BY <3>1, <3>3
    <3> QED
      BY <3>1, <3>3, <3>4 DEF ListsInv, L!TypeOK
  <2> QED
    BY <2>1, <2>2
<1> QED
  BY <1>1, <1>2

LEMMA ListsStep ==
    ASSUME L!ListsAssumption, ListsInv, [L!Next]_(L!vars)
    PROVE  ListsInv'
<1>1. CASE UNCHANGED L!vars
  BY <1>1 DEF L!vars, ListsInv, L!TypeOK, CallOK, L!Waits
<1> QED
  BY <1>1, SendInv, SearchFoundInv, SearchAcceptedInv, PageFoundInv,
     SearchFailsInv, CardTypesInv DEF L!Next, L!Connector

-----------------------------------------------------------------------------
(* The file                                                                *)

\* Cardinality is that of FiniteSets.
LEMMA SameCardinality == \A S : E!Cardinality(S) = Cardinality(S)
  BY DEF E!Cardinality, Cardinality

LEMMA NumbersAreFinite ==
    ASSUME NEW n \in Nat, NEW S \in SUBSET (1 .. n)
    PROVE  IsFiniteSet(S) /\ Cardinality(S) \in Nat
<1>1. IsFiniteSet(1 .. n)
  BY FS_Interval
<1>2. IsFiniteSet(S)
  BY <1>1, FS_Subset
<1> QED
  BY <1>2, FS_CardinalityType

\* The rank of a transaction in a set of them.
RankIn(S, t) == Cardinality({u \in S : u >= t})

LEMMA RankInIs ==
    ASSUME NEW n \in Nat, NEW S \in SUBSET (1 .. n), NEW t \in S
    PROVE  RankIn(S, t) \in 1 .. Cardinality(S)
<1> DEFINE U == {u \in S : u >= t}
<1>1. IsFiniteSet(S) /\ U \subseteq S
  BY NumbersAreFinite
<1>2. IsFiniteSet(U) /\ Cardinality(U) <= Cardinality(S)
  BY <1>1, FS_Subset
<1>3. t \in U
  OBVIOUS
<1>4. Cardinality(U) # 0
  BY <1>2, <1>3, FS_EmptySet
<1>5. Cardinality(U) \in Nat /\ Cardinality(S) \in Nat
  BY <1>1, <1>2, FS_CardinalityType
<1> QED
  BY <1>2, <1>4, <1>5 DEF RankIn

\* The newer of two comes first.
LEMMA RankInOrder ==
    ASSUME NEW n \in Nat, NEW S \in SUBSET (1 .. n), NEW t \in S, NEW u \in S,
           u < t
    PROVE  RankIn(S, t) < RankIn(S, u)
<1> DEFINE T == {v \in S : v >= t}
           U == {v \in S : v >= u}
<1>1. IsFiniteSet(S)
  BY NumbersAreFinite
<1>2. U \subseteq S
  OBVIOUS
<1>3. IsFiniteSet(U)
  BY <1>1, <1>2, FS_Subset
<1>4. T \subseteq U /\ T # U
  <2>1. u \in U /\ u \notin T
    <3>1. u \in 1 .. n /\ t \in 1 .. n
      OBVIOUS
    <3>2. u \in Nat /\ t \in Nat
      BY <3>1
    <3>3. u >= u /\ ~(u >= t)
      BY <3>2
    <3> QED
      BY <3>3
  <2>2. T \subseteq U
    <3>1. \A v \in S : v >= t => v >= u
      <4>1. \A v \in S : v \in 1 .. n
        OBVIOUS
      <4>2. t \in 1 .. n /\ u \in 1 .. n
        OBVIOUS
      <4> QED
        BY <4>1, <4>2
    <3> QED
      BY <3>1
  <2> QED
    BY <2>1, <2>2
<1>5. Cardinality(T) < Cardinality(U)
  <2> HIDE DEF T, U
  <2>1. IsFiniteSet(T) /\ Cardinality(T) <= Cardinality(U)
    BY <1>3, <1>4, FS_Subset
  <2>2. Cardinality(T) # Cardinality(U)
    BY <1>3, <1>4, FS_Subset
  <2>3. Cardinality(T) \in Nat /\ Cardinality(U) \in Nat
    BY <1>3, <2>1, FS_CardinalityType
  <2> QED
    BY <2>1, <2>2, <2>3
<1> QED
  BY <1>5 DEF RankIn

\* As more transactions match, no one comes earlier.
LEMMA RankInGrows ==
    ASSUME NEW n \in Nat, NEW S \in SUBSET (1 .. n), NEW R \in SUBSET S, NEW t
    PROVE  RankIn(R, t) <= RankIn(S, t)
<1> DEFINE T == {v \in R : v >= t}
           U == {v \in S : v >= t}
<1>1. IsFiniteSet(S)
  BY NumbersAreFinite
<1>2. U \subseteq S /\ T \subseteq U
  OBVIOUS
<1>3. IsFiniteSet(U)
  BY <1>1, <1>2, FS_Subset
<1>4. Cardinality(T) <= Cardinality(U)
  BY <1>2, <1>3, FS_Subset
<1> QED
  BY <1>4 DEF RankIn

\* Every rank is taken.
LEMMA RankInTaken ==
    ASSUME NEW n \in Nat, NEW S \in SUBSET (1 .. n), NEW r \in 1 .. Cardinality(S)
    PROVE  \E t \in S : RankIn(S, t) = r
<1> DEFINE c == Cardinality(S)
           f == [t \in S |-> RankIn(S, t)]
           R == {f[t] : t \in S}
<1>1. IsFiniteSet(S) /\ c \in Nat
  BY NumbersAreFinite
<1>2. R \subseteq 1 .. c
  BY RankInIs
<1>3. IsFiniteSet(1 .. c) /\ Cardinality(1 .. c) = c
  BY <1>1, FS_Interval
<1>4. \A t, u \in S : f[t] = f[u] => t = u
  <2> SUFFICES ASSUME NEW t \in S, NEW u \in S, f[t] = f[u], t # u
               PROVE  FALSE
    OBVIOUS
  <2>1. t \in Int /\ u \in Int
    OBVIOUS
  <2>2. t < u \/ u < t
    BY <2>1
  <2>3. RankIn(S, t) \in Int /\ RankIn(S, u) \in Int
    <3>1. c \in Nat /\ RankIn(S, t) \in 1 .. c /\ RankIn(S, u) \in 1 .. c
      BY <1>1, RankInIs
    <3> QED
      BY <3>1
  <2>4. RankIn(S, t) < RankIn(S, u) \/ RankIn(S, u) < RankIn(S, t)
    BY <2>2, RankInOrder
  <2> QED
    BY <2>3, <2>4
<1>5. f \in Bijection(S, R)
  BY <1>4 DEF Bijection, Injection, Surjection, IsInjective
<1>6. Cardinality(R) = c
  BY <1>1, <1>5, FS_Bijection DEF ExistsBijection
<1>7. R = 1 .. c
  BY <1>2, <1>3, <1>6, FS_Subset
<1> QED
  BY <1>7

LEMMA RankIs ==
    ASSUME NEW t
    PROVE  E!Rank(t) = RankIn(matching, t) /\ E!Rank(t)' = RankIn(matching', t)
  BY SameCardinality DEF E!Rank, RankIn

LEMMA FoundIs ==
    ASSUME E!TypeOK, E!ExportAssumption
    PROVE  /\ Len(E!Found) = Cardinality(matching) /\ Len(E!Found) \in Nat
           /\ matching \subseteq E!Transactions
           /\ \A n \in 1 .. Len(E!Found) : /\ E!Found[n] \in matching
                                         /\ E!Rank(E!Found[n]) = n
           /\ \A t \in matching : /\ E!Rank(t) \in 1 .. Len(E!Found)
                                  /\ E!Found[E!Rank(t)] = t
<1> DEFINE c == Cardinality(matching)
<1>1. /\ made \in Nat /\ matching \in SUBSET (1 .. made)
      /\ matching \subseteq E!Transactions
  BY DEF E!TypeOK, E!ExportAssumption, E!Transactions
<1>2. c \in Nat
  BY <1>1, NumbersAreFinite
<1>3. /\ DOMAIN E!Found = 1 .. c
      /\ \A n \in 1 .. c : E!Found[n] = CHOOSE t \in matching : E!Rank(t) = n
  BY SameCardinality DEF E!Found
<1>4. Len(E!Found) = c
  BY <1>2, SameCardinality DEF E!Found
<1>5. \A t : E!Rank(t) = RankIn(matching, t)
  BY RankIs
<1>6. \A t \in matching : E!Rank(t) \in 1 .. c
  BY <1>1, <1>5, RankInIs
<1>7. \A t, u \in matching : E!Rank(t) = E!Rank(u) => t = u
  <2> SUFFICES ASSUME NEW t \in matching, NEW u \in matching,
                      E!Rank(t) = E!Rank(u), t # u
               PROVE  FALSE
    OBVIOUS
  <2>1. t \in 1 .. made /\ u \in 1 .. made
    BY <1>1
  <2>2. t < u \/ u < t
    BY <1>1, <2>1
  <2>3. E!Rank(t) < E!Rank(u) \/ E!Rank(u) < E!Rank(t)
    BY <1>1, <1>5, <2>2, RankInOrder
  <2>4. E!Rank(t) \in 1 .. c /\ E!Rank(u) \in 1 .. c
    BY <1>6
  <2> HIDE DEF c
  <2> QED
    BY <1>2, <2>3, <2>4
<1>8. \A n \in 1 .. c : \E t \in matching : E!Rank(t) = n
  BY <1>1, <1>5, RankInTaken
<1>9. \A n \in 1 .. c : E!Found[n] \in matching /\ E!Rank(E!Found[n]) = n
  BY <1>3, <1>8
<1>10. \A t \in matching : E!Found[E!Rank(t)] = t
  BY <1>6, <1>7, <1>9
<1> QED
  BY <1>1, <1>2, <1>4, <1>6, <1>9, <1>10

\* A page has the transactions of its ranks.
LEMMA PageOfIs ==
    ASSUME E!TypeOK, E!ExportAssumption, NEW n \in Nat \ {0}
    PROVE  /\ E!PageOf(n) \in Seq(E!Transactions)
           /\ \A i \in DOMAIN E!PageOf(n) :
                 /\ (n - 1) * PageSize + i \in 1 .. Len(E!Found)
                 /\ E!PageOf(n)[i] = E!Found[(n - 1) * PageSize + i]
           /\ \A r \in 1 .. Len(E!Found) :
                 (n - 1) * PageSize < r /\ r <= n * PageSize =>
                    r - (n - 1) * PageSize \in DOMAIN E!PageOf(n)
           /\ Len(E!PageOf(n)) <= PageSize
<1>1. PageSize \in Nat \ {0} /\ n - 1 \in Nat
  BY DEF E!ExportAssumption
<1>2. PICK a \in Nat : a = (n - 1) * PageSize
  BY <1>1
<1>3. n * PageSize = a + PageSize
  BY <1>1, <1>2
<1>4. PICK l \in Nat : l = Len(E!Found)
  BY FoundIs
<1>5. PICK b : b = IF a <= l THEN a ELSE l
  OBVIOUS
<1>6. PICK c : c = IF a + PageSize <= l THEN a + PageSize ELSE l
  OBVIOUS
<1>7. E!Min({a, l}) = b /\ E!Min({a + PageSize, l}) = c
  BY <1>1, <1>5, <1>6 DEF E!Min
<1>8. b \in Nat /\ c \in Nat /\ b <= c /\ c <= l
  BY <1>1, <1>5, <1>6
<1>9. E!PageOf(n) = SubSeq(E!Found, b + 1, c)
  BY <1>2, <1>3, <1>4, <1>7 DEF E!PageOf
<1>10. E!Found \in Seq(E!Transactions)
  <2>1. E!Found = [i \in 1 .. l |-> E!Found[i]]
    BY FoundIs, <1>4, SameCardinality DEF E!Found
  <2>2. \A i \in 1 .. l : E!Found[i] \in E!Transactions
    BY FoundIs, <1>4
  <2> QED
    BY <2>1, <2>2
<1> DEFINE p == SubSeq(E!Found, b + 1, c)
<1>11. /\ p \in Seq(E!Transactions) /\ Len(p) = c - b
       /\ \A i \in 1 .. c - b : p[i] = E!Found[b + i]
  <2>1. b + 1 \in 1 .. Len(E!Found) + 1 /\ c \in (b + 1) - 1 .. Len(E!Found)
    BY <1>4, <1>8
  <2>2. /\ p \in Seq(E!Transactions)
        /\ Len(p) = IF b + 1 <= c THEN c - (b + 1) + 1 ELSE 0
        /\ \A i \in 1 .. c - (b + 1) + 1 : p[i] = E!Found[b + 1 + i - 1]
    BY <1>10, <2>1, SubSeqProperties
  <2> HIDE DEF p
  <2> QED
    BY <1>8, <2>2
<1> HIDE DEF p
<1>12. DOMAIN p = 1 .. c - b
  BY <1>11
<1>13. \A i \in 1 .. c - b : a + i \in 1 .. l /\ p[i] = E!Found[a + i]
  BY <1>5, <1>6, <1>8, <1>11
<1>14. /\ \A r \in 1 .. l : a < r /\ r <= a + PageSize => r - a \in 1 .. c - b
       /\ c - b <= PageSize
  BY <1>1, <1>5, <1>6, <1>8
<1> QED
  BY <1>2, <1>3, <1>4, <1>9, <1>11, <1>12, <1>13, <1>14 DEF p

\* Until a transaction that matched stops to, a download under way has those
\* that were wanted down to where it is, and the newer ones before the others.
Gathers ==
    /\ export.pc = "search" =>
          \A t \in wanted : E!Rank(t) <= (export.page - 1) * PageSize =>
                               t \in E!Range(export.results)
    /\ export.pc = "done" => wanted \subseteq E!Range(export.results)

ExportInv == /\ E!TypeOK
             /\ ~lost => Gathers
             /\ E!InOrder

LEMMA ExportInit ==
    ASSUME E!ExportAssumption, E!Init
    PROVE  ExportInv
<1>1. lost \in BOOLEAN
  BY DEF E!Init
<1>2. E!TypeOK
  BY <1>1 DEF E!ExportAssumption, E!Init, E!TypeOK, E!Export
<1> QED
  BY <1>2 DEF E!Init, ExportInv, Gathers, E!InOrder

\* Nothing that arrives or begins to match puts anyone further to the front.
LEMMA MoreMatch ==
    ASSUME E!ExportAssumption, ExportInv, E!TypeOK',
           export' = export, wanted' = wanted,
           ~lost' => ~lost /\ matching \subseteq matching'
    PROVE  ExportInv'
<1>1. E!InOrder'
  BY DEF ExportInv, E!InOrder
<1>2. ASSUME ~lost'
      PROVE  Gathers'
  <2>1. \A t : E!Rank(t) <= E!Rank(t)'
    <3>1. made' \in Nat /\ matching' \in SUBSET (1 .. made')
      BY DEF E!TypeOK, E!ExportAssumption
    <3>2. \A t : RankIn(matching, t) <= RankIn(matching', t)
      BY <1>2, <3>1, RankInGrows
    <3> QED
      BY <3>2, RankIs
  <2>2. ASSUME NEW t \in wanted, export.pc = "search",
               E!Rank(t)' <= (export.page - 1) * PageSize
        PROVE  t \in E!Range(export.results)
    <3>1. t \in matching /\ t \in matching'
      BY <1>2 DEF ExportInv, E!TypeOK
    <3>2. E!Rank(t) \in Nat
      BY <3>1, FoundIs DEF ExportInv
    <3>3. E!Rank(t)' \in Nat
      <4>1. E!Rank(t)' = RankIn(matching', t)
        BY RankIs
      <4>2. made' \in Nat /\ matching' \in SUBSET (1 .. made')
        BY DEF E!TypeOK, E!ExportAssumption
      <4>3. RankIn(matching', t) \in 1 .. Cardinality(matching')
        BY <3>1, <4>2, RankInIs
      <4>4. Cardinality(matching') \in Nat
        BY <4>2, NumbersAreFinite
      <4> QED
        BY <4>1, <4>3, <4>4
    <3>4. PICK a \in Int : a = (export.page - 1) * PageSize
      BY DEF ExportInv, E!TypeOK, E!Export, E!ExportAssumption
    <3>5. E!Rank(t) <= a
      BY <2>1, <2>2, <3>2, <3>3, <3>4
    <3> QED
      BY <1>2, <2>2, <3>4, <3>5 DEF ExportInv, Gathers
  <2> QED
    BY <1>2, <2>2 DEF Gathers, ExportInv
<1> QED
  BY <1>1, <1>2 DEF ExportInv

LEMMA FetchKeeps ==
    ASSUME E!ExportAssumption, ExportInv, E!FetchPage
    PROVE  ExportInv'
<1> DEFINE old == export.results
           new == E!PageOf(export.page)
           n == export.page
<1>1. n \in Nat \ {0} /\ old \in Seq(E!Transactions) /\ E!TypeOK
  BY DEF ExportInv, E!TypeOK, E!Export, E!FetchPage
<1>2. /\ new \in Seq(E!Transactions)
      /\ \A i \in DOMAIN new :
            /\ (n - 1) * PageSize + i \in 1 .. Len(E!Found)
            /\ new[i] = E!Found[(n - 1) * PageSize + i]
      /\ \A r \in 1 .. Len(E!Found) :
            (n - 1) * PageSize < r /\ r <= n * PageSize =>
               r - (n - 1) * PageSize \in DOMAIN new
      /\ Len(new) <= PageSize
  BY <1>1, PageOfIs
<1>3. PICK a \in Nat : a = (n - 1) * PageSize
  <2>1. PageSize \in Nat /\ n - 1 \in Nat
    BY <1>1 DEF E!ExportAssumption
  <2> QED
    BY <2>1
<1>4. /\ PageSize \in Nat \ {0} /\ n * PageSize = a + PageSize
      /\ ((n + 1) - 1) * PageSize = a + PageSize
  BY <1>1, <1>3 DEF E!ExportAssumption
<1>5. /\ export'.results = old \o new /\ export'.page = n + 1
      /\ export'.pc = IF E!HasNext(n) THEN "search" ELSE "done"
      /\ export.pc = "search" /\ export' \in E!Export
  <2>1. export \in [pc : {"none", "link", "search", "done"}, page : Nat,
                    results : Seq(E!Transactions)]
    BY DEF ExportInv, E!TypeOK, E!Export
  <2>2. old \o new \in Seq(E!Transactions)
    BY <1>1, <1>2
  <2> HIDE DEF new
  <2>3. PICK q \in {"search", "done"} :
           q = IF E!HasNext(n) THEN "search" ELSE "done"
    OBVIOUS
  <2> DEFINE longer == old \o new
             later == n + 1
  <2>4. export' = [export EXCEPT !.results = longer, !.page = later, !.pc = q]
    BY <2>1, <2>3 DEF E!FetchPage, new
  <2>5. later \in Nat
    BY <1>1
  <2>6. longer \in Seq(E!Transactions)
    BY <2>2
  <2> HIDE DEF longer, later
  <2>7. /\ export'.results = longer /\ export'.page = later /\ export'.pc = q
        /\ export' \in E!Export
    BY <2>1, <2>4, <2>5, <2>6 DEF E!Export
  <2>8. export.pc = "search"
    BY DEF E!FetchPage
  <2> QED
    BY <2>3, <2>7, <2>8 DEF longer, later
<1>6. UNCHANGED <<made, matching, wanted, lost>>
  BY DEF E!FetchPage
<1>7. E!TypeOK'
  BY <1>1, <1>5, <1>6 DEF E!TypeOK
<1>8. \A t : E!Rank(t)' = E!Rank(t)
  BY <1>6 DEF E!Rank
<1>9. PICK l \in Nat : l = Len(E!Found)
  BY <1>1, FoundIs
<1>10. E!HasNext(n) <=> a + PageSize < l
  BY <1>4, <1>9 DEF E!HasNext
<1>11. \A t \in wanted : /\ t \in matching /\ t \in Nat
                         /\ E!Rank(t) \in 1 .. l /\ E!Found[E!Rank(t)] = t
  BY <1>1, <1>9, FoundIs DEF E!TypeOK, E!Transactions, E!ExportAssumption
<1> DEFINE k == Len(old)
           all == old \o new
<1>12. /\ k \in Nat /\ DOMAIN old = 1 .. k /\ DOMAIN new = 1 .. Len(new)
       /\ Len(new) \in Nat /\ DOMAIN all = 1 .. k + Len(new)
       /\ \A i \in 1 .. k : all[i] = old[i]
       /\ \A i \in 1 .. Len(new) : all[k + i] = new[i]
  <2> HIDE DEF new
  <2> QED
    BY <1>1, <1>2
<1>13. \A t \in wanted : E!Rank(t) \in a + 1 .. a + PageSize =>
          E!Rank(t) - a \in DOMAIN new /\ new[E!Rank(t) - a] = t
  BY <1>2, <1>3, <1>4, <1>9, <1>11
<1> HIDE DEF new, old, all, k, n
<1>14. ASSUME ~lost, NEW t \in wanted, E!Rank(t) <= a + PageSize
       PROVE  t \in E!Range(all)
  <2>1. CASE E!Rank(t) <= a
    <3>1. t \in E!Range(old)
      BY <1>3, <1>5, <1>14, <2>1 DEF ExportInv, Gathers, n, old
    <3>2. PICK i \in DOMAIN old : old[i] = t
      BY <3>1 DEF E!Range
    <3> QED
      BY <1>12, <3>2 DEF E!Range
  <2>2. CASE E!Rank(t) > a
    <3>1. E!Rank(t) - a \in DOMAIN new /\ new[E!Rank(t) - a] = t
      BY <1>11, <1>13, <1>14, <2>2
    <3>2. PICK i \in 1 .. Len(new) : new[i] = t
      BY <1>12, <3>1
    <3>3. k + i \in DOMAIN all /\ all[k + i] = t
      BY <1>12, <3>2
    <3> QED
      BY <3>3 DEF E!Range
  <2> QED
    BY <1>11, <1>14, <2>1, <2>2
<1>15. ~lost => Gathers'
  <2> SUFFICES ASSUME ~lost
               PROVE  Gathers'
    OBVIOUS
  <2>1. export'.pc = "search" => \A t \in wanted :
           E!Rank(t) <= (export'.page - 1) * PageSize => t \in E!Range(all)
    BY <1>4, <1>5, <1>14 DEF all
  <2>2. export'.pc = "done" => wanted \subseteq E!Range(all)
    <3> SUFFICES ASSUME export'.pc = "done", NEW t \in wanted
                 PROVE  t \in E!Range(all)
      OBVIOUS
    <3>1. l <= a + PageSize
      BY <1>4, <1>5, <1>9, <1>10
    <3>2. E!Rank(t) <= a + PageSize
      BY <1>4, <1>9, <1>11, <3>1
    <3> QED
      BY <1>14, <3>2
  <2> QED
    BY <1>5, <1>6, <1>8, <2>1, <2>2 DEF Gathers, all
<1>16. E!InOrder'
  <2> SUFFICES ASSUME ~lost, NEW t \in wanted, NEW i \in DOMAIN all,
                      all[i] \in wanted, all[i] < t
               PROVE  \E j \in 1 .. i - 1 : all[j] = t
    BY <1>5, <1>6 DEF E!InOrder, all
  <2>1. CASE i \in 1 .. k
    <3>1. old[i] \in wanted /\ old[i] < t /\ i \in DOMAIN old
      BY <1>12, <2>1
    <3>2. PICK j \in 1 .. i - 1 : old[j] = t
      BY <3>1 DEF ExportInv, E!InOrder, old
    <3>3. all[j] = t
      BY <1>12, <2>1, <3>2
    <3> QED
      BY <3>3
  <2>2. CASE i \notin 1 .. k
    <3> DEFINE m == i - k
               u == all[i]
    <3>1. m \in 1 .. Len(new) /\ i = k + m /\ u = new[m]
      BY <1>12, <2>2
    <3>2. a + m \in 1 .. l /\ u = E!Found[a + m]
      BY <1>2, <1>3, <1>9, <1>12, <3>1
    <3>3. u \in matching /\ E!Rank(u) = a + m
      BY <1>1, <1>9, <3>2, FoundIs
    <3>4. E!Rank(t) < E!Rank(u)
      <4>1. u < t
        OBVIOUS
      <4>2. made \in Nat /\ matching \in SUBSET (1 .. made)
        BY <1>1 DEF E!TypeOK, E!ExportAssumption
      <4>3. RankIn(matching, t) < RankIn(matching, u)
        BY <1>11, <3>3, <4>1, <4>2, RankInOrder
      <4> QED
        BY <4>3, RankIs
    <3>5. CASE E!Rank(t) <= a
      <4>1. t \in E!Range(old)
        BY <1>3, <1>5, <3>5 DEF ExportInv, Gathers, n, old
      <4>2. PICK j \in DOMAIN old : old[j] = t
        BY <4>1 DEF E!Range
      <4>3. j \in 1 .. i - 1 /\ all[j] = t
        BY <1>12, <3>1, <4>2
      <4> QED
        BY <4>3
    <3>6. CASE E!Rank(t) > a
      <4> DEFINE j == E!Rank(t) - a
      <4>1. E!Rank(t) \in Nat /\ E!Rank(u) = a + m /\ m \in Nat
        BY <1>11, <1>12, <3>1, <3>3
      <4>2. a + m <= a + PageSize
        <5>1. Len(new) <= PageSize
          BY <1>2
        <5> QED
          BY <1>12, <3>1, <5>1, <1>4
      <4>3. j \in 1 .. m - 1 /\ E!Rank(t) \in a + 1 .. a + PageSize
        BY <1>4, <3>4, <3>6, <4>1, <4>2
      <4>4. new[j] = t /\ j \in 1 .. Len(new)
        BY <1>12, <1>13, <4>3
      <4>5. k + j \in 1 .. i - 1 /\ all[k + j] = t
        BY <1>12, <3>1, <4>3, <4>4
      <4> QED
        BY <4>5
    <3> QED
      BY <1>11, <3>5, <3>6
  <2> QED
    BY <2>1, <2>2
<1> QED
  BY <1>7, <1>15, <1>16, <1>6 DEF ExportInv

LEMMA ChangeKeeps ==
    ASSUME E!ExportAssumption, ExportInv, NEW t \in 1 .. made, E!Change(t)
    PROVE  ExportInv'
<1>1. /\ export' = export /\ made' = made /\ wanted' = wanted \ {t}
      /\ matching' = IF t \in matching THEN matching \ {t} ELSE matching \cup {t}
      /\ lost' = (lost \/ t \in matching)
  BY DEF E!Change
<1>2. wanted \subseteq matching /\ matching \subseteq 1 .. made
  BY DEF ExportInv, E!TypeOK
<1>3. E!TypeOK'
  BY <1>1, <1>2 DEF ExportInv, E!TypeOK
<1>4. CASE t \in matching
  BY <1>1, <1>3, <1>4 DEF ExportInv, E!InOrder
<1>5. CASE t \notin matching /\ ~lost
  <2>1. wanted' = wanted
    BY <1>1, <1>2, <1>5
  <2>2. matching \subseteq matching'
    BY <1>1, <1>5
  <2> QED
    BY <1>1, <1>3, <1>5, <2>1, <2>2, MoreMatch
<1>6. CASE lost
  BY <1>1, <1>3, <1>6 DEF ExportInv, E!InOrder
<1> QED
  BY <1>4, <1>5, <1>6

LEMMA ExportStep ==
    ASSUME E!ExportAssumption, ExportInv, [E!Next]_(E!vars)
    PROVE  ExportInv'
<1>1. CASE E!Arrive
  <2>1. /\ made' = made + 1 /\ made < MaxTransactions
        /\ matching' \in {matching, matching \cup {made'}}
        /\ export' = export /\ wanted' = wanted /\ lost' = lost
    BY <1>1 DEF E!Arrive
  <2>2. matching \subseteq matching'
    BY <2>1
  <2>3. E!TypeOK'
    <3>1. made \in Nat /\ matching \subseteq 1 .. made /\ wanted \subseteq matching
      BY DEF ExportInv, E!TypeOK, E!ExportAssumption
    <3>2. made' \in 0 .. MaxTransactions
      BY <2>1, <3>1 DEF E!ExportAssumption
    <3>3. matching' \subseteq 1 .. made'
      BY <2>1, <3>1
    <3> QED
      BY <2>1, <2>2, <3>1, <3>2, <3>3 DEF ExportInv, E!TypeOK
  <2> QED
    BY <2>1, <2>2, <2>3, MoreMatch
<1>2. ASSUME NEW t \in 1 .. made, E!Change(t)
      PROVE  ExportInv'
  BY <1>2, ChangeKeeps
<1>3. CASE E!List
  <2>1. /\ export' = [export EXCEPT !.pc = "link"] /\ export.pc = "none"
        /\ UNCHANGED <<made, matching, wanted, lost>>
    BY <1>3 DEF E!List
  <2>2. /\ export' \in E!Export /\ export'.pc = "link"
        /\ export'.results = export.results
    BY <2>1 DEF ExportInv, E!TypeOK, E!Export
  <2> QED
    BY <2>1, <2>2 DEF ExportInv, E!TypeOK, Gathers, E!InOrder
<1>4. CASE E!Download
  <2>1. /\ export' = [pc |-> "search", page |-> 1, results |-> <<>>]
        /\ wanted' = matching /\ lost' = FALSE
        /\ made' = made /\ matching' = matching
    BY <1>4 DEF E!Download
  <2>2. /\ export' \in E!Export /\ export'.pc = "search" /\ export'.page = 1
        /\ export'.results = <<>>
    BY <2>1 DEF E!Export
  <2>3. E!TypeOK'
    <3>1. lost' \in BOOLEAN
      BY <2>1
    <3>2. made' \in 0 .. MaxTransactions /\ matching' \subseteq 1 .. made'
      BY <2>1 DEF ExportInv, E!TypeOK
    <3> QED
      BY <2>1, <2>2, <3>1, <3>2 DEF E!TypeOK
  <2>4. \A t \in matching : E!Rank(t)' \in Nat /\ E!Rank(t)' > 0
    <3>1. \A t : E!Rank(t)' = E!Rank(t)
      BY <2>1 DEF E!Rank
    <3> QED
      BY <3>1, FoundIs DEF ExportInv
  <2>5. (1 - 1) * PageSize = 0
    BY DEF E!ExportAssumption
  <2>6. Gathers'
    BY <2>1, <2>2, <2>4, <2>5 DEF Gathers
  <2>7. E!InOrder'
    BY <2>2 DEF E!InOrder
  <2> QED
    BY <2>3, <2>6, <2>7 DEF ExportInv
<1>5. CASE E!FetchPage
  BY <1>5, FetchKeeps
<1>6. CASE UNCHANGED E!vars
  BY <1>6 DEF E!vars, ExportInv, E!TypeOK, Gathers, E!Rank, E!InOrder
<1> QED
  BY <1>1, <1>2, <1>3, <1>4, <1>5, <1>6 DEF E!Next

LEMMA ExportKept ==
    ASSUME ExportInv
    PROVE  E!TypeOK /\ E!NothingLeftOut /\ E!InOrder
  BY DEF ExportInv, Gathers, E!NothingLeftOut

-----------------------------------------------------------------------------
(* The pages                                                               *)

\* The last page is the one that the last transaction is on.
LEMMA LastPageIs ==
    ASSUME NEW n \in Nat, NEW k \in Nat \ {0}
    PROVE  /\ (n + k - 1) \div k \in Nat
           /\ (n + k - 1) \div k = (n - 1) \div k + 1
           /\ n > 0 => (n - 1) \div k \in Nat /\ ((n - 1) \div k) * k < n
<1>1. /\ (n - 1) \div k \in Int
      /\ ((n - 1) \div k) * k <= n - 1
      /\ n - 1 < ((n - 1) \div k) * k + k
  OBVIOUS
<1>2. (n + k - 1) \div k = (n - 1) \div k + 1
  OBVIOUS
<1>3. n > 0 => (n - 1) \div k \in Nat
  OBVIOUS
<1>4. (n + k - 1) \div k \in Nat
  OBVIOUS
<1> QED
  BY <1>1, <1>2, <1>3, <1>4

LEMMA EarlierPage ==
    ASSUME NEW k \in Nat \ {0}, NEW q \in Nat, NEW p \in 1 .. q, NEW n \in Nat,
           (q - 1) * k < n
    PROVE  (p - 1) * k < n
<1>1. p - 1 \in Nat /\ q - 1 \in Nat /\ p - 1 <= q - 1
  OBVIOUS
<1>2. \A i, j \in Nat : i <= j => i * k <= j * k /\ i * k \in Nat /\ j * k \in Nat
  OBVIOUS
<1>3. /\ (p - 1) * k <= (q - 1) * k
      /\ (p - 1) * k \in Nat /\ (q - 1) * k \in Nat
  BY <1>1, <1>2
<1> DEFINE i == (p - 1) * k
           j == (q - 1) * k
<1>4. i <= j /\ i \in Nat /\ j \in Nat /\ j < n
  BY <1>3
<1> HIDE DEF i, j
<1>5. i < n
  BY <1>4
<1> QED
  BY <1>5 DEF i

LEMMA PagesInit ==
    ASSUME P!PagesAssumption, P!Init
    PROVE  P!TypeOK
  BY DEF P!PagesAssumption, P!Init, P!TypeOK, P!ValidFilters

LEMMA MinOfTwo ==
    ASSUME NEW a \in Int, NEW b \in Int
    PROVE  /\ P!Min({a, b}) = IF a <= b THEN a ELSE b
           /\ P!Max({a, b}) = IF a <= b THEN b ELSE a
<1>1. P!Min({a, b}) = IF a <= b THEN a ELSE b
  BY DEF P!Min
<1>2. P!Max({a, b}) = IF a <= b THEN b ELSE a
  BY DEF P!Max
<1> QED
  BY <1>1, <1>2

\* Where a page relative to the one shown is.
LEMMA OffsetIs ==
    ASSUME P!TypeOK, P!PagesAssumption, NEW o \in Int, P!LastPage \in Nat \ {0}
    PROVE  P!PageByOffset(o) = IF page + o < 1 THEN 1
                             ELSE IF page + o > P!LastPage THEN P!LastPage
                             ELSE page + o
<1>0. page \in Nat \ {0}
  BY DEF P!TypeOK, P!ValidFilters
<1>1. P!Max({page + o, 1}) = IF page + o <= 1 THEN 1 ELSE page + o
  BY MinOfTwo, <1>0
<1> QED
  BY MinOfTwo, <1>0, <1>1 DEF P!PageByOffset, P!FirstPage

\* What the links of a list have in common with the ones of two halves.
To(links, name) == {links[i].number : i \in {j \in DOMAIN links : links[j].name = name}}

Orderly(links) ==
    \A i, j \in DOMAIN links :
        links[i].name = "number" =>
            /\ links[i].active <=> links[i].number = page
            /\ links[j].name = "number" /\ i < j
                  => links[i].number < links[j].number

LinkNames == {"first", "previous", "next", "last"}

Link == [number : Int, name : LinkNames \cup {"number"}, active : BOOLEAN]

LEMMA JoinTo ==
    ASSUME NEW s \in Seq(Link), NEW t \in Seq(Link), NEW name
    PROVE  To(s \o t, name) = To(s, name) \cup To(t, name)
<1> DEFINE u == s \o t
<1>1. /\ Len(s) \in Nat /\ Len(t) \in Nat /\ Len(u) = Len(s) + Len(t)
      /\ DOMAIN s = 1 .. Len(s) /\ DOMAIN t = 1 .. Len(t)
      /\ DOMAIN u = 1 .. Len(u)
  OBVIOUS
<1>2. \A i \in DOMAIN s : i \in DOMAIN u /\ u[i] = s[i]
  BY <1>1
<1>3. \A i \in DOMAIN t : Len(s) + i \in DOMAIN u /\ u[Len(s) + i] = t[i]
  BY <1>1
<1>4. \A i \in DOMAIN u : i \notin DOMAIN s =>
         i - Len(s) \in DOMAIN t /\ u[i] = t[i - Len(s)]
  BY <1>1
<1> HIDE DEF u
<1>5. To(u, name) \subseteq To(s, name) \cup To(t, name)
  BY <1>2, <1>4 DEF To
<1>6. To(s, name) \cup To(t, name) \subseteq To(u, name)
  BY <1>2, <1>3 DEF To
<1> QED
  BY <1>5, <1>6 DEF u

\* Links that have no numbers among them keep the others orderly.
LEMMA JoinOrderly ==
    ASSUME NEW s \in Seq(Link), NEW t \in Seq(Link),
           Orderly(s), Orderly(t), To(s, "number") = {} \/ To(t, "number") = {}
    PROVE  Orderly(s \o t)
<1> DEFINE u == s \o t
<1>1. /\ Len(s) \in Nat /\ Len(t) \in Nat /\ Len(u) = Len(s) + Len(t)
      /\ DOMAIN s = 1 .. Len(s) /\ DOMAIN t = 1 .. Len(t)
      /\ DOMAIN u = 1 .. Len(u)
  OBVIOUS
<1>4. \A i \in DOMAIN u :
         IF i <= Len(s) THEN i \in DOMAIN s /\ u[i] = s[i]
         ELSE i - Len(s) \in DOMAIN t /\ u[i] = t[i - Len(s)]
  BY <1>1
<1> HIDE DEF u
<1>5. SUFFICES ASSUME NEW i \in DOMAIN u, NEW j \in DOMAIN u, u[i].name = "number"
      PROVE  /\ u[i].active <=> u[i].number = page
             /\ u[j].name = "number" /\ i < j => u[i].number < u[j].number
  BY DEF Orderly, u
<1>6. CASE To(t, "number") = {}
  <2>1. \A k \in DOMAIN t : t[k].name # "number"
    BY <1>6 DEF To
  <2> QED
    BY <1>1, <1>4, <1>5, <2>1 DEF Orderly
<1>7. CASE To(s, "number") = {}
  <2>1. \A k \in DOMAIN s : s[k].name # "number"
    BY <1>7 DEF To
  <2> QED
    BY <1>1, <1>4, <1>5, <2>1 DEF Orderly
<1> QED
  BY <1>6, <1>7

\* The numbers that links of each name lead to.
LinksTo(links, first, previous, number, next, last) ==
    /\ links \in Seq(Link) /\ Orderly(links)
    /\ To(links, "first") = first /\ To(links, "previous") = previous
    /\ To(links, "number") = number
    /\ To(links, "next") = next /\ To(links, "last") = last

LEMMA JoinLinks ==
    ASSUME NEW s, NEW f, NEW p, NEW k, NEW n, NEW l,
           NEW t, NEW f2, NEW p2, NEW k2, NEW n2, NEW l2,
           LinksTo(s, f, p, k, n, l), LinksTo(t, f2, p2, k2, n2, l2),
           k = {} \/ k2 = {}
    PROVE  LinksTo(s \o t, f \cup f2, p \cup p2, k \cup k2, n \cup n2, l \cup l2)
<1>1. /\ s \in Seq(Link) /\ Orderly(s) /\ t \in Seq(Link) /\ Orderly(t)
      /\ To(s, "number") = {} \/ To(t, "number") = {}
  BY DEF LinksTo
<1>2. s \o t \in Seq(Link)
  BY <1>1
<1>3. Orderly(s \o t)
  BY <1>1, JoinOrderly
<1>4. \A name : To(s \o t, name) = To(s, name) \cup To(t, name)
  BY <1>1, JoinTo
<1> QED
  BY <1>2, <1>3, <1>4 DEF LinksTo

LEMMA NoLinks == LinksTo(<<>>, {}, {}, {}, {}, {})
  BY DEF LinksTo, Orderly, To

LEMMA OneLink ==
    ASSUME NEW n \in Int
    PROVE  /\ LinksTo(<<P!PageObject(n, "first")>>, {n}, {}, {}, {}, {})
           /\ LinksTo(<<P!PageObject(n, "previous")>>, {}, {n}, {}, {}, {})
           /\ LinksTo(<<P!PageObject(n, "next")>>, {}, {}, {}, {n}, {})
           /\ LinksTo(<<P!PageObject(n, "last")>>, {}, {}, {}, {}, {n})
<1>1. ASSUME NEW name \in LinkNames
      PROVE  /\ <<P!PageObject(n, name)>> \in Seq(Link)
             /\ Orderly(<<P!PageObject(n, name)>>)
             /\ To(<<P!PageObject(n, name)>>, name) = {n}
             /\ \A other : other # name => To(<<P!PageObject(n, name)>>, other) = {}
  <2> DEFINE k == P!PageObject(n, name)
             s == <<k>>
  <2>1. k = [number |-> n, name |-> name, active |-> FALSE]
    BY DEF P!PageObject
  <2>2. FALSE \in BOOLEAN /\ name # "number"
    BY DEF LinkNames
  <2>3. k.number = n /\ k.name = name
    BY <2>1
  <2>4. k \in Link
    BY <2>1, <2>2 DEF Link
  <2> HIDE DEF k
  <2>5. s \in Seq(Link) /\ DOMAIN s = {1} /\ s[1] = k
    BY <2>4
  <2> HIDE DEF s
  <2>6. Orderly(s)
    BY <2>2, <2>3, <2>5 DEF Orderly
  <2>7. To(s, name) = {n} /\ \A other : other # name => To(s, other) = {}
    BY <2>3, <2>5 DEF To
  <2>8. s = <<P!PageObject(n, name)>>
    BY DEF s, k
  <2> QED
    BY <2>5, <2>6, <2>7, <2>8
<1>2. /\ "first" # "previous" /\ "first" # "next" /\ "first" # "last"
      /\ "previous" # "next" /\ "previous" # "last" /\ "next" # "last"
  OBVIOUS
<1>3. \A name \in LinkNames : name # "number"
  BY DEF LinkNames
<1>4. /\ "first" \in LinkNames /\ "previous" \in LinkNames
      /\ "next" \in LinkNames /\ "last" \in LinkNames
  BY DEF LinkNames
<1> QED
  BY <1>1, <1>2, <1>3, <1>4 DEF LinksTo

LEMMA RangeIs ==
    ASSUME P!TypeOK, P!PagesAssumption, P!LastPage \in Nat \ {0}, page <= P!LastPage
    PROVE  /\ P!NamedPagesInRange \in Seq(Link)
           /\ Orderly(P!NamedPagesInRange)
           /\ \A name \in LinkNames : To(P!NamedPagesInRange, name) = {}
           /\ To(P!NamedPagesInRange, "number") = P!Range(P!CentredRange)
           /\ P!Range(P!CentredRange) =
                 {p \in 1 .. P!LastPage : p - page \in -Spread .. Spread}
<1> DEFINE lo == P!PageByOffset(-Spread)
           hi == P!PageByOffset(Spread)
<1>1. page \in Nat \ {0} /\ Spread \in Nat /\ -Spread \in Int
  BY DEF P!TypeOK, P!ValidFilters, P!PagesAssumption
<1>2. lo = IF page - Spread < 1 THEN 1 ELSE page - Spread
  <2>1. lo = IF page + (-Spread) < 1 THEN 1
             ELSE IF page + (-Spread) > P!LastPage THEN P!LastPage
             ELSE page + (-Spread)
    BY <1>1, OffsetIs
  <2> HIDE DEF lo
  <2> QED
    BY <1>1, <2>1
<1>3. hi = IF page + Spread > P!LastPage THEN P!LastPage ELSE page + Spread
  <2>1. hi = IF page + Spread < 1 THEN 1
             ELSE IF page + Spread > P!LastPage THEN P!LastPage
             ELSE page + Spread
    BY <1>1, OffsetIs
  <2> HIDE DEF hi
  <2> QED
    BY <1>1, <2>1
<1>4. P!CentredRange = [i \in 1 .. hi - lo + 1 |-> lo + i - 1]
  BY DEF P!CentredRange
<1> DEFINE c == P!CentredRange
<1> HIDE DEF lo, hi, c
<1>5. lo \in Nat /\ hi \in Nat /\ lo <= hi
  BY <1>1, <1>2, <1>3
<1>6. DOMAIN c = 1 .. hi - lo + 1 /\ \A i \in DOMAIN c : c[i] = lo + i - 1
  BY <1>4 DEF c
<1>7. P!Range(c) = lo .. hi
  <2>1. P!Range(c) \subseteq lo .. hi
    BY <1>5, <1>6 DEF P!Range
  <2>2. ASSUME NEW p \in lo .. hi
        PROVE  p \in P!Range(c)
    <3>1. p - lo + 1 \in DOMAIN c /\ c[p - lo + 1] = p
      BY <1>5, <1>6
    <3> QED
      BY <3>1 DEF P!Range
  <2> QED
    BY <2>1, <2>2
<1>8. lo .. hi = {p \in 1 .. P!LastPage : p - page \in -Spread .. Spread}
  BY <1>1, <1>2, <1>3
<1> DEFINE n == P!NamedPagesInRange
<1>9. /\ DOMAIN n = DOMAIN c
      /\ \A i \in DOMAIN n : n[i] = [number |-> c[i], name |-> "number",
                                     active |-> c[i] = page]
  BY DEF P!NamedPagesInRange, P!PageObject, c
<1> HIDE DEF n
<1>10. n \in Seq(Link)
  <2>1. \A i \in DOMAIN n : n[i] \in Link
    <3>1. \A i \in DOMAIN n : c[i] \in Int
      BY <1>5, <1>6, <1>9
    <3>2. \A i \in DOMAIN n : (c[i] = page) \in BOOLEAN
      OBVIOUS
    <3>3. SUFFICES ASSUME NEW i \in DOMAIN n
          PROVE  n[i] \in Link
      OBVIOUS
    <3> DEFINE x == c[i]
               y == c[i] = page
    <3>4. x \in Int
      BY <3>1, <1>9
    <3>6. y \in BOOLEAN
      OBVIOUS
    <3>5. n[i] = [number |-> x, name |-> "number", active |-> y]
      BY <1>9
    <3> HIDE DEF x, y
    <3> QED
      BY <3>4, <3>5, <3>6 DEF Link
  <2>2. hi - lo + 1 \in Nat /\ DOMAIN n = 1 .. hi - lo + 1
    BY <1>5, <1>6, <1>9
  <2>3. n = [i \in 1 .. hi - lo + 1 |-> n[i]]
    BY <2>2, <1>9 DEF n, P!NamedPagesInRange, c
  <2> QED
    BY <2>1, <2>2, <2>3
<1>11. Orderly(n)
  <2>1. ASSUME NEW i \in DOMAIN n
        PROVE  n[i].active <=> n[i].number = page
    <3>1. n[i].active = (c[i] = page) /\ n[i].number = c[i]
      BY <1>9
    <3> QED
      BY <3>1
  <2>2. \A i, j \in DOMAIN n : i < j => n[i].number < n[j].number
    BY <1>5, <1>6, <1>9
  <2> QED
    BY <2>1, <2>2 DEF Orderly
<1>12. \A name \in LinkNames : To(n, name) = {}
  BY <1>9 DEF To, LinkNames
<1>13. To(n, "number") = P!Range(c)
  BY <1>9 DEF To, P!Range
<1> QED
  BY <1>7, <1>8, <1>10, <1>11, <1>12, <1>13 DEF n, c

\* The links of a list with more than one page, on one that is there.
LEMMA LinksAre ==
    ASSUME P!TypeOK, P!PagesAssumption, P!LastPage \in Nat \ {0}, page <= P!LastPage
    PROVE  LET links == P!NamedCentredRange
               near == {p \in 1 .. P!LastPage : p - page \in -Spread .. Spread}
           IN  LinksTo(links, {1} \ near, {page - 1} \cap 1 .. P!LastPage, near,
                       {page + 1} \cap 1 .. P!LastPage, {P!LastPage} \ near)
<1> DEFINE near == {p \in 1 .. P!LastPage : p - page \in -Spread .. Spread}
           before == {page - 1} \cap 1 .. P!LastPage
           after == {page + 1} \cap 1 .. P!LastPage
           a == P!Optional(P!FirstPage \notin P!Range(P!CentredRange), P!FirstPage, "first")
           b == P!Optional(P!Adjacent(-1) # page, P!Adjacent(-1), "previous")
           m == P!NamedPagesInRange
           c == P!Optional(P!Adjacent(1) # page, P!Adjacent(1), "next")
           d == P!Optional(P!LastPage \notin P!Range(P!CentredRange), P!LastPage, "last")
<1>1. page \in Nat \ {0} /\ P!FirstPage = 1
  BY DEF P!TypeOK, P!ValidFilters, P!FirstPage
<1>2. P!Range(P!CentredRange) = near
  BY RangeIs
<1>3. P!Adjacent(-1) = IF page = 1 THEN 1 ELSE page - 1
  BY <1>1, OffsetIs, -1 \in Int DEF P!Adjacent
<1>4. P!Adjacent(1) = IF page = P!LastPage THEN P!LastPage ELSE page + 1
  BY <1>1, OffsetIs, 1 \in Int DEF P!Adjacent
<1>5. LinksTo(a, {1} \ near, {}, {}, {}, {})
  <2>1. CASE 1 \in near
    <3>1. a = <<>> /\ {1} \ near = {}
      BY <1>1, <1>2, <2>1 DEF P!Optional
    <3> QED
      BY <3>1, NoLinks
  <2>2. CASE 1 \notin near
    <3>1. a = <<P!PageObject(1, "first")>> /\ {1} \ near = {1}
      BY <1>1, <1>2, <2>2 DEF P!Optional
    <3> 1 \in Int
      BY <1>1
    <3>2. LinksTo(<<P!PageObject(1, "first")>>, {1}, {}, {}, {}, {})
      BY OneLink, Zenon
    <3> HIDE DEF a, b, c, d, near, before, after
    <3> QED
      BY <3>1, <3>2
  <2> QED
    BY <2>1, <2>2
<1>6. LinksTo(b, {}, before, {}, {}, {})
  <2>1. CASE page = 1
    <3>1. b = <<>> /\ before = {}
      BY <1>3, <2>1 DEF P!Optional
    <3> QED
      BY <3>1, NoLinks
  <2>2. CASE page # 1
    <3>1. b = <<P!PageObject(page - 1, "previous")>> /\ before = {page - 1}
      BY <1>1, <1>3, <2>2 DEF P!Optional
    <3> page - 1 \in Int
      BY <1>1
    <3>2. LinksTo(<<P!PageObject(page - 1, "previous")>>, {}, {page - 1}, {}, {}, {})
      BY OneLink, Zenon
    <3> HIDE DEF a, b, c, d, near, before, after
    <3> QED
      BY <3>1, <3>2
  <2> QED
    BY <2>1, <2>2
<1>7. LinksTo(m, {}, {}, near, {}, {})
  <2>1. /\ m \in Seq(Link) /\ Orderly(m) /\ To(m, "number") = near
        /\ \A name \in LinkNames : To(m, name) = {}
    BY RangeIs, <1>2
  <2> HIDE DEF m, near
  <2> QED
    BY <2>1 DEF LinksTo, LinkNames
<1>8. LinksTo(c, {}, {}, {}, after, {})
  <2>1. CASE page = P!LastPage
    <3>1. c = <<>> /\ after = {}
      BY <1>1, <1>4, <2>1 DEF P!Optional
    <3> QED
      BY <3>1, NoLinks
  <2>2. CASE page # P!LastPage
    <3>1. c = <<P!PageObject(page + 1, "next")>> /\ after = {page + 1}
      BY <1>1, <1>4, <2>2 DEF P!Optional
    <3> page + 1 \in Int
      BY <1>1
    <3>2. LinksTo(<<P!PageObject(page + 1, "next")>>, {}, {}, {}, {page + 1}, {})
      BY OneLink, Zenon
    <3> HIDE DEF a, b, c, d, near, before, after
    <3> QED
      BY <3>1, <3>2
  <2> QED
    BY <2>1, <2>2
<1>9. LinksTo(d, {}, {}, {}, {}, {P!LastPage} \ near)
  <2>1. CASE P!LastPage \in near
    <3>1. d = <<>> /\ {P!LastPage} \ near = {}
      BY <1>2, <2>1 DEF P!Optional
    <3> QED
      BY <3>1, NoLinks
  <2>2. CASE P!LastPage \notin near
    <3>1. /\ d = <<P!PageObject(P!LastPage, "last")>>
          /\ {P!LastPage} \ near = {P!LastPage}
      BY <1>2, <2>2 DEF P!Optional
    <3> P!LastPage \in Int
      BY <1>1
    <3>2. LinksTo(<<P!PageObject(P!LastPage, "last")>>, {}, {}, {}, {}, {P!LastPage})
      BY OneLink, Zenon
    <3> HIDE DEF a, b, c, d, near, before, after
    <3> QED
      BY <3>1, <3>2
  <2> QED
    BY <2>1, <2>2
<1>10. P!NamedCentredRange = (((a \o b) \o m) \o c) \o d
  BY DEF P!NamedCentredRange
<1> HIDE DEF near, before, after, a, b, m, c, d
<1>11. LinksTo(a \o b, {1} \ near, before, {}, {}, {})
  <2>1. LinksTo(a \o b, ({1} \ near) \cup {}, {} \cup before, {} \cup {},
                {} \cup {}, {} \cup {})
    BY <1>5, <1>6, JoinLinks
  <2> QED
    BY <2>1
<1>12. LinksTo((a \o b) \o m, {1} \ near, before, near, {}, {})
  <2>1. LinksTo((a \o b) \o m, ({1} \ near) \cup {}, before \cup {}, {} \cup near,
                {} \cup {}, {} \cup {})
    BY <1>7, <1>11, JoinLinks
  <2> QED
    BY <2>1
<1>13. LinksTo(((a \o b) \o m) \o c, {1} \ near, before, near, after, {})
  <2>1. LinksTo(((a \o b) \o m) \o c, ({1} \ near) \cup {}, before \cup {},
                near \cup {}, {} \cup after, {} \cup {})
    BY <1>8, <1>12, JoinLinks
  <2> QED
    BY <2>1
<1>14. LinksTo((((a \o b) \o m) \o c) \o d, {1} \ near, before, near, after,
               {P!LastPage} \ near)
  <2>1. LinksTo((((a \o b) \o m) \o c) \o d, ({1} \ near) \cup {}, before \cup {},
                near \cup {}, after \cup {}, {} \cup ({P!LastPage} \ near))
    BY <1>9, <1>13, JoinLinks
  <2> QED
    BY <2>1
<1> QED
  BY <1>10, <1>14 DEF near, before, after

\* A list has as many pages as its transactions take, and its last page is in
\* the middle of them or after the others.
LEMMA HowManyPages ==
    ASSUME P!TypeOK, P!PagesAssumption
    PROVE  /\ shown \in Nat /\ limit \in Nat \ {0} /\ page \in Nat \ {0}
           /\ P!LastPage \in Nat /\ P!LastPage = (shown - 1) \div limit + 1
           /\ shown > 0 => (P!LastPage - 1) * limit < shown
<1>1. shown \in Nat /\ limit \in Nat \ {0} /\ page \in Nat \ {0}
  BY DEF P!TypeOK, P!ValidFilters, P!PagesAssumption
<1>2. (shown - 1) \div limit \in Int
  BY <1>1
<1>3. ((shown - 1) \div limit + 1) - 1 = (shown - 1) \div limit
  BY <1>2
<1> QED
  BY <1>1, <1>3, LastPageIs DEF P!LastPage

LEMMA LinksRight ==
    ASSUME P!TypeOK, P!PagesAssumption
    PROVE  P!LinksAreRight
<1> DEFINE links == P!PaginationLinks
           pages == 1 .. ((shown - 1) \div limit + 1)
           near == {p \in pages : p - page \in -Spread .. Spread}
<1>1. SUFFICES ASSUME Len(links) > 0, page \in pages
      PROVE  /\ To(links, "number") = near
             /\ Orderly(links)
             /\ To(links, "previous") = {page - 1} \cap pages
             /\ To(links, "next") = {page + 1} \cap pages
             /\ To(links, "first") = {1} \ near
             /\ To(links, "last") = {P!Max(pages)} \ near
  BY DEF P!LinksAreRight, To, Orderly
<1>2. pages = 1 .. P!LastPage /\ P!LastPage \in Nat
  BY HowManyPages
<1>3. shown > 0 /\ P!LastPage > 1
  <2>1. CASE ~(shown > 0 /\ P!LastPage > 1)
    BY <1>1, <2>1 DEF P!PaginationLinks
  <2> QED
    BY <2>1
<1>4. links = P!NamedCentredRange
  BY <1>3 DEF P!PaginationLinks
<1> DEFINE last == P!LastPage
<1>5. P!Max(pages) = last
  <2> HIDE DEF pages, last
  <2>1. pages = 1 .. last /\ last \in Nat /\ last > 1
    BY <1>2, <1>3 DEF last
  <2> QED
    BY <2>1 DEF P!Max
<1>6. P!LastPage \in Nat \ {0} /\ page <= P!LastPage
  <2> HIDE DEF pages, last
  <2>1. pages = 1 .. last /\ last \in Nat /\ last > 1
    BY <1>2, <1>3 DEF last
  <2> QED
    BY <1>1, <2>1 DEF last
<1>7. LinksTo(P!NamedCentredRange, {1} \ near, {page - 1} \cap pages, near,
              {page + 1} \cap pages, {P!LastPage} \ near)
  BY <1>2, <1>6, LinksAre
<1> QED
  BY <1>4, <1>5, <1>7 DEF LinksTo

\* Links to the pages that are there, and those of the page shown, which may
\* have been after them.
LinkIn == [number : 1 .. P!LastPage, name : LinkNames \cup {"number"},
           active : BOOLEAN]

LEMMA OptionalIn ==
    ASSUME NEW condition, NEW n \in 1 .. P!LastPage, NEW name \in LinkNames
    PROVE  P!Optional(condition, n, name) \in Seq(LinkIn)
<1> DEFINE k == P!PageObject(n, name)
<1>1. k \in LinkIn
  <2>1. FALSE \in BOOLEAN /\ name \in LinkNames \cup {"number"}
    OBVIOUS
  <2> QED
    BY <2>1 DEF P!PageObject, LinkIn
<1> HIDE DEF k
<1>2. <<k>> \in Seq(LinkIn) /\ <<>> \in Seq(LinkIn)
  BY <1>1
<1>3. P!Optional(condition, n, name) \in {<<k>>, <<>>}
  BY DEF P!Optional, k
<1> QED
  BY <1>2, <1>3

LEMMA LinksLeadIn ==
    ASSUME P!TypeOK, P!PagesAssumption, NEW i \in DOMAIN P!PaginationLinks
    PROVE  /\ shown > 0 /\ P!LastPage \in Nat
           /\ P!PaginationLinks[i].number \in 1 .. P!LastPage
<1>1. shown > 0 /\ P!LastPage > 1 /\ P!PaginationLinks = P!NamedCentredRange
  <2>1. CASE ~(shown > 0 /\ P!LastPage > 1)
    BY <2>1 DEF P!PaginationLinks
  <2> QED
    BY <2>1 DEF P!PaginationLinks
<1>2. P!LastPage \in Nat \ {0} /\ page \in Nat \ {0} /\ Spread \in Nat
  BY <1>1, HowManyPages DEF P!PagesAssumption
<1>3. ASSUME NEW o \in Int
      PROVE  P!PageByOffset(o) \in 1 .. P!LastPage
  <2> DEFINE p == P!PageByOffset(o)
             last == P!LastPage
  <2>1. p = IF page + o < 1 THEN 1
            ELSE IF page + o > last THEN last ELSE page + o
    BY <1>2, OffsetIs
  <2>2. last \in Nat \ {0}
    BY <1>2
  <2> HIDE DEF p, last
  <2>3. p \in 1 .. last
    BY <1>2, <2>1, <2>2
  <2> QED
    BY <2>3 DEF p, last
<1>4. P!NamedPagesInRange \in Seq(LinkIn)
  <2> DEFINE lo == P!PageByOffset(-Spread)
             hi == P!PageByOffset(Spread)
             m == P!NamedPagesInRange
             last == P!LastPage
             c == P!CentredRange
  <2>1. lo \in 1 .. last /\ hi \in 1 .. last /\ last \in Nat
    <3>1. -Spread \in Int /\ Spread \in Int
      BY <1>2
    <3> QED
      BY <1>2, <1>3, <3>1
  <2>2. lo <= hi
    <3>1. lo = IF page + (-Spread) < 1 THEN 1
               ELSE IF page + (-Spread) > last THEN last ELSE page + (-Spread)
      BY <1>2, OffsetIs, -Spread \in Int
    <3>2. hi = IF page + Spread < 1 THEN 1
               ELSE IF page + Spread > last THEN last ELSE page + Spread
      BY <1>2, OffsetIs
    <3> HIDE DEF lo, hi, last
    <3> QED
      BY <1>2, <2>1, <3>1, <3>2
  <2>3. /\ DOMAIN c = 1 .. hi - lo + 1
        /\ \A j \in DOMAIN c : c[j] = lo + j - 1
    BY DEF P!CentredRange
  <2>4. /\ DOMAIN m = DOMAIN c
        /\ \A j \in DOMAIN m : m[j] = [number |-> c[j], name |-> "number",
                                       active |-> c[j] = page]
    BY DEF P!NamedPagesInRange, P!PageObject
  <2>5. m = [j \in DOMAIN c |-> m[j]]
    BY <2>4 DEF P!NamedPagesInRange
  <2> HIDE DEF lo, hi, m, last, c
  <2>6. \A j \in DOMAIN m : c[j] \in 1 .. last
    BY <2>1, <2>2, <2>3, <2>4
  <2>7. ASSUME NEW j \in DOMAIN m
        PROVE  m[j] \in LinkIn
    <3> DEFINE x == c[j]
               y == c[j] = page
    <3>1. m[j] = [number |-> x, name |-> "number", active |-> y]
      BY <2>4
    <3>2. x \in 1 .. P!LastPage
      BY <2>6 DEF last
    <3>3. y \in BOOLEAN
      OBVIOUS
    <3> HIDE DEF x, y
    <3> QED
      BY <3>1, <3>2, <3>3 DEF LinkIn
  <2>8. m \in Seq(LinkIn)
    <3>1. hi - lo + 1 \in Nat /\ m = [j \in 1 .. hi - lo + 1 |-> m[j]]
      BY <2>1, <2>2, <2>3, <2>5
    <3> QED
      BY <2>7, <3>1
  <2> QED
    BY <2>8 DEF m
<1>5. /\ P!FirstPage \in 1 .. P!LastPage /\ P!LastPage \in 1 .. P!LastPage
      /\ P!Adjacent(-1) \in 1 .. P!LastPage /\ P!Adjacent(1) \in 1 .. P!LastPage
  <2>1. P!Adjacent(-1) \in 1 .. P!LastPage
    BY <1>3, -1 \in Int DEF P!Adjacent
  <2>2. P!Adjacent(1) \in 1 .. P!LastPage
    BY <1>3, 1 \in Int DEF P!Adjacent
  <2> QED
    BY <1>2, <2>1, <2>2 DEF P!FirstPage
<1>6. P!NamedCentredRange \in Seq(LinkIn)
  <2> DEFINE a == P!Optional(P!FirstPage \notin P!Range(P!CentredRange), P!FirstPage, "first")
             b == P!Optional(P!Adjacent(-1) # page, P!Adjacent(-1), "previous")
             m == P!NamedPagesInRange
             c == P!Optional(P!Adjacent(1) # page, P!Adjacent(1), "next")
             d == P!Optional(P!LastPage \notin P!Range(P!CentredRange), P!LastPage, "last")
  <2>1. /\ "first" \in LinkNames /\ "previous" \in LinkNames
        /\ "next" \in LinkNames /\ "last" \in LinkNames
    BY DEF LinkNames
  <2>2. a \in Seq(LinkIn)
    BY <1>5, <2>1, OptionalIn, Zenon
  <2>3. b \in Seq(LinkIn)
    BY <1>5, <2>1, OptionalIn, Zenon
  <2>4. c \in Seq(LinkIn)
    BY <1>5, <2>1, OptionalIn, Zenon
  <2>5. d \in Seq(LinkIn)
    BY <1>5, <2>1, OptionalIn, Zenon
  <2>6. P!NamedCentredRange = (((a \o b) \o m) \o c) \o d
    BY DEF P!NamedCentredRange
  <2> HIDE DEF a, b, c, d
  <2> QED
    BY <1>4, <2>2, <2>3, <2>4, <2>5, <2>6
<1>7. \A k \in LinkIn : k.number \in 1 .. P!LastPage
  BY DEF LinkIn
<1> HIDE DEF LinkIn
<1> QED
  BY <1>1, <1>2, <1>6, <1>7

LEMMA PagesStep ==
    ASSUME P!PagesAssumption, P!TypeOK, [P!Next]_(P!vars)
    PROVE  /\ P!TypeOK'
           /\ <<limit, page>>' # <<limit, page>> =>
                 page' = 1 \/ (page' - 1) * limit' < shown
<1>1. CASE P!Arrive
  BY <1>1 DEF P!Arrive, P!TypeOK, P!PagesAssumption
<1>2. CASE P!Leave
  BY <1>2 DEF P!Leave, P!TypeOK, P!PagesAssumption
<1>3. CASE P!Follow
  <2>1. PICK i \in DOMAIN P!PaginationLinks : page' = P!PaginationLinks[i].number
    BY <1>3 DEF P!Follow
  <2>2. /\ shown > 0 /\ P!LastPage \in Nat /\ page' \in 1 .. P!LastPage
        /\ shown \in Nat /\ limit \in Nat \ {0} /\ (P!LastPage - 1) * limit < shown
    BY <2>1, LinksLeadIn, HowManyPages
  <2>3. limit' = limit /\ total' = total /\ shown' = total
    BY <1>3 DEF P!Follow
  <2>4. P!TypeOK'
    BY <2>2, <2>3 DEF P!TypeOK, P!ValidFilters
  <2>5. (page' - 1) * limit < shown
    BY <2>2, EarlierPage
  <2> QED
    BY <2>3, <2>4, <2>5
<1>4. CASE P!ChangeSize
  <2>1. limit' \in {SmallPageSize, LargePageSize}
    BY <1>4 DEF P!ChangeSize, P!DisplaySizeOptions
  <2> QED
    BY <1>4, <2>1 DEF P!ChangeSize, P!TypeOK, P!ValidFilters, P!PagesAssumption
<1>5. CASE UNCHANGED P!vars
  BY <1>5 DEF P!vars, P!TypeOK, P!ValidFilters
<1> QED
  BY <1>1, <1>2, <1>3, <1>4, <1>5 DEF P!Next

-----------------------------------------------------------------------------
(* The filter                                                              *)

\* A list and the link to its file search for no less than was asked for in the
\* tab: the states of the address are those that were asked for, or none are
\* selected, and the e-mail is that asked for or none.
Follows(a, wish) ==
    /\ a \in F!Address /\ wish \in F!Address /\ ~wish.joined
    /\ a.names \in {wish.names, {}}
    /\ a.email \in {wish.email, AnyEmail}

SearchInv == /\ F!TypeOK
       /\ \A t \in Tabs : Follows(address[t], asked[t])
       /\ Follows(session, askedLast)

LEMMA Statuses ==
    ASSUME NEW t \in F!AllTransactions
    PROVE  /\ t.type \in {"charge", "refund"}
           /\ t.type = "charge" => t.status \in DOMAIN F!PaymentStates
           /\ t.type = "refund" => /\ t.status \in DOMAIN F!RefundStates
                                   /\ F!DisplayName(t) = F!RefundStates[t.status]
<1>1. CASE t \in [type : {"refund"}, status : DOMAIN F!RefundStates, code : {F!NoCode},
                  email : Emails]
  <2>1. t.type = "refund" /\ t.status \in DOMAIN F!RefundStates /\ t.code = F!NoCode
    BY <1>1
  <2>2. F!NoCode \notin DOMAIN F!ErrorCodeStates
    BY DEF F!NoCode, F!ErrorCodeStates
  <2> QED
    BY <2>1, <2>2 DEF F!DisplayName
<1>2. ASSUME NEW status \in DOMAIN F!PaymentStates,
             t \in [type : {"charge"}, status : {status}, code : F!Codes(status),
                    email : Emails]
      PROVE  t.type = "charge" /\ t.status \in DOMAIN F!PaymentStates
  BY <1>2
<1> QED
  BY <1>1, <1>2 DEF F!AllTransactions

LEMMA SearchInit == F!Init => SearchInv
<1>1. F!Nothing \in F!Address /\ ~F!Nothing.joined
  BY DEF F!Nothing, F!Address
<1> QED
  BY <1>1 DEF F!Init, SearchInv, F!TypeOK, Follows

\* A list that is shown for less than what was asked for.
LEMMA ShowFollows ==
    ASSUME SearchInv, NEW t \in Tabs, NEW a, NEW wish, F!Show(t, a, wish),
           Follows(a, wish)
    PROVE  SearchInv'
BY DEF SearchInv, F!TypeOK, F!Show, Follows

LEMMA SearchStep == ASSUME SearchInv, [F!Next]_(F!vars) PROVE SearchInv'
<1>1. CASE UNCHANGED F!vars
  BY <1>1 DEF F!vars, SearchInv, F!TypeOK, Follows
<1>2. ASSUME NEW t \in Tabs, F!Filter(t)
      PROVE  SearchInv'
  <2>1. PICK names \in Choices \cap SUBSET F!AllDisplayStates,
             email \in Emails \cup {AnyEmail} :
          LET a == [names |-> names, joined |-> FALSE, email |-> email]
          IN  F!Show(t, a, a)
    BY <1>2 DEF F!Filter
  <2> DEFINE a == [names |-> names, joined |-> FALSE, email |-> email]
  <2>2. a \in F!Address /\ ~a.joined
    BY DEF F!Address
  <2>3. F!Show(t, a, a) /\ Follows(a, a)
    BY <2>1, <2>2 DEF Follows
  <2> QED
    BY <2>3, ShowFollows
<1>3. ASSUME NEW t \in Tabs, F!FollowPage(t)
      PROVE  SearchInv'
  <2>1. Follows(address[t], asked[t])
    BY DEF SearchInv
  <2>2. Follows(F!PageLink(address[t]), asked[t])
    BY <2>1 DEF Follows, F!PageLink, F!Address
  <2> QED
    BY <1>3, <2>2, ShowFollows DEF F!FollowPage
<1>4. ASSUME NEW t \in Tabs, F!ChangeSize(t)
      PROVE  SearchInv'
  <2>1. Follows(F!SizeLink(address[t]), asked[t])
    BY DEF SearchInv, Follows, F!SizeLink, F!Nothing, F!Address
  <2> QED
    BY <1>4, <2>1, ShowFollows DEF F!ChangeSize
<1>5. ASSUME NEW t \in Tabs, F!DetailAndBack(t)
      PROVE  SearchInv'
  BY <1>5, ShowFollows DEF F!DetailAndBack, SearchInv
<1> QED
  BY <1>1, <1>2, <1>3, <1>4, <1>5 DEF F!Next

LEMMA Hidden == ASSUME SearchInv PROVE F!NothingHidden
<1> SUFFICES ASSUME NEW tab \in Tabs, NEW t \in F!AllTransactions,
                    F!HasOwnName(t), F!IsAskedFor(t, asked[tab])
             PROVE  t \in F!Found(F!GetFilters(address[tab]))
  BY DEF F!NothingHidden, F!Listed, F!DownloadLink
<1> DEFINE names == F!SelectedStates(address[tab])
<1>1. Follows(address[tab], asked[tab])
  BY DEF SearchInv
<1>2. names = {} \/ F!DisplayName(t) \in names
  BY <1>1 DEF Follows, F!SelectedStates, F!IsAskedFor
<1>3. address[tab].email \in {AnyEmail, t.email}
  BY <1>1 DEF Follows, F!IsAskedFor
<1>4. names = {} => F!ConnectorStates(names).payment = {} /\ F!ConnectorStates(names).refund = {}
  BY DEF F!ConnectorStates
<1>5. F!DisplayName(t) \in names =>
        \/ t.type = "charge" /\ t.status \in F!ConnectorStates(names).payment
        \/ t.type = "refund" /\ t.status \in F!ConnectorStates(names).refund
  BY Statuses DEF F!ConnectorStates, F!HasOwnName
<1> HIDE DEF names
<1> QED
  BY <1>2, <1>3, <1>4, <1>5 DEF F!Found, F!GetFilters, names

-----------------------------------------------------------------------------
(* All of them                                                             *)

\* The types, and in each scene the invariant of the module it plays; the
\* variables of the others stay as they were in the beginning.
TransactionsInv == /\ scene \in Scenes
                   /\ ListsInv /\ ExportInv /\ P!TypeOK /\ SearchInv

LEMMA TransactionsInit ==
    ASSUME Init
    PROVE  TransactionsInv
<1>1. scene \in Scenes
  BY DEF Init
<1>2. ListsInv
  BY ConstantsAssumption, ListsInit DEF Init
<1>3. ExportInv
  BY ConstantsAssumption, ExportInit DEF Init
<1>4. P!TypeOK
  <2>1. CASE scene = "pages"
    BY <2>1, ConstantsAssumption, PagesInit DEF Init
  <2>2. CASE scene # "pages"
    BY <2>2, ConstantsAssumption
       DEF Init, P!TypeOK, P!ValidFilters, P!PagesAssumption
  <2> QED
    BY <2>1, <2>2
<1>5. SearchInv
  BY SearchInit DEF Init
<1> QED
  BY <1>1, <1>2, <1>3, <1>4, <1>5 DEF TransactionsInv

\* What a step of the scenes is for the modules.
LEMMA TransactionsSteps ==
    ASSUME [Next]_vars
    PROVE  /\ [L!Next]_(L!vars) /\ [E!Next]_(E!vars)
           /\ [P!Next]_(P!vars) /\ [F!Next]_(F!vars)
           /\ scene' = scene
<1> USE DEF listsVars, exportVars, pagesVars, searchVars,
            L!vars, E!vars, P!vars, F!vars
<1>1. CASE ListsOnly /\ L!Next
  BY <1>1 DEF ListsOnly
<1>2. CASE ExportOnly /\ E!Next
  BY <1>2 DEF ExportOnly
<1>3. CASE PagesOnly /\ P!Next
  BY <1>3 DEF PagesOnly
<1>4. CASE SearchOnly /\ F!Next
  BY <1>4 DEF SearchOnly
<1>5. CASE UNCHANGED vars
  BY <1>5 DEF vars
<1> QED
  BY <1>1, <1>2, <1>3, <1>4, <1>5 DEF Next

LEMMA TransactionsStep ==
    ASSUME TransactionsInv, [Next]_vars
    PROVE  TransactionsInv'
<1>1. /\ scene' \in Scenes
      /\ [L!Next]_(L!vars) /\ [E!Next]_(E!vars)
      /\ [P!Next]_(P!vars) /\ [F!Next]_(F!vars)
  BY TransactionsSteps DEF TransactionsInv
<1>2. ListsInv'
  BY <1>1, ConstantsAssumption, ListsStep DEF TransactionsInv
<1>3. ExportInv'
  BY <1>1, ConstantsAssumption, ExportStep DEF TransactionsInv
<1>4. P!TypeOK'
  BY <1>1, ConstantsAssumption, PagesStep DEF TransactionsInv
<1>5. SearchInv'
  BY <1>1, SearchStep DEF TransactionsInv
<1> QED
  BY <1>1, <1>2, <1>3, <1>4, <1>5 DEF TransactionsInv

\* Whichever scene is played, the inductive invariants of the four hold.
THEOREM TransactionsInvariant == Spec => []TransactionsInv
<1>1. Init => TransactionsInv
  BY TransactionsInit
<1>2. TransactionsInv /\ [Next]_vars => TransactionsInv'
  BY TransactionsStep
<1> QED
  BY <1>1, <1>2, PTL DEF Spec

\* The variables of the four modules keep their types.
THEOREM TransactionsTypeOK == Spec => []TypeOK
<1>1. TransactionsInv => TypeOK
  BY ExportKept DEF TransactionsInv, TypeOK, ListsInv, SearchInv
<1> QED
  BY <1>1, TransactionsInvariant, PTL

\* Whatever searches and card types fail, in whatever order, a request that
\* waits has a call of its own under way (transaction_list_controller.js:70).
THEOREM WaitingHasItsCall == Spec => []WaitingHasACall
<1>1. TransactionsInv => WaitingHasACall
  BY DEF TransactionsInv, ListsInv, CallOK, WaitingHasACall, L!WaitingHasACall,
         L!Waits
<1> QED
  BY <1>1, TransactionsInvariant, PTL

\* The file has all that matched from its first page to its last, whatever
\* arrives in between, for any size of the pages (connector_client.js:177).
THEOREM FileIsComplete == Spec => []NothingLeftOut
<1>1. TransactionsInv => NothingLeftOut
  BY ExportKept DEF TransactionsInv, NothingLeftOut
<1> QED
  BY <1>1, TransactionsInvariant, PTL

\* It has the newer of two of them first (connector_client.js:180).
THEOREM FileIsInOrder == Spec => []InOrder
<1>1. TransactionsInv => InOrder
  BY ExportKept DEF TransactionsInv, InOrder
<1> QED
  BY <1>1, TransactionsInvariant, PTL

\* No link leads past the last page, whatever the sizes (paginator.js:90).
THEOREM LinksLeadSomewhere == Spec => LinksLeadToTransactions
<1>1. TransactionsInv /\ [Next]_vars =>
         [<<limit, page>>' # <<limit, page>> =>
             page' = 1 \/ (page' - 1) * limit' < shown]_(P!vars)
  <2> SUFFICES ASSUME TransactionsInv, [Next]_vars
               PROVE  <<limit, page>>' # <<limit, page>> =>
                         page' = 1 \/ (page' - 1) * limit' < shown
    OBVIOUS
  <2> QED
    BY TransactionsSteps, ConstantsAssumption, PagesStep DEF TransactionsInv
<1> QED
  BY <1>1, TransactionsInvariant, PTL
     DEF Spec, LinksLeadToTransactions, P!LinksLeadToTransactions

\* The links of a page lead to its neighbours and to both ends, each once
\* (paginator.js:126).
THEOREM PageLinksAreRight == Spec => []LinksAreRight
<1>1. TransactionsInv => LinksAreRight
  BY ConstantsAssumption, LinksRight DEF TransactionsInv, LinksAreRight
<1> QED
  BY <1>1, TransactionsInvariant, PTL

\* A list and its file have all that was asked for, whatever way they were
\* come to, of what is shown with a name of its own status (states.js:110).
THEOREM NothingIsHidden == Spec => []NothingHidden
<1>1. TransactionsInv => NothingHidden
  BY Hidden DEF TransactionsInv, NothingHidden
<1> QED
  BY <1>1, TransactionsInvariant, PTL

=============================================================================
