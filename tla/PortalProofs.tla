---------------------------- MODULE PortalProofs ----------------------------
(***************************************************************************)
(* What is proved about the modules of the pages holds of the portal they  *)
(* make together: a step of one module is none of another's, and so the    *)
(* inductive invariant of each is one of all.  The invariants of Dashboard *)
(* and Team are proved here, the others in modules of their own.           *)
(***************************************************************************)
EXTENDS Portal, TLAPS

-----------------------------------------------------------------------------
(* Dashboard: days of any length, whatever is made and whenever it succeeds. *)

InPeriod(x, p) == D!FromDateTime(p) <= x.at /\ x.at < D!ToDateTime(p)

\* What was counted is there to stay, and no transaction is made in the past:
\* of those in the period the others had not succeeded when it was counted.
CountHolds ==
    page.shows = "activity" =>
        /\ \A x \in page.counted : x \in made /\ x.succeeded /\ InPeriod(x, page)
        /\ \A x \in made : InPeriod(x, page) =>
              x \in page.counted \/ D!Unfinished(x) \in page.open

DashboardInv == /\ D!TypeOK
                /\ page.asked <= now
                /\ CountHolds
                /\ D!LinkListsWhatIsCounted

-----------------------------------------------------------------------------
LEMMA EndOfPeriod ==
    ASSUME D!DashboardAssumption, NEW p \in D!Page
    PROVE  D!ToDateTime(p) \in Int /\ D!ToDateTime(p) <= p.asked
<1>1. p.asked \in Int /\ Day \in Nat \ {0}
  BY DEF D!DashboardAssumption, D!Page
<1>2. p.asked % Day \in 0 .. Day - 1
  BY <1>1
<1>3. D!Midnight(p.asked) \in Int /\ D!Midnight(p.asked) <= p.asked
  BY <1>1, <1>2 DEF D!Midnight
<1> QED
  BY <1>1, <1>3 DEF D!ToDateTime

\* Only whether it has succeeded tells a transaction from what it was.
LEMMA UnfinishedShape ==
    ASSUME NEW x \in D!Transaction
    PROVE  /\ ~x.succeeded => D!Unfinished(x) = x
           /\ LET y == [x EXCEPT !.succeeded = TRUE]
              IN  /\ y \in D!Transaction /\ y.succeeded /\ y.at = x.at
                  /\ D!Unfinished(y) = D!Unfinished(x)
<1>1. x.succeeded \in BOOLEAN
  BY DEF D!Transaction
<1> QED
  BY <1>1 DEF D!Transaction, D!Unfinished

LEMMA InitDashboard == ASSUME D!DashboardAssumption, D!Init PROVE DashboardInv
<1>1. Start \in Nat /\ End \in Nat /\ Start <= End
  BY DEF D!DashboardAssumption
<1>2. D!Nothing \in D!Page /\ D!Nothing.asked = 0 /\ D!Nothing.shows = "nothing"
  BY DEF D!Nothing, D!Page, D!Periods, D!DaysAgo, D!Links
<1> QED
  BY <1>1, <1>2
     DEF D!Init, DashboardInv, D!TypeOK, CountHolds, D!LinkListsWhatIsCounted

LEMMA ActivityInv ==
    ASSUME D!DashboardAssumption, DashboardInv, D!DashboardActivity
    PROVE  DashboardInv'
<1>1. PICK period \in D!Periods :
        page' = [D!Nothing EXCEPT !.shows = IF account = "card" THEN "waiting"
                                          ELSE "noActivity",
                                !.period = period, !.asked = now]
  BY DEF D!DashboardActivity
<1>2. now \in Int
  BY DEF DashboardInv, D!TypeOK, D!DashboardAssumption
<1>3. /\ page' \in D!Page /\ page'.asked = now
      /\ page'.shows \in {"waiting", "noActivity"}
  BY <1>1, <1>2 DEF D!Nothing, D!Page, D!Links
<1> QED
  BY <1>2, <1>3
     DEF D!DashboardActivity, D!Unmoved, DashboardInv, D!TypeOK, CountHolds,
         D!LinkListsWhatIsCounted

LEMMA FoundInv ==
    ASSUME D!DashboardAssumption, DashboardInv, D!SummaryFound
    PROVE  DashboardInv'
<1> DEFINE c == {x \in made : InPeriod(x, page) /\ x.succeeded}
           o == {x \in made : InPeriod(x, page) /\ ~x.succeeded}
<1>1. /\ c \subseteq D!Transaction /\ o \subseteq D!Transaction
      /\ page \in D!Page /\ made \subseteq D!Transaction
  BY DEF DashboardInv, D!TypeOK
<1>2. page' = [page EXCEPT !.shows = "activity", !.counted = c, !.open = o]
  <2> DEFINE i == {x \in made : InPeriod(x, page)}
  <2>1. page' = [page EXCEPT !.shows = "activity",
                    !.counted = {x \in i : x.succeeded},
                    !.open = {x \in i : ~x.succeeded}]
    BY DEF D!SummaryFound, InPeriod
  <2>2. c = {x \in i : x.succeeded} /\ o = {x \in i : ~x.succeeded}
    OBVIOUS
  <2> HIDE DEF i, c, o
  <2> QED
    BY <2>1, <2>2
<1>3. /\ \A x \in c : x \in made /\ x.succeeded /\ InPeriod(x, page)
      /\ \A x \in made : InPeriod(x, page) => x \in c \/ D!Unfinished(x) \in o
  <2> SUFFICES ASSUME NEW x \in made, InPeriod(x, page), ~x.succeeded
               PROVE  D!Unfinished(x) \in o
    OBVIOUS
  <2>1. D!Unfinished(x) = x
    BY <1>1, UnfinishedShape
  <2> QED
    BY <2>1
<1> HIDE DEF c, o
<1>4. /\ page' \in D!Page /\ page'.shows = "activity"
      /\ page'.counted = c /\ page'.open = o
      /\ page'.asked = page.asked /\ page'.period = page.period
  BY <1>1, <1>2 DEF D!Page
<1>5. UNCHANGED <<account, statuses, now, made>>
  BY DEF D!SummaryFound, D!Unmoved
<1>6. \A x : InPeriod(x, page)' = InPeriod(x, page)
  BY <1>4 DEF InPeriod, D!FromDateTime, D!ToDateTime
<1>7. CountHolds'
  BY <1>3, <1>4, <1>5, <1>6 DEF CountHolds
<1> QED
  BY <1>4, <1>5, <1>7 DEF DashboardInv, D!TypeOK, D!LinkListsWhatIsCounted

LEMMA FailsInv ==
    ASSUME D!DashboardAssumption, DashboardInv, D!SummaryFails
    PROVE  DashboardInv'
<1>1. /\ page' = [page EXCEPT !.shows = "noActivity"]
      /\ UNCHANGED <<account, statuses, now, made>>
  BY DEF D!SummaryFails, D!Unmoved
<1>2. page' \in D!Page /\ page'.shows = "noActivity" /\ page'.asked = page.asked
  BY <1>1 DEF DashboardInv, D!TypeOK, D!Page
<1> QED
  BY <1>1, <1>2 DEF DashboardInv, D!TypeOK, CountHolds, D!LinkListsWhatIsCounted

\* Up to the second the period ends, which is listed too.
LEMMA LinkInv ==
    ASSUME D!DashboardAssumption, DashboardInv, D!FollowLink
    PROVE  DashboardInv'
<1>1. PICK link \in D!Links :
        page' = [page EXCEPT !.shows = "list", !.link = link,
                   !.listed = {x \in made :
                       /\ D!FromDateTime(page) <= x.at /\ x.at < D!ListTo(page)
                       /\ \/ D!Searched(link) = {}
                          \/ x.succeeded /\ x.kind \in D!Searched(link)}]
  BY DEF D!FollowLink
<1> DEFINE l == {x \in made :
                    /\ D!FromDateTime(page) <= x.at /\ x.at < D!ListTo(page)
                    /\ \/ D!Searched(link) = {}
                       \/ x.succeeded /\ x.kind \in D!Searched(link)}
           d == {x \in page.counted : x.kind \in link}
<1>2. /\ made \subseteq D!Transaction /\ page \in D!Page
      /\ page.shows = "activity" /\ CountHolds
      /\ UNCHANGED <<account, statuses, now, made>>
  BY DEF D!FollowLink, D!Unmoved, DashboardInv, D!TypeOK
<1>3. /\ D!ToDateTime(page) \in Int /\ D!ListTo(page) = D!ToDateTime(page) + 1
      /\ \A x \in made : x.at \in Int
  BY <1>2, EndOfPeriod DEF D!ListTo, D!Transaction, D!DashboardAssumption
<1>4. d \subseteq l
  BY <1>2, <1>3 DEF CountHolds, InPeriod, D!Searched
<1>5. ASSUME statuses = "old", NEW x \in l, x \notin d
      PROVE  x.at = D!ToDateTime(page) \/ D!Unfinished(x) \in page.open
  <2>1. D!Searched(link) = link /\ link # {}
    BY <1>5 DEF D!Searched, D!Links
  <2>2. x \in made /\ x.kind \in link
    BY <2>1
  <2>3. D!FromDateTime(page) <= x.at /\ x.at < D!ToDateTime(page) + 1
    BY <1>3
  <2>4. CASE InPeriod(x, page)
    BY <1>2, <1>5, <2>2, <2>4 DEF CountHolds
  <2>5. CASE ~InPeriod(x, page)
    BY <1>3, <2>2, <2>3, <2>5 DEF InPeriod
  <2> QED
    BY <2>4, <2>5
<1>6. page' = [page EXCEPT !.shows = "list", !.link = link, !.listed = l]
  BY <1>1
<1>7. l \subseteq D!Transaction
  BY <1>2
<1> HIDE DEF l
<1>8. /\ page' \in D!Page /\ page'.shows = "list" /\ page'.listed = l
      /\ page'.asked = page.asked /\ page'.period = page.period
      /\ page'.counted = page.counted /\ page'.open = page.open
      /\ page'.link = link
  BY <1>2, <1>6, <1>7 DEF D!Page
<1>9. D!ToDateTime(page)' = D!ToDateTime(page) /\ D!Due' = d
  BY <1>8 DEF D!ToDateTime, D!Due
<1> HIDE DEF d
<1>10. D!LinkListsWhatIsCounted'
  BY <1>2, <1>4, <1>5, <1>8, <1>9 DEF D!LinkListsWhatIsCounted
<1> QED
  BY <1>2, <1>8, <1>10 DEF DashboardInv, D!TypeOK, CountHolds

\* A transaction is made now, which is after the end of every period asked for.
LEMMA MakeInv ==
    ASSUME D!DashboardAssumption, DashboardInv, D!Make
    PROVE  DashboardInv'
<1>1. PICK kind \in {"payment", "refund"} :
        made' = made \cup {[kind |-> kind, at |-> now, succeeded |-> FALSE]}
  BY DEF D!Make
<1>2. UNCHANGED <<account, statuses, now, page>>
  BY DEF D!Make
<1>3. now \in 0 .. End /\ now \in Int /\ page \in D!Page /\ page.asked \in Int
  BY DEF DashboardInv, D!TypeOK, D!DashboardAssumption, D!Page
<1>4. D!ToDateTime(page) \in Int /\ D!ToDateTime(page) <= now
  BY <1>3, EndOfPeriod DEF DashboardInv
<1>5. D!TypeOK'
  <2>1. [kind |-> kind, at |-> now, succeeded |-> FALSE] \in D!Transaction
    BY <1>3 DEF D!Transaction
  <2>2. made' \subseteq D!Transaction
    BY <1>1, <2>1 DEF DashboardInv, D!TypeOK
  <2> QED
    BY <1>2, <2>2 DEF DashboardInv, D!TypeOK
<1>6. \A x \in made' \ made : ~InPeriod(x, page)
  BY <1>1, <1>3, <1>4 DEF InPeriod
<1>7. CountHolds'
  BY <1>1, <1>2, <1>6
     DEF DashboardInv, CountHolds, InPeriod, D!FromDateTime, D!ToDateTime
<1> QED
  BY <1>2, <1>5, <1>7
     DEF DashboardInv, D!LinkListsWhatIsCounted, D!ToDateTime, D!Due

\* One that succeeds had not when the period was counted.
LEMMA SucceedInv ==
    ASSUME D!DashboardAssumption, DashboardInv, D!Succeed
    PROVE  DashboardInv'
<1>1. PICK x \in made :
        /\ ~x.succeeded
        /\ made' = (made \ {x}) \cup {[x EXCEPT !.succeeded = TRUE]}
  BY DEF D!Succeed
<1> DEFINE y == [x EXCEPT !.succeeded = TRUE]
<1>2. /\ y \in D!Transaction /\ y.at = x.at
      /\ D!Unfinished(y) = D!Unfinished(x)
  BY UnfinishedShape DEF DashboardInv, D!TypeOK
<1>3. made' = (made \ {x}) \cup {y}
  BY <1>1
<1> HIDE DEF y
<1>4. UNCHANGED <<account, statuses, now, page>>
  BY DEF D!Succeed
<1>5. D!TypeOK'
  BY <1>2, <1>3, <1>4 DEF DashboardInv, D!TypeOK
<1>6. InPeriod(y, page) => InPeriod(x, page)
  BY <1>2 DEF InPeriod
<1>7. CountHolds'
  BY <1>1, <1>2, <1>3, <1>4, <1>6
     DEF DashboardInv, CountHolds, InPeriod, D!FromDateTime, D!ToDateTime
<1> QED
  BY <1>4, <1>5, <1>7
     DEF DashboardInv, D!LinkListsWhatIsCounted, D!ToDateTime, D!Due

LEMMA TickInv ==
    ASSUME D!DashboardAssumption, DashboardInv, D!Tick
    PROVE  DashboardInv'
<1>1. now < End /\ now' = now + 1 /\ UNCHANGED <<account, statuses, made, page>>
  BY DEF D!Tick
<1>2. page.asked \in Int /\ Start \in Nat /\ End \in Nat /\ now \in Start .. End
  BY DEF DashboardInv, D!TypeOK, D!Page, D!DashboardAssumption
<1>3. now' \in Start .. End /\ page.asked <= now'
  BY <1>1, <1>2 DEF DashboardInv
<1> QED
  BY <1>1, <1>3
     DEF DashboardInv, D!TypeOK, CountHolds, InPeriod, D!LinkListsWhatIsCounted,
         D!FromDateTime, D!ToDateTime, D!Due

LEMMA StepDashboard ==
    ASSUME D!DashboardAssumption, DashboardInv, [D!Next]_(D!vars)
    PROVE  DashboardInv'
<1>1. CASE UNCHANGED D!vars
  BY <1>1
     DEF D!vars, DashboardInv, D!TypeOK, CountHolds, InPeriod,
         D!LinkListsWhatIsCounted, D!FromDateTime, D!ToDateTime, D!Due
<1> QED
  BY <1>1, ActivityInv, FoundInv, FailsInv, LinkInv, MakeInv, SucceedInv, TickInv
  DEF D!Next, D!Connector

-----------------------------------------------------------------------------
(* Team: every set of users, founders and outsiders.                        *)

\* A request to change a user is about another, from when it is accepted to
\* when the change is made; only such requests get as far as a change.
Others ==
    \A u \in Tabs :
        /\ teamTab[u].op \in {"update", "delete"} => teamTab[u].target # u
        /\ teamTab[u].op = "invite" => teamTab[u].target \in Outsiders
        /\ teamTab[u].call = "change" => teamTab[u].op \in {"update", "delete", "invite"}

\* Who is in the team has no open invitation that could give them another role.
Joined == \A u \in Outsiders : T!Member(u) => invited[u] = "none"

TeamInv == T!TypeOK /\ Others /\ Joined /\ T!AdminRemains

-----------------------------------------------------------------------------
LEMMA InitTeam == ASSUME T!TeamAssumption, T!Init PROVE TeamInv
<1>1. T!TypeOK
  BY DEF T!TeamAssumption, T!Init, T!TypeOK, T!Told, T!Tab, T!Roles, T!Operations, T!Calls
<1>2. Others /\ Joined
  BY DEF T!TeamAssumption, T!Init, Others, Joined, T!Told
<1>3. T!AdminRemains
  BY DEF T!TeamAssumption, T!Init, T!AdminRemains
<1> QED
  BY <1>1, <1>2, <1>3 DEF TeamInv

\* A request ends: whatever is told, nothing of it is left.
LEMMA TellKeeps ==
    ASSUME T!TeamAssumption, T!TypeOK, Others,
           NEW u \in Tabs,
           NEW what \in {"page", "done", "already", "error"}, T!Tell(u, what)
    PROVE  teamTab' \in [Tabs -> T!Tab] /\ Others'
<1>1. T!Told(u, what) \in T!Tab
  BY DEF T!Told, T!Tab, T!Operations, T!Calls, T!Roles, T!TeamAssumption
<1>2. teamTab' \in [Tabs -> T!Tab]
  BY <1>1 DEF T!Tell, T!TypeOK
<1>3. Others'
  BY DEF T!Tell, T!Told, Others, T!TypeOK
<1> QED
  BY <1>2, <1>3

\* Requests are refused or accepted, and change nothing yet.
LEMMA AskInv ==
    ASSUME T!TeamAssumption, TeamInv,
           NEW u \in Tabs, NEW op \in T!Operations, NEW target \in Users,
           NEW given \in T!Roles, op = "invite" => target \in Outsiders,
           T!Ask(u, op, target, given)
    PROVE  TeamInv'
<1>1. UNCHANGED <<teamRole, invited, crossed>>
  BY DEF T!Ask
<1>2. teamTab' \in [Tabs -> T!Tab] /\ Others'
  <2>1. CASE ~T!MayAsk(u, op) \/ T!RefusedSelf(u, op, target)
    BY <2>1, TellKeeps DEF T!Ask, TeamInv
  <2>2. CASE T!MayAsk(u, op) /\ ~T!RefusedSelf(u, op, target)
    <3> DEFINE r == [op |-> op, call |-> T!FirstCall(op), target |-> target,
                     given |-> given, told |-> "page"]
    <3>1. teamTab' = [teamTab EXCEPT ![u] = r]
      BY <2>2 DEF T!Ask
    <3>2. r.op = op /\ r.target = target /\ r.call = T!FirstCall(op)
      OBVIOUS
    <3>3. /\ T!FirstCall(op) \in {"team", "change", "find"}
          /\ T!FirstCall(op) = "change" => op = "invite"
      BY DEF T!FirstCall
    <3>4. r \in T!Tab
      BY <3>3 DEF T!Tab, T!Calls
    <3>5. op \in {"update", "delete"} => target # u
      BY <2>2 DEF T!RefusedSelf
    <3> HIDE DEF r
    <3>6. teamTab' \in [Tabs -> T!Tab]
      BY <3>1, <3>4 DEF TeamInv, T!TypeOK
    <3>7. teamTab'[u] = r /\ \A v \in Tabs \ {u} : teamTab'[v] = teamTab[v]
      BY <3>1 DEF TeamInv, T!TypeOK
    <3>8. Others'
      BY <3>2, <3>3, <3>5, <3>7 DEF TeamInv, Others
    <3> QED
      BY <3>6, <3>8
  <2> QED
    BY <2>1, <2>2
<1>3. T!TypeOK' /\ Joined' /\ T!AdminRemains'
  BY <1>1, <1>2 DEF TeamInv, T!TypeOK, Joined, T!Member, T!AdminRemains
<1> QED
  BY <1>2, <1>3 DEF TeamInv

\* A change made for an administrator leaves that administrator in place.
LEMMA ChangeKeeps ==
    ASSUME T!TeamAssumption, TeamInv, NEW u \in Tabs,
           teamTab[u].call = "change", T!Accepted(u), T!Change(u)
    PROVE  /\ teamRole' \in [Users -> T!Roles \cup {"none"}]
           /\ invited' \in [Outsiders -> T!Roles \cup {"none"}]
           /\ crossed' \in BOOLEAN
           /\ Joined' /\ T!AdminRemains'
<1> DEFINE r == teamTab[u]
<1>1. /\ r.target \in Users /\ r.given \in T!Roles
      /\ r.op \in {"update", "delete", "invite"}
      /\ r.op \in {"update", "delete"} => r.target # u
      /\ r.op = "invite" => r.target \in Outsiders
  BY DEF TeamInv, T!TypeOK, T!Tab, Others
<1>2. /\ teamRole \in [Users -> T!Roles \cup {"none"}]
      /\ invited \in [Outsiders -> T!Roles \cup {"none"}]
      /\ crossed \in BOOLEAN /\ u \in Users
  BY DEF TeamInv, T!TypeOK, T!TeamAssumption
<1>3. crossed' = (crossed \/ teamRole[u] # "admin")
  BY DEF T!Change
<1>4. CASE r.op = "invite"
  <2>1. teamRole' = teamRole /\ invited' = [invited EXCEPT ![r.target] = r.given]
    BY <1>4 DEF T!Change
  <2>2. ~T!Member(r.target)
    BY <1>4 DEF T!Accepted
  <2>3. Joined'
    BY <1>1, <1>2, <2>1, <2>2 DEF TeamInv, Joined, T!Member
  <2>4. T!AdminRemains'
    BY <1>3, <2>1 DEF TeamInv, T!AdminRemains
  <2> QED
    BY <1>1, <1>2, <1>3, <2>1, <2>3, <2>4
<1>5. CASE r.op \in {"update", "delete"}
  <2>1. PICK new \in T!Roles \cup {"none"} : teamRole' = [teamRole EXCEPT ![r.target] = new]
    BY <1>1, <1>5 DEF T!Change
  <2>2. invited' = invited
    BY <1>5 DEF T!Change
  <2>3. T!Member(r.target)
    BY <1>5 DEF T!Accepted
  <2>4. Joined'
    BY <1>1, <1>2, <2>1, <2>2, <2>3 DEF TeamInv, Joined, T!Member
  <2>5. teamRole'[u] = teamRole[u]
    BY <1>1, <1>2, <1>5, <2>1
  <2>6. T!AdminRemains'
    BY <1>2, <1>3, <2>5 DEF T!AdminRemains
  <2> QED
    BY <1>1, <1>2, <1>3, <2>1, <2>2, <2>4, <2>6
<1> QED
  BY <1>1, <1>4, <1>5

LEMMA TeamCallInv ==
    ASSUME T!TeamAssumption, TeamInv, NEW u \in Tabs, T!Call(u)
    PROVE  TeamInv'
<1> USE DEF TeamInv
<1>1. ASSUME NEW what \in {"page", "done", "already", "error"}, T!Tell(u, what),
             UNCHANGED <<teamRole, invited, crossed>>
      PROVE  TeamInv'
  <2>1. teamTab' \in [Tabs -> T!Tab] /\ Others'
    BY <1>1, TellKeeps
  <2> QED
    BY <1>1, <2>1 DEF T!TypeOK, Joined, T!Member, T!AdminRemains
<1>2. ASSUME NEW what \in {"page", "done", "already", "error"}, T!Tell(u, what),
             teamTab[u].call = "change", T!Accepted(u), T!Change(u)
      PROVE  TeamInv'
  <2>1. teamTab' \in [Tabs -> T!Tab] /\ Others'
    BY <1>2, TellKeeps
  <2> QED
    BY <1>2, <2>1, ChangeKeeps DEF T!TypeOK
<1>3. T!FailureOf(teamTab[u].op) \in {"already", "error"}
  BY DEF T!FailureOf
<1>4. CASE T!TeamFound(u)
  BY <1>1, <1>4 DEF T!TeamFound
<1>5. CASE T!Found(u)
  <2>1. CASE teamTab[u].op = "delete" \/ (teamTab[u].op = "update" /\ T!Member(teamTab[u].target))
    <3>1. /\ teamTab' = [teamTab EXCEPT ![u].call = "change"]
          /\ UNCHANGED <<teamRole, invited, crossed>>
      BY <1>5, <2>1 DEF T!Found
    <3>2. teamTab' \in [Tabs -> T!Tab]
      BY <3>1 DEF T!TypeOK, T!Tab, T!Calls
    <3>3. /\ teamTab'[u].op = teamTab[u].op /\ teamTab'[u].target = teamTab[u].target
          /\ \A v \in Tabs \ {u} : teamTab'[v] = teamTab[v]
      BY <3>1 DEF T!TypeOK, T!Tab
    <3>4. Others'
      BY <2>1, <3>3 DEF Others
    <3> QED
      BY <3>1, <3>2, <3>4 DEF T!TypeOK, Joined, T!Member, T!AdminRemains
  <2>2. CASE ~(teamTab[u].op = "delete" \/ (teamTab[u].op = "update" /\ T!Member(teamTab[u].target)))
    BY <1>1, <1>5, <2>2 DEF T!Found
  <2> QED
    BY <2>1, <2>2
<1>6. CASE T!Changed(u)
  BY <1>2, <1>6 DEF T!Changed
<1>7. CASE T!Refused(u)
  <2>1. CASE teamTab[u].op = "invite"
    BY <1>1, <1>7, <2>1 DEF T!Refused
  <2>2. CASE teamTab[u].op # "invite"
    BY <1>1, <1>3, <1>7, <2>2 DEF T!Refused
  <2> QED
    BY <2>1, <2>2
<1>8. CASE T!Fails(u)
  BY <1>1, <1>2, <1>3, <1>8 DEF T!Fails
<1> QED
  BY <1>4, <1>5, <1>6, <1>7, <1>8 DEF T!Call

\* Who accepts an invitation was no member, and no administrator, before.
LEMMA CompleteInviteInv ==
    ASSUME T!TeamAssumption, TeamInv, NEW u \in Outsiders, T!CompleteInvite(u)
    PROVE  TeamInv'
<1>1. u \in Users /\ teamRole[u] = "none"
  BY DEF T!TeamAssumption, TeamInv, T!TypeOK, Joined, T!Member, T!CompleteInvite
<1>2. T!TypeOK' /\ Others' /\ Joined'
  BY DEF T!TeamAssumption, TeamInv, T!TypeOK, Others, Joined, T!Member, T!CompleteInvite
<1>3. \A v \in Users : teamRole[v] = "admin" => teamRole'[v] = "admin"
  BY <1>1 DEF TeamInv, T!TypeOK, T!CompleteInvite
<1>4. T!AdminRemains'
  BY <1>3 DEF TeamInv, T!AdminRemains, T!CompleteInvite
<1> QED
  BY <1>2, <1>4 DEF TeamInv

LEMMA StepTeam == ASSUME T!TeamAssumption, TeamInv, [T!Next]_(T!vars) PROVE TeamInv'
<1>1. CASE UNCHANGED T!vars
  BY <1>1 DEF T!vars, TeamInv, T!TypeOK, Others, Joined, T!Member, T!AdminRemains
<1>2. ASSUME NEW u \in Tabs,
             T!Index(u) \/ T!Show(u) \/ T!Permissions(u) \/ T!Update(u) \/ T!Delete(u) \/ T!Invite(u)
      PROVE  TeamInv'
  <2>1. u \in Users /\ Outsiders \subseteq Users /\ "admin" \in T!Roles
        /\ T!Operations = {"index", "show", "permissions", "update", "delete", "invite"}
    BY DEF T!TeamAssumption, T!Roles, T!Operations
  <2>2. CASE T!Index(u)
    BY <2>1, <2>2, AskInv DEF T!Index
  <2>3. CASE T!Show(u)
    BY <2>1, <2>3, AskInv DEF T!Show
  <2>4. CASE T!Permissions(u)
    BY <2>1, <2>4, AskInv DEF T!Permissions
  <2>5. CASE T!Update(u)
    BY <2>1, <2>5, AskInv DEF T!Update
  <2>6. CASE T!Delete(u)
    BY <2>1, <2>6, AskInv DEF T!Delete
  <2>7. CASE T!Invite(u)
    BY <2>1, <2>7, AskInv DEF T!Invite
  <2> QED
    BY <1>2, <2>2, <2>3, <2>4, <2>5, <2>6, <2>7
<1> QED
  BY <1>1, <1>2, TeamCallInv, CompleteInviteInv DEF T!Next

-----------------------------------------------------------------------------
(* The portal                                                               *)

ScenesInv == /\ R!Inv /\ L!Inv /\ K!Inv /\ S!Inv
             /\ DashboardInv /\ TeamInv
             /\ scene \in Scenes

LEMMA InitInv == Init => ScenesInv
<1> SUFFICES ASSUME Init PROVE ScenesInv
  OBVIOUS
<1>1. /\ R!RefundsAssumption /\ L!LinksAssumption /\ K!KeysAssumption
      /\ D!DashboardAssumption /\ T!TeamAssumption
  BY ConstantsAssumption
<1>2. R!Inv /\ L!Inv /\ K!Inv /\ S!Inv
  BY <1>1, R!InitInv, L!InitInv, K!InitInv, S!InitInv DEF Init
<1>3. DashboardInv /\ TeamInv
  BY <1>1, InitDashboard, InitTeam DEF Init
<1> QED
  BY <1>2, <1>3 DEF Init, ScenesInv

\* Every step is a step, or none, of each module.
LEMMA Steps ==
    ASSUME [Next]_vars
    PROVE  /\ [R!Next]_(R!vars) /\ [L!Next]_(L!vars) /\ [K!Next]_(K!vars)
           /\ [S!Next]_(S!vars) /\ [D!Next]_(D!vars) /\ [T!Next]_(T!vars)
           /\ scene' = scene
<1> USE DEF vars, refundsVars, linksVars, keysVars, settingsVars, dashboardVars,
            teamVars, RefundsOnly, LinksOnly, KeysOnly, SettingsOnly,
            DashboardOnly, TeamOnly
<1>1. [R!Next]_(R!vars)
  BY DEF Next, R!vars
<1>2. [L!Next]_(L!vars)
  BY DEF Next, L!vars
<1>3. [K!Next]_(K!vars)
  BY DEF Next, K!vars
<1>4. [S!Next]_(S!vars)
  BY DEF Next, S!vars
<1>5. [D!Next]_(D!vars)
  BY DEF Next, D!vars
<1>6. [T!Next]_(T!vars)
  BY DEF Next, T!vars
<1>7. scene' = scene
  BY DEF Next
<1> QED
  BY <1>1, <1>2, <1>3, <1>4, <1>5, <1>6, <1>7

LEMMA StepInv == ASSUME ScenesInv, [Next]_vars PROVE ScenesInv'
<1>1. /\ R!RefundsAssumption /\ L!LinksAssumption /\ K!KeysAssumption
      /\ D!DashboardAssumption /\ T!TeamAssumption
  BY ConstantsAssumption
<1>2. R!Inv'
  BY <1>1, Steps, R!StepInv DEF ScenesInv
<1>3. L!Inv'
  BY <1>1, Steps, L!StepInv DEF ScenesInv
<1>4. K!Inv'
  BY <1>1, Steps, K!StepInv DEF ScenesInv
<1>5. S!Inv'
  BY Steps, S!StepInv DEF ScenesInv
<1>6. DashboardInv'
  BY <1>1, Steps, StepDashboard DEF ScenesInv
<1>7. TeamInv'
  BY <1>1, Steps, StepTeam DEF ScenesInv
<1> QED
  BY <1>2, <1>3, <1>4, <1>5, <1>6, <1>7, Steps DEF ScenesInv

THEOREM PortalInvariant == Spec => []ScenesInv
<1>1. Init => ScenesInv
  BY InitInv
<1>2. ScenesInv /\ [Next]_vars => ScenesInv'
  BY StepInv
<1> QED
  BY <1>1, <1>2, PTL DEF Spec

-----------------------------------------------------------------------------
\* The types of all modules, whatever is played.
THEOREM PortalTypeOK == Spec => []TypeOK
<1>1. ScenesInv => TypeOK
  <2>1. R!Inv => R!TypeOK
    BY DEF R!Inv, R!Books
  <2>2. L!Inv => L!TypeOK
    BY DEF L!Inv
  <2>3. K!Inv => K!TypeOK
    BY DEF K!Inv
  <2>4. S!Inv => S!TypeOK
    BY DEF S!Inv
  <2>5. (DashboardInv => D!TypeOK) /\ (TeamInv => T!TypeOK)
    BY DEF DashboardInv, TeamInv
  <2> QED
    BY <2>1, <2>2, <2>3, <2>4, <2>5 DEF ScenesInv, TypeOK
<1> QED
  BY <1>1, PortalInvariant, PTL

\* One reading of the amount that is left makes one refund at most, however
\* many tabs read it and however often a call is repeated, while no refund of
\* the charge fails (transaction_refund_controller.js:28).
THEOREM PortalOneRefundPerReading == Spec => []OneRefundPerReading
<1>1. ScenesInv => OneRefundPerReading
  BY DEF ScenesInv, R!Inv, R!Books, OneRefundPerReading
<1> QED
  BY <1>1, PortalInvariant, PTL

\* After a full refund that succeeded nothing of the charge is left, unless a
\* refund of it failed (transaction_view.js:106,
\* transaction_refund_controller.js:36).
THEOREM PortalFullRefundsAll == Spec => []FullRefundsAll
<1>1. ScenesInv => FullRefundsAll
  BY DEF ScenesInv, R!Inv, R!Books, FullRefundsAll
<1> QED
  BY <1>1, PortalInvariant, PTL

\* Who is told of success has a refund of the amount chosen
\* (transaction_refund_controller.js:39).
THEOREM PortalSuccessIsARefund == Spec => []SuccessIsARefund
<1>1. ScenesInv => SuccessIsARefund
  BY DEF ScenesInv, R!Inv, R!Told, R!TabOK, R!SuccessIsARefund, SuccessIsARefund
<1> QED
  BY <1>1, PortalInvariant, PTL

\* The account switched to stays the account of the session until a request
\* falls back to the first service (auth_service.js:131, 140,
\* my_services_controller.js:78).
THEOREM PortalSwitchHolds == Spec => []SwitchHolds
<1>1. ScenesInv => SwitchHolds
  BY DEF ScenesInv, K!Inv, SwitchHolds
<1> QED
  BY <1>1, PortalInvariant, PTL

\* A card that needs 3D Secure is accepted without it by no change of a page
\* that is up to date (payment_types_controller.js:32), if the cards of one
\* brand agree on the need.
THEOREM PortalMaestroNeeds3ds == S!BrandsAgree => (Spec => []MaestroNeeds3ds)
<1> SUFFICES ASSUME S!BrandsAgree PROVE Spec => []MaestroNeeds3ds
  OBVIOUS
<1>1. ScenesInv => MaestroNeeds3ds
  BY S!FreshChange DEF ScenesInv, MaestroNeeds3ds
<1> QED
  BY <1>1, PortalInvariant, PTL

\* Saving the cards as the form shows them keeps them
\* (payment_types_controller.js:71).
THEOREM PortalResaveKeeps == Spec => []ResaveKeeps
<1>1. ScenesInv => ResaveKeeps
  BY S!ResavedSame DEF ScenesInv, ResaveKeeps
<1> QED
  BY <1>1, PortalInvariant, PTL

\* The list behind a number has what was counted, and with the old statuses no
\* other but what was made or succeeded since (dashboard-activity-controller.js:32,
\* filters.js:18, _activity.njk:24), for days of any length and however many
\* transactions.
THEOREM PortalLinkListsWhatIsCounted == Spec => []LinkListsWhatIsCounted
<1>1. ScenesInv => LinkListsWhatIsCounted
  BY DEF ScenesInv, DashboardInv, LinkListsWhatIsCounted
<1> QED
  BY <1>1, PortalInvariant, PTL

\* A team keeps an administrator (service_users_controller.js:121).
THEOREM PortalAdminRemains == Spec => []AdminRemains
<1>1. ScenesInv => AdminRemains
  BY DEF ScenesInv, TeamInv, AdminRemains
<1> QED
  BY <1>1, PortalInvariant, PTL

\* A key is of the account whose form was filled in (api_keys_controller.js:73).
THEOREM PortalKeyOfShownAccount == Spec => KeyOfShownAccount
<1>1. ScenesInv /\ [Next]_vars =>
        [\A t \in Tabs :
            /\ keyTab[t].call = "create" /\ keyTab'[t] # keyTab[t]
            /\ keyTab[t].asked # NoAccount /\ Len(keys') > Len(keys)
            => K!Last(keys').account = keyTab[t].asked]_(K!vars)
  BY Steps, K!KeyStep DEF ScenesInv
<1> QED
  BY <1>1, PortalInvariant, PTL DEF Spec, KeyOfShownAccount, K!KeyOfShownAccount

\* A product has the title and, within a penny, the price that were shown
\* (post-review-controller.js:52).
THEOREM PortalReviewedIsMade == Spec => ReviewedIsMade
<1>1. ScenesInv /\ [Next]_vars =>
        [\A p \in products' \ products : L!Current(p.by) => L!AsShown(p)]_(L!vars)
  BY Steps, L!ReviewedStep, ConstantsAssumption DEF ScenesInv
<1> QED
  BY <1>1, PortalInvariant, PTL DEF Spec, ReviewedIsMade, L!ReviewedIsMade

\* A link that is said to be live is there (post-review-controller.js:60).
THEOREM PortalLiveIsMade == Spec => LiveIsMade
<1>1. ScenesInv /\ [Next]_vars =>
        [\A t \in Tabs : L!Busy(t) /\ linkTab'[t].page = "live" =>
            \E p \in products' : p.by = t /\ p.token = linkTab[t].token]_(L!vars)
  BY Steps, L!LiveStep DEF ScenesInv
<1> QED
  BY <1>1, PortalInvariant, PTL DEF Spec, LiveIsMade, L!LiveIsMade
=============================================================================
