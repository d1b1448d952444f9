-------------------------------- MODULE Portal --------------------------------
(***************************************************************************)
(* The modules about the pages of a service, together.  They share no      *)
(* state: in a behaviour one of them, the scene, is played.  Four of them  *)
(* are taken with what is proved about them, for PortalProofs.             *)
(***************************************************************************)
EXTENDS Integers, Sequences, FiniteSets

CONSTANTS
    Scenes,
    Tabs, MaxAttempts,
    Charges, NoCharge, Paid, Typed, Full, MaxRefunds, GatewayErrors,
    Played, Titles, NoTitle, Amounts, Below, Above, Highest, Default,
    Blank, Invalid, NoAmount, MaxTokens,
    Services, RolesAtFirst, Unsteady, NoAccount, MaxKeys,
    Areas, Cards,
    Day, Start, End, Earlier, MaxMade,
    Users, Outsiders

VARIABLES
    scene,
    refunds, refundTab,
    session, linkTab, tokens, products,
    cookie, chosen, role, keys, keyTab,
    area, supports3ds, requires3ds, accepted, emails, settingsTab,
    account, statuses, now, made, page,
    teamRole, invited, crossed, teamTab

R == INSTANCE RefundsProofs WITH tab <- refundTab
L == INSTANCE PaymentLinksProofs WITH tab <- linkTab
K == INSTANCE ApiKeysProofs WITH tab <- keyTab
S == INSTANCE SettingsProofs WITH tab <- settingsTab
D == INSTANCE Dashboard
\* The founders of a team have a tab each.
T == INSTANCE Team WITH Founders <- Tabs, role <- teamRole, tab <- teamTab

ASSUME ConstantsAssumption ==
    /\ R!RefundsAssumption /\ L!LinksAssumption /\ K!KeysAssumption
    /\ S!SettingsAssumption /\ D!DashboardAssumption /\ T!TeamAssumption

refundsVars == <<refunds, refundTab>>
linksVars == <<session, linkTab, tokens, products>>
keysVars == <<cookie, chosen, role, keys, keyTab>>
settingsVars == <<area, supports3ds, requires3ds, accepted, emails, settingsTab>>
dashboardVars == <<account, statuses, now, made, page>>
teamVars == <<teamRole, invited, crossed, teamTab>>

vars == <<scene, refundsVars, linksVars, keysVars, settingsVars, dashboardVars,
          teamVars>>

\* The scenes with several initial states have one of them when not played.
Init == /\ scene \in Scenes
        /\ R!Init /\ L!Init /\ K!Init /\ S!Init /\ D!Init /\ T!Init
        /\ \/ scene = "links"
           \/ DOMAIN session = CHOOSE kinds \in Played : TRUE
        /\ scene = "settings" \/ (area = "cards" /\ supports3ds)
        /\ scene = "dashboard" \/ (made = {} /\ account = "card" /\ statuses = "old")

RefundsOnly ==
    /\ scene = "refunds"
    /\ UNCHANGED <<scene, linksVars, keysVars, settingsVars, dashboardVars, teamVars>>

LinksOnly ==
    /\ scene = "links"
    /\ UNCHANGED <<scene, refundsVars, keysVars, settingsVars, dashboardVars, teamVars>>

KeysOnly ==
    /\ scene = "keys"
    /\ UNCHANGED <<scene, refundsVars, linksVars, settingsVars, dashboardVars, teamVars>>

SettingsOnly ==
    /\ scene = "settings"
    /\ UNCHANGED <<scene, refundsVars, linksVars, keysVars, dashboardVars, teamVars>>

DashboardOnly ==
    /\ scene = "dashboard"
    /\ UNCHANGED <<scene, refundsVars, linksVars, keysVars, settingsVars, teamVars>>

TeamOnly ==
    /\ scene = "team"
    /\ UNCHANGED <<scene, refundsVars, linksVars, keysVars, settingsVars, dashboardVars>>

Next == \/ RefundsOnly /\ R!Next
        \/ LinksOnly /\ L!Next
        \/ KeysOnly /\ K!Next
        \/ SettingsOnly /\ S!Next
        \/ DashboardOnly /\ D!Next
        \/ TeamOnly /\ T!Next

\* The calls of one tab, of which the scene has one under way at most.
Call(t) == \/ RefundsOnly /\ (R!ReadAnswered(t) \/ R!RefundAnswered(t))
           \/ LinksOnly /\ L!Call(t)
           \/ KeysOnly /\ K!Call(t)
           \/ SettingsOnly /\ S!Call(t)
           \/ DashboardOnly /\ D!Connector
           \/ TeamOnly /\ T!Call(t)

Spec == Init /\ [][Next]_vars /\ \A t \in Tabs : WF_vars(Call(t))

-----------------------------------------------------------------------------
(* The properties of the modules, each stated and explained there.         *)

\* The types of all variables.
TypeOK == /\ scene \in Scenes
          /\ scene = "refunds" => R!TypeOK
          /\ scene = "links" => L!TypeOK
          /\ scene = "keys" => K!TypeOK
          /\ scene = "settings" => S!TypeOK
          /\ scene = "dashboard" => D!TypeOK
          /\ scene = "team" => T!TypeOK

Busy(t) == CASE scene = "refunds"   -> refundTab[t].shows \in R!Waiting
             [] scene = "links"     -> L!Busy(t)
             [] scene = "keys"      -> K!Busy(t)
             [] scene = "settings"  -> S!Busy(t)
             [] scene = "dashboard" -> page.shows = "waiting"
             [] scene = "team"      -> T!Busy(t)

\* Every request ends, whichever calls fail or are sent again: the property of
\* that name of all six modules, in the scene that is played.  It ends with an
\* answer, but for a failed change of the e-mails (Settings).
Answered == \A t \in Tabs : []<>~Busy(t)

\* One reading of the available amount makes one refund at most.
OneRefundPerReading == scene = "refunds" => R!OneRefundPerReading
\* Who is told of success has a refund of the amount chosen.
SuccessIsARefund == scene = "refunds" => R!SuccessIsARefund
\* After a full refund nothing is left.
FullRefundsAll == scene = "refunds" => R!FullRefundsAll

\* The product made is what was shown, if the session still had it.
ReviewedIsMade == L!ReviewedIsMade
\* A link that is said to be live is there.
LiveIsMade == L!LiveIsMade
\* The price is the amount that was typed, to the penny.
PriceIsInPence == L!PriceIsInPence

\* The account switched to stays the account of the session until the next
\* switch or until a request falls back to the first service.
SwitchHolds == scene = "keys" => K!SwitchHolds
\* An account switched to stays while it is one of the user's.
OwnAccountStays == K!OwnAccountStays
\* A key is of the account whose form was filled in.
KeyOfShownAccount == K!KeyOfShownAccount

\* Maestro is not accepted without 3D Secure.
MaestroNeeds3ds == scene = "settings" => S!MaestroNeeds3ds
\* Saving what is shown changes nothing.
ResaveKeeps == scene = "settings" => S!ResaveKeeps

\* The list behind a number has what was counted, and with the old statuses
\* little more.
LinkListsWhatIsCounted == scene = "dashboard" => D!LinkListsWhatIsCounted

\* A team always has an administrator.
AdminRemains == scene = "team" => T!AdminRemains
=============================================================================
