----------------------------- MODULE MasterPanel -----------------------------
(***************************************************************************)
(* The web panel of the master licence server (web/static/app.js) and the  *)
(* server's sessions (AuthManager).  The panel keeps the last table it     *)
(* loaded and draws all of it or what a filter keeps; its buttons act on   *)
(* the status drawn, while the server flips the status it has.             *)
(***************************************************************************)
EXTENDS Integers, FiniteSets

CONSTANTS
    Licenses,
    MaxLogins,    \* bound: tokens issued
    MaxPanelActs, \* bound: what the operators do
    MaxPanelCalls \* bound: calls in flight

ASSUME PanelAssumption == {MaxLogins, MaxPanelActs, MaxPanelCalls} \subseteq Nat

VARIABLES
    fleet,        \* the server: the status of each licence
    validTokens,  \* the server: tokens in memory, numbered
    issued,       \* tokens issued so far
    authToken,    \* the panel's token, in localStorage too; NoToken: none
    signingIn,    \* the sign-in button is disabled
    allLicenses,  \* the table the panel loaded last
    drawn,        \* the rows drawn, with their buttons
    onlySuspended, \* the status filter
    panelCalls,   \* calls in flight: [op, id, means, token, n, alone, done, got]
    panelActs,
    overtaken,    \* since the last load that had the server to itself, calls overlapped, one
                  \* failed or another operator acted
    mistaken      \* since then the server did the opposite of what was confirmed

panelVars == <<fleet, validTokens, issued, authToken, signingIn, allLicenses, drawn,
               onlySuspended, panelCalls, panelActs, overtaken, mistaken>>

NoToken == 0

Gone == "gone"

Statuses == {"active", "suspended", Gone}

Existing(table) == {l \in Licenses : table[l] # Gone}

NoTable == [l \in Licenses |-> Gone]

\* "alone": nothing else was in flight when it was sent and nobody has acted since.
PanelCall(op, id, means, token, n, alone) ==
    [op |-> op, id |-> id, means |-> means, token |-> token, n |-> n, alone |-> alone,
     done |-> FALSE, got |-> NoTable]

LoadCall(token, alone) ==
    PanelCall("load", CHOOSE l \in Licenses : TRUE, Gone, token, 0, alone)

Disturbed(calls) == {[c EXCEPT !.alone = FALSE] : c \in calls}

\* The page is opened, with or without a stored token; the server may have restarted.
PanelInit ==
    /\ fleet \in [Licenses -> Statuses] /\ issued = 1 /\ validTokens \in SUBSET {1}
    /\ authToken \in {NoToken, 1} /\ signingIn = FALSE
    /\ allLicenses = NoTable /\ drawn = {} /\ onlySuspended = FALSE
    /\ panelActs = 0
    /\ panelCalls = IF authToken = NoToken THEN {} ELSE {LoadCall(authToken, TRUE)}
    /\ overtaken = FALSE /\ mistaken = FALSE

PanelAct == panelActs < MaxPanelActs /\ panelActs' = panelActs + 1

SendsAll(calls) == Cardinality(calls) <= MaxPanelCalls /\ panelCalls' = calls

Shown == authToken # NoToken

\* handleLogin sends; the button waits.
SignIn ==
    /\ PanelAct /\ ~Shown /\ ~signingIn /\ issued < MaxLogins
    /\ signingIn' = TRUE
    /\ UNCHANGED <<fleet, validTokens, issued, authToken, allLicenses, drawn, onlySuspended,
                   panelCalls, overtaken, mistaken>>

\* The server issues a token and the panel stores it and loads, or the password is refused.
SignedIn(ok) ==
    /\ signingIn /\ signingIn' = FALSE
    /\ issued' = IF ok THEN issued + 1 ELSE issued
    /\ validTokens' = IF ok THEN validTokens \cup {issued'} ELSE validTokens
    /\ authToken' = IF ok THEN issued' ELSE authToken
    /\ panelCalls' = IF ok THEN panelCalls \cup {LoadCall(issued', panelCalls = {})} ELSE panelCalls
    /\ overtaken' = (overtaken \/ panelCalls # {})
    /\ UNCHANGED <<fleet, allLicenses, drawn, onlySuspended, panelActs, mistaken>>

SignOut ==
    /\ PanelAct /\ Shown /\ authToken' = NoToken
    /\ UNCHANGED <<fleet, validTokens, issued, signingIn, allLicenses, drawn, onlySuspended,
                   panelCalls, overtaken, mistaken>>

\* The refresh button, and the timer while somebody is signed in.
RefreshPanel ==
    /\ Shown /\ SendsAll(panelCalls \cup {LoadCall(authToken, panelCalls = {})})
    /\ overtaken' = (overtaken \/ panelCalls # {})
    /\ UNCHANGED <<fleet, validTokens, issued, authToken, signingIn, allLicenses, drawn,
                   onlySuspended, panelActs, mistaken>>

\* filterTable draws what it keeps of the loaded table.
Kept(table, suspended) == {l \in Existing(table) : suspended => table[l] = "suspended"}

FilterTable(on) ==
    /\ PanelAct /\ Shown /\ on # onlySuspended /\ onlySuspended' = on
    /\ drawn' = Kept(allLicenses, on)
    /\ UNCHANGED <<fleet, validTokens, issued, authToken, signingIn, allLicenses,
                   panelCalls, overtaken, mistaken>>

Opposite(status) == IF status = "suspended" THEN "active" ELSE "suspended"

\* handleSaveLicense, quickRenew, toggleStatus, deleteLicense, each confirmed from the row drawn.
Press(op, l) ==
    /\ PanelAct /\ Shown
    /\ IF op = "create" THEN allLicenses[l] = Gone ELSE l \in drawn
    /\ SendsAll(Disturbed(panelCalls)
             \cup {PanelCall(op, l, Opposite(allLicenses[l]), authToken, panelActs, FALSE)})
    /\ overtaken' = (overtaken \/ panelCalls # {})
    /\ UNCHANGED <<fleet, validTokens, issued, authToken, signingIn, allLicenses, drawn,
                   onlySuspended, mistaken>>

-----------------------------------------------------------------------------
\* Store.Update of ToggleStatus, Create and Delete.
FleetAfter(c) ==
    CASE c.op = "toggle" /\ fleet[c.id] # Gone -> [fleet EXCEPT ![c.id] = Opposite(@)]
      [] c.op = "create" /\ fleet[c.id] = Gone -> [fleet EXCEPT ![c.id] = "active"]
      [] c.op = "delete"                       -> [fleet EXCEPT ![c.id] = Gone]
      [] OTHER                                 -> fleet

\* The server carries out a call that carries a valid token.
CallServed(c) ==
    /\ c \in panelCalls /\ ~c.done /\ c.token \in validTokens
    /\ fleet' = FleetAfter(c)
    /\ panelCalls' = (panelCalls \ {c})
                     \cup {[c EXCEPT !.done = TRUE, !.got = IF c.op = "load" THEN fleet ELSE NoTable]}
    /\ mistaken' = (mistaken \/ (c.op = "toggle" /\ fleet[c.id] # Gone /\ fleet'[c.id] # c.means))
    /\ UNCHANGED <<validTokens, issued, authToken, signingIn, allLicenses, drawn,
                   onlySuspended, panelActs, overtaken>>

\* Mutant: a change does not load the table again.
ThenLoadsNothing(others) == {}

\* What a successful change sends next.
ThenLoads(others) == {LoadCall(authToken, others = {})}

ChangeArrives(c) ==
    /\ c \in panelCalls /\ c.done /\ c.op # "load"
    /\ panelCalls' = (panelCalls \ {c}) \cup ThenLoads(panelCalls \ {c})
    /\ UNCHANGED <<fleet, validTokens, issued, authToken, signingIn, allLicenses, drawn,
                   onlySuspended, panelActs, overtaken, mistaken>>

\* loadDashboardData draws the whole table, whatever the filter says.
TableArrives(c) ==
    /\ c \in panelCalls /\ c.done /\ c.op = "load"
    /\ allLicenses' = c.got /\ drawn' = Existing(c.got)
    /\ panelCalls' = panelCalls \ {c}
    /\ overtaken' = (overtaken /\ ~c.alone) /\ mistaken' = (mistaken /\ ~c.alone)
    /\ UNCHANGED <<fleet, validTokens, issued, authToken, signingIn, onlySuspended, panelActs>>

\* apiFetch: 401 signs the panel out, whichever token was refused.
CallRefused(c) ==
    /\ c \in panelCalls /\ ~c.done /\ c.token \notin validTokens
    /\ panelCalls' = panelCalls \ {c}
    /\ authToken' = NoToken
    /\ UNCHANGED <<fleet, validTokens, issued, signingIn, allLicenses, drawn, onlySuspended,
                   panelActs, overtaken, mistaken>>

\* The network fails before or after the server acted, or the server refuses the call:
\* the panel shows the error and loads nothing.
CallFails(c) ==
    /\ c \in panelCalls /\ panelCalls' = panelCalls \ {c}
    /\ overtaken' = TRUE
    /\ UNCHANGED <<fleet, validTokens, issued, authToken, signingIn, allLicenses, drawn,
                   onlySuspended, panelActs, mistaken>>

\* The server restarts, or the day of a token is over.
TokensForgotten ==
    /\ validTokens # {} /\ validTokens' = {}
    /\ UNCHANGED <<fleet, issued, authToken, signingIn, allLicenses, drawn, onlySuspended,
                   panelCalls, panelActs, overtaken, mistaken>>

\* Another operator flips a licence.
OtherOperator(l) ==
    /\ PanelAct /\ fleet[l] # Gone
    /\ fleet' = [fleet EXCEPT ![l] = Opposite(@)] /\ overtaken' = TRUE
    /\ panelCalls' = Disturbed(panelCalls)
    /\ UNCHANGED <<validTokens, issued, authToken, signingIn, allLicenses, drawn,
                   onlySuspended, mistaken>>

PanelNext ==
    \/ SignIn \/ SignOut \/ RefreshPanel \/ TokensForgotten
    \/ \E ok \in BOOLEAN : SignedIn(ok) \/ FilterTable(ok)
    \/ \E l \in Licenses : OtherOperator(l)
    \/ \E op \in {"create", "renew", "toggle", "delete"}, l \in Licenses : Press(op, l)
    \/ \E c \in panelCalls : CallServed(c) \/ ChangeArrives(c) \/ TableArrives(c)
                              \/ CallRefused(c) \/ CallFails(c)

PanelSpec == PanelInit /\ [][PanelNext]_panelVars

-----------------------------------------------------------------------------
PanelTypeOK ==
    /\ fleet \in [Licenses -> Statuses] /\ allLicenses \in [Licenses -> Statuses]
    /\ drawn \subseteq Licenses /\ {issued, authToken} \subseteq NoToken..MaxLogins
    /\ validTokens \subseteq 1..issued
    /\ {signingIn, onlySuspended, overtaken, mistaken} \subseteq BOOLEAN
    /\ panelActs \in 0..MaxPanelActs

(***************************************************************************)
(* An operator alone on the server, who presses a button when no call is   *)
(* on its way, suspends what he confirmed to suspend and reactivates what  *)
(* he confirmed to reactivate, although the confirmation is written from   *)
(* the row drawn and the server only flips what it has: every change, sign *)
(* in or refresh before it brought the table up to date (toggleStatus and  *)
(* the other handlers of app.js, AdminHandler.ToggleStatus).               *)
(***************************************************************************)
ConfirmedIsDone == mistaken => overtaken
=============================================================================
