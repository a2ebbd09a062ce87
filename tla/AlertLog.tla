------------------------------ MODULE AlertLog ------------------------------
(***************************************************************************)
(* The alert log of the telemetry view (TelemetryView.tsx): filter, search *)
(* and pages over a copy of the server's alerts that is read anew every    *)
(* ten seconds, and the button that acknowledges a whole page, one call    *)
(* for each active alert of it.                                            *)
(***************************************************************************)
EXTENDS Integers, FiniteSets

CONSTANTS
    Alerts,     \* numbers of the alerts; a higher one is newer
    FoundAlerts,      \* the alerts that the search text finds
    PageSizes,  \* choices of the page size
    MaxBatches, \* bound: pages acknowledged in a behaviour
    MaxLogActs, \* bound: filters, sizes and pages chosen
    MaxChanges, \* bound: alerts raised or resolved on the server
    MaxLost     \* bound: calls that fail

ASSUME LogAssumption ==
    /\ Alerts \subseteq Nat /\ IsFiniteSet(Alerts) /\ FoundAlerts \subseteq Alerts /\ PageSizes \subseteq Nat \ {0}
    /\ {MaxBatches, MaxLogActs, MaxChanges, MaxLost} \subseteq Nat

Filters == {"all", "active", "acknowledged", "resolved"}

AlertStates == {"none", "active", "acknowledged", "resolved"}

Batches == 1..MaxBatches

VARIABLES
    server,       \* status of each alert on the server, "none" before it is raised
    alertsListed, \* the copy drawn
    alertFilter,
    searching,    \* the search field has text
    pageSize,
    currentPage,  \* as set by the buttons, not as drawn
    askedOf,      \* askedOf[b]: the alerts that batch b acknowledges
    ackCalls,     \* calls under way: <<batch, alert>>
    lostCalls,    \* calls that failed
    busyBatch,    \* the batch acknowledgingAll waits for, 0 when it is false
    logActs, changes

logVars == <<server, alertsListed, alertFilter, searching, pageSize, currentPage, askedOf,
             ackCalls, lostCalls, busyBatch, logActs, changes>>

-----------------------------------------------------------------------------
\* filteredAlerts
Filtered == {a \in Alerts : /\ alertsListed[a] # "none"
                           /\ alertFilter \in {"all", alertsListed[a]}
                           /\ searching => a \in FoundAlerts}

\* Where an alert stands in the list, newest first.
Place(a) == Cardinality({x \in Filtered : x >= a})

Smaller(x, y) == IF x < y THEN x ELSE y

Larger(x, y) == IF x > y THEN x ELSE y

TotalPages == Larger(1, (Cardinality(Filtered) + pageSize - 1) \div pageSize)

\* Mutant: the page is drawn as it was set.
UnsafePage == currentPage

\* safeCurrentPage
SafePage == Smaller(Larger(1, currentPage), TotalPages)

\* paginatedAlerts
PageDrawn == {a \in Filtered : Place(a) \in (SafePage - 1) * pageSize + 1 .. SafePage * pageSize}

ActiveOnPage == {a \in PageDrawn : alertsListed[a] = "active"}

LogInit ==
    /\ server \in [Alerts -> {"none", "active"}] /\ alertsListed = server
    /\ alertFilter = "all" /\ searching = FALSE /\ pageSize \in PageSizes /\ currentPage = 1
    /\ askedOf = [b \in Batches |-> {}] /\ ackCalls = {} /\ lostCalls = {} /\ busyBatch = 0
    /\ logActs = 0 /\ changes = 0

ChoosesInList == logActs < MaxLogActs /\ logActs' = logActs + 1

DrawnUnchanged == UNCHANGED <<server, alertsListed, askedOf, ackCalls, lostCalls, busyBatch, changes>>

\* Every control of the list goes back to the first page.
ChooseFilter(f) ==
    /\ ChoosesInList /\ alertFilter' = f /\ currentPage' = 1
    /\ DrawnUnchanged /\ UNCHANGED <<searching, pageSize>>

ChangeSearch ==
    /\ ChoosesInList /\ searching' = ~searching /\ currentPage' = 1
    /\ DrawnUnchanged /\ UNCHANGED <<alertFilter, pageSize>>

ChooseSize(n) ==
    /\ ChoosesInList /\ Filtered # {} /\ n # pageSize /\ pageSize' = n /\ currentPage' = 1
    /\ DrawnUnchanged /\ UNCHANGED <<alertFilter, searching>>

\* The footer: first, previous, the numbers near the page drawn, next, last.
Buttons ==
    LET previous == IF SafePage = 1 THEN {} ELSE {1, Larger(1, currentPage - 1)}
        next     == IF SafePage = TotalPages THEN {}
                    ELSE {Smaller(TotalPages, currentPage + 1), TotalPages}
        numbers  == {p \in 1..TotalPages : p \in {1, TotalPages} \cup SafePage - 1 .. SafePage + 1}
    IN  IF TotalPages > 1 THEN previous \cup next \cup numbers ELSE {}

TurnPage(p) ==
    /\ ChoosesInList /\ p \in Buttons /\ currentPage' = p
    /\ DrawnUnchanged /\ UNCHANGED <<alertFilter, searching, pageSize>>

ControlsUnchanged == UNCHANGED <<alertFilter, searching, pageSize, currentPage, logActs>>

\* handleAcknowledgeAllVisible, up to the await: the calls leave together.
AcknowledgePage(b) ==
    /\ askedOf[b] = {} /\ (b > 1 => askedOf[b - 1] # {}) /\ busyBatch = 0 /\ ActiveOnPage # {}
    /\ askedOf' = [askedOf EXCEPT ![b] = ActiveOnPage]
    /\ ackCalls' = ackCalls \cup {<<b, a>> : a \in ActiveOnPage} /\ busyBatch' = b
    /\ ControlsUnchanged /\ UNCHANGED <<server, alertsListed, lostCalls, changes>>

\* The server's AcknowledgeAlert: only an active alert changes its status.
ServerAck(a) ==
    [server EXCEPT ![a] = IF @ = "active" THEN "acknowledged" ELSE @]

\* A call is answered; the last one of a batch still waited for ends it with loadData.
AckAnswered(b, a) ==
    /\ <<b, a>> \in ackCalls /\ ackCalls' = ackCalls \ {<<b, a>>} /\ server' = ServerAck(a)
    /\ IF busyBatch = b /\ ~\E x \in Alerts : <<b, x>> \in ackCalls'
       THEN busyBatch' = 0 /\ alertsListed' = server'
       ELSE UNCHANGED <<busyBatch, alertsListed>>
    /\ ControlsUnchanged /\ UNCHANGED <<askedOf, lostCalls, changes>>

\* Mutant: the calls that have not been answered are given up.
RestGivenUp(b) == {c \in ackCalls : c[1] # b}

\* What is under way of a batch after one of its calls failed.
CallsLeft(b) == ackCalls

\* Promise.all rejects at the first failure: the error is shown, nothing is read.
AckLost(b, a) ==
    /\ <<b, a>> \in ackCalls /\ Cardinality(lostCalls) < MaxLost
    /\ lostCalls' = lostCalls \cup {<<b, a>>} /\ ackCalls' = CallsLeft(b) \ {<<b, a>>}
    /\ busyBatch' = IF busyBatch = b THEN 0 ELSE busyBatch
    /\ ControlsUnchanged /\ UNCHANGED <<server, alertsListed, askedOf, changes>>

\* The detector raises or resolves an alert.
ServerChanges(a) ==
    /\ changes < MaxChanges /\ changes' = changes + 1
    /\ \/ /\ server[a] = "none" /\ (\A x \in Alerts : x > a => server[x] = "none")
          /\ server' = [server EXCEPT ![a] = "active"]
       \/ /\ server[a] \in {"active", "acknowledged"}
          /\ server' = [server EXCEPT ![a] = "resolved"]
    /\ ControlsUnchanged /\ UNCHANGED <<alertsListed, askedOf, ackCalls, lostCalls, busyBatch>>

\* loadData, every ten seconds (ConsoleViews follows its late answers).
ReadLog ==
    /\ alertsListed # server /\ alertsListed' = server
    /\ ControlsUnchanged
    /\ UNCHANGED <<server, askedOf, ackCalls, lostCalls, busyBatch, changes>>

LogNext ==
    \/ \E f \in Filters : ChooseFilter(f)
    \/ ChangeSearch
    \/ \E n \in PageSizes : ChooseSize(n)
    \/ \E p \in Buttons : TurnPage(p)
    \/ \E b \in Batches : \/ AcknowledgePage(b)
                          \/ \E a \in Alerts : AckAnswered(b, a) \/ AckLost(b, a)
    \/ \E a \in Alerts : ServerChanges(a)
    \/ ReadLog

LogSpec == LogInit /\ [][LogNext]_logVars

-----------------------------------------------------------------------------
LogTypeOK ==
    /\ server \in [Alerts -> AlertStates] /\ alertsListed \in [Alerts -> AlertStates]
    /\ alertFilter \in Filters /\ searching \in BOOLEAN /\ pageSize \in PageSizes
    /\ currentPage \in Nat /\ askedOf \in [Batches -> SUBSET Alerts]
    /\ ackCalls \subseteq Batches \X Alerts /\ lostCalls \subseteq Batches \X Alerts
    /\ busyBatch \in 0..MaxBatches /\ logActs \in Nat /\ changes \in Nat

(***************************************************************************)
(* However the list shrinks under the page the user is on (alerts resolve, *)
(* a page is acknowledged under the filter "active"), some of its alerts   *)
(* are drawn as long as the filter passes any (safeCurrentPage).           *)
(***************************************************************************)
PagesShowTheList == Filtered # {} => PageDrawn # {}

(***************************************************************************)
(* The failure of one call of a page takes no other call with it: when no  *)
(* call of the batch is under way, each alert of it has left "active" on   *)
(* the server unless its own call was lost; and a batch that ended without *)
(* an error has acknowledged all (handleAcknowledgeAllVisible).            *)
(***************************************************************************)
AckReachesTheRest ==
    \A b \in Batches : \A a \in askedOf[b] :
        (<<b, a>> \notin ackCalls /\ <<b, a>> \notin lostCalls) => server[a] # "active"
=============================================================================
