---------------------------- MODULE ConsoleShell ----------------------------
(***************************************************************************)
(* The shell of the web console (App, Sidebar, NetPulseDock, TopNav,       *)
(* CommandPalette, UserProfileModal): which section and sub-tab are open,  *)
(* which menus lead there, and the alert badge, which two components write *)
(* from two different counts.                                              *)
(***************************************************************************)
EXTENDS Integers, Sequences, FiniteSets

CONSTANTS
    Routers,     \* number of routers the palette lists
    MaxPolls,    \* bound: rounds of the two timers
    MaxLoads,    \* bound: loads of TelemetryView in flight
    Active,      \* active alerts of the server
    Acknowledged \* acknowledged ones

ASSUME ShellAssumption == {Routers, MaxPolls, MaxLoads, Active, Acknowledged} \subseteq Nat

VARIABLES
    section, subTab,
    navStyle,   \* which menus are drawn: "dock", "sidebar" or "both"
    mobile,     \* the drawer of the sidebar is open
    profile,    \* the profile and preferences window is open
    palette,    \* the command palette: [open, query, index]
    badge,      \* the alert count App shows
    pollCall,   \* App's health and alert calls are in flight
    viewCalls,  \* loads of TelemetryView in flight
    polls,
    away        \* the user has left the console open

shellVars == <<section, subTab, navStyle, mobile, profile, palette,
               badge, pollCall, viewCalls, polls, away>>

navVars == <<section, subTab, navStyle, mobile, profile, palette>>

countVars == <<badge, pollCall, polls, away>>

-----------------------------------------------------------------------------
\* Mutant: the section of the routers is forgotten in handleSectionChange.
DefaultTabKept(s) == CASE s \in {"bgp", "traffic"} -> "download" [] s = "ospf" -> "neighbors"
                       [] s = "telemetry" -> "overview" [] s = "diagnostics" -> "ping"
                       [] s = "audit" -> "logs" [] s \in {"tenants", "users"} -> "list"
                       [] OTHER -> subTab

\* The sub-tab a section opens with; licence and company pages have one page only.
DefaultTab(s) == CASE s \in {"bgp", "traffic"} -> "download" [] s = "ospf" -> "neighbors"
                   [] s = "devices" -> "inventory" [] s = "telemetry" -> "overview"
                   [] s = "diagnostics" -> "ping" [] s = "audit" -> "logs"
                   [] s \in {"tenants", "users"} -> "list" [] OTHER -> subTab

\* The strip of sub-tabs TopNav draws for a section.
StripOf(s) == CASE s \in {"bgp", "traffic"} -> {"download", "upload", "sessions", "churn", "rpki"}
                [] s = "ospf" -> {"neighbors", "areas", "diagnostics"}
                [] s = "devices" -> {"inventory", "terminal"}
                [] s = "telemetry" -> {"overview", "alerts"}
                [] s = "diagnostics" -> {"ping", "interfaces", "ports", "dns"}
                [] s = "audit" -> {"logs"} [] s \in {"tenants", "users"} -> {"list"}
                [] s = "license" -> {"overview"}

\* Buttons inside a view that open a sub-tab of its section.
ShortcutsOf(s) == CASE s = "ospf" -> {"areas", "diagnostics"}
                    [] s = "telemetry" -> {"churn", "rpki"} [] OTHER -> {}

\* Each of these sections draws one of several views, or none it does not know.
BgpPanel(t) == CASE t \in {"download", "upload"} -> {"TrafficManager"}
                 [] t \in {"sessions", "bgp"} -> {"BGPManager"}
                 [] t = "churn" -> {"BGPChurnView"} [] t = "rpki" -> {"RPKIValidatorView"}
                 [] OTHER -> {}

OspfPanel(t) == IF t \in {"neighbors", "areas", "diagnostics"} THEN {"OSPFManager"} ELSE {}

DevicesPanel(t) == CASE t = "inventory" -> {"DeviceManager"} [] t = "terminal" -> {"TerminalView"}
                     [] OTHER -> {}

TelemetryPanel(t) == CASE t = "churn" -> {"BGPChurnView"} [] t = "rpki" -> {"RPKIValidatorView"}
                       [] OTHER -> {"TelemetryView"}

DiagnosticsPanel(t) == CASE t = "ping" -> {"PingTool"} [] t = "interfaces" -> {"InterfacesList"}
                         [] t = "ports" -> {"PortScanner"} [] t = "dns" -> {"DNSLookup"}
                         [] OTHER -> {}

Panel(s, t) == CASE s \in {"bgp", "traffic"} -> BgpPanel(t) [] s = "ospf" -> OspfPanel(t)
                 [] s = "devices" -> DevicesPanel(t) [] s = "telemetry" -> TelemetryPanel(t)
                 [] s = "diagnostics" -> DiagnosticsPanel(t) [] s = "audit" -> {"AuditView"}
                 [] s = "tenants" -> {"TenantManager"} [] s = "users" -> {"UserManager"}
                 [] s = "license" -> {"LicenseView"}

-----------------------------------------------------------------------------
Command(kind, s, t) == [kind |-> kind, section |-> s, tab |-> t]

NavCommands == <<Command("nav", "bgp", "download"), Command("nav", "bgp", "upload"), Command("nav", "bgp", "sessions"),
                 Command("nav", "bgp", "churn"), Command("nav", "bgp", "rpki"), Command("nav", "ospf", "neighbors"),
                 Command("nav", "ospf", "areas"), Command("nav", "ospf", "diagnostics"),
                 Command("nav", "devices", "inventory"), Command("nav", "devices", "terminal"),
                 Command("nav", "telemetry", "overview"), Command("nav", "telemetry", "alerts"),
                 Command("nav", "diagnostics", "ping"), Command("nav", "audit", "logs"),
                 Command("nav", "tenants", "list"), Command("nav", "users", "list"), Command("nav", "license", "overview")>>

DeviceCommands == [k \in 1..Routers |-> Command("device", "devices", "terminal")]

LinkCommands == [k \in 1..6 |-> Command("link", "bgp", "download")]

ActionCommands == <<Command("action", "same", "same")>>

AllCommands == NavCommands \o DeviceCommands \o LinkCommands \o ActionCommands

\* A query keeps every command, those of one category, or none.
Queries == {"", "device", "nothing"}

FilteredCommands(q) == {k \in DOMAIN AllCommands : q \in {"", AllCommands[k].kind}}

\* The row of the list a command stands in, from 0.
RowIn(listed, k) == Cardinality({j \in listed : j < k})

Closed == [open |-> FALSE, query |-> "", index |-> 0]

ShellInit ==
    /\ section = "bgp" /\ subTab = "download"
    /\ navStyle \in {"dock", "sidebar", "both"}
    /\ mobile = FALSE /\ profile = FALSE /\ palette = Closed
    /\ badge = 0 /\ pollCall = TRUE /\ viewCalls = 0 /\ polls = 0 /\ away = FALSE

\* App draws again and hands TelemetryView a new onAlertsUpdated: its effect runs
\* and loads, as it does when the view is mounted.
Redraws(s) == IF s # "telemetry" THEN 0
              ELSE IF section # "telemetry" THEN 1 ELSE viewCalls + 1

\* The user does something that changes App's state.
UserActs(s) == ~away /\ viewCalls < MaxLoads /\ viewCalls' = Redraws(s) /\ UNCHANGED countVars

\* handleSectionChange, setActiveSubTab.
SectionChange(s, t) == UserActs(s) /\ section' = s /\ subTab' = t /\ UNCHANGED navStyle

SameWindows == UNCHANGED <<mobile, profile, palette>>

Covered == palette.open \/ profile

Dock(s) == /\ ~Covered /\ ~mobile /\ navStyle \in {"dock", "both"}
           /\ SectionChange(s, DefaultTab(s)) /\ SameWindows

Sidebar(s) == /\ ~Covered /\ (mobile \/ navStyle \in {"sidebar", "both"})
              /\ SectionChange(s, DefaultTab(s))
              /\ mobile' = FALSE /\ UNCHANGED <<profile, palette>>

SubTab(t) == /\ ~Covered /\ ~mobile /\ t # subTab
             /\ t \in StripOf(section) \cup ShortcutsOf(section)
             /\ SectionChange(section, t) /\ SameWindows

AlertsPill == /\ ~Covered /\ badge > 0 /\ SectionChange("telemetry", "alerts") /\ SameWindows

\* The buttons of a router's row in DeviceManager.
DeviceButton(to) == /\ ~Covered /\ ~mobile /\ section = "devices" /\ subTab = "inventory"
                    /\ to \in {<<"devices", "terminal">>, <<"bgp", "sessions">>}
                    /\ SectionChange(to[1], to[2]) /\ SameWindows

ToggleDrawer == /\ ~Covered /\ UserActs(section) /\ mobile' = ~mobile
                /\ UNCHANGED <<section, subTab, navStyle, profile, palette>>

ToggleProfile == /\ ~palette.open /\ UserActs(section) /\ profile' = ~profile
                 /\ UNCHANGED <<section, subTab, navStyle, mobile, palette>>

ChooseNavStyle(n) == /\ profile /\ UserActs(section) /\ navStyle' = n
                     /\ UNCHANGED <<section, subTab, mobile, profile, palette>>

\* Ctrl+K, the search buttons; Escape and a click outside.  Bound: one window at a time.
TogglePalette == /\ ~profile /\ ~mobile /\ UserActs(section)
                 /\ palette' = IF palette.open THEN Closed ELSE [Closed EXCEPT !.open = TRUE]
                 /\ UNCHANGED <<section, subTab, navStyle, mobile, profile>>

\* What happens inside the palette does not draw App again.
SetPalette(p) == /\ palette.open /\ ~away /\ palette' = p
                 /\ UNCHANGED <<section, subTab, navStyle, mobile, profile>>
                 /\ UNCHANGED <<countVars, viewCalls>>

TypeQuery(q) == SetPalette([palette EXCEPT !.query = q, !.index = 0])

\* The cross of the search box leaves the highlighted row where it was.
ClearQuery == palette.query # "" /\ SetPalette([palette EXCEPT !.query = ""])

Arrow(step) ==
    LET last == Cardinality(FilteredCommands(palette.query)) - 1
        next == palette.index + step IN
    SetPalette([palette EXCEPT !.index =
        IF step = 1 THEN IF next <= last THEN next ELSE 0
        ELSE IF next >= 0 THEN next ELSE last])

\* Enter on the highlighted row, or a click on it: a row beyond the list does nothing.
ChooseRow ==
    /\ palette.open
    /\ \E k \in FilteredCommands(palette.query) :
          LET c == AllCommands[k] IN
          /\ RowIn(FilteredCommands(palette.query), k) = palette.index
          /\ section' = (IF c.kind = "action" THEN section ELSE c.section)
          /\ subTab' = (IF c.kind = "action" THEN subTab ELSE c.tab)
    /\ palette' = Closed /\ UNCHANGED <<navStyle, mobile, profile>>
    /\ UserActs(section')

\* Bound: with no window open.
LeaveOpen == ~away /\ ~Covered /\ ~mobile /\ away' = TRUE /\ UNCHANGED navVars
             /\ UNCHANGED <<badge, pollCall, polls, viewCalls>>

-----------------------------------------------------------------------------
\* Mutant: the count is kept in a new object each time.
DiffersAlways(old, new) == TRUE

\* A setter of React draws again only when the value really changes.
Differs(old, new) == old # new

\* The timer of App, or of TelemetryView.
Timer(loads) ==
    /\ polls < MaxPolls /\ polls' = polls + 1
    /\ pollCall' = (pollCall \/ loads = 0) /\ viewCalls' = viewCalls + loads
    /\ UNCHANGED navVars /\ UNCHANGED <<badge, away>>

\* checkHealthAndAlerts counts the active alerts; the uptime may have changed too.
AppAnswer ==
    /\ pollCall /\ pollCall' = FALSE
    /\ badge' = Active
    /\ \E uptime \in BOOLEAN :
          viewCalls' = IF uptime \/ Differs(badge, badge') THEN Redraws(section) ELSE viewCalls
    /\ UNCHANGED navVars /\ UNCHANGED <<polls, away>>

\* loadData of TelemetryView counts the active and the acknowledged ones.
ViewAnswer ==
    /\ viewCalls > 0
    /\ badge' = Active + Acknowledged
    /\ viewCalls' = (IF Differs(badge, badge') THEN Redraws(section) ELSE viewCalls) - 1
    /\ UNCHANGED navVars /\ UNCHANGED <<pollCall, polls, away>>

Sections == {"bgp", "ospf", "devices", "telemetry", "diagnostics", "audit", "license", "tenants", "users"}

ShellNext ==
    \/ \E s \in Sections : Dock(s) \/ Sidebar(s)
    \/ \E t \in UNION {StripOf(section), ShortcutsOf(section)} : SubTab(t)
    \/ \E to \in {<<"devices", "terminal">>, <<"bgp", "sessions">>} : DeviceButton(to)
    \/ \E n \in {"dock", "sidebar", "both"} : ChooseNavStyle(n)
    \/ AlertsPill \/ ToggleDrawer \/ ToggleProfile \/ LeaveOpen
    \/ TogglePalette \/ ClearQuery \/ ChooseRow
    \/ \E q \in Queries : TypeQuery(q)
    \/ \E step \in {-1, 1} : Arrow(step)
    \/ ~pollCall /\ Timer(0)
    \/ section = "telemetry" /\ Timer(1)
    \/ AppAnswer \/ ViewAnswer

ShellFairness == WF_shellVars(AppAnswer) /\ WF_shellVars(ViewAnswer)

ShellSpec == ShellInit /\ [][ShellNext]_shellVars /\ ShellFairness

-----------------------------------------------------------------------------
ShellTypeOK ==
    /\ navStyle \in {"dock", "sidebar", "both"}
    /\ {mobile, profile, pollCall, away} \subseteq BOOLEAN
    /\ palette \in [open : BOOLEAN, query : Queries, index : -1..Len(AllCommands)]
    /\ badge \in 0..(Active + Acknowledged) /\ viewCalls \in Nat /\ polls \in 0..MaxPolls

(***************************************************************************)
(* Whatever menu, palette command, shortcut or badge the user followed, a  *)
(* view is drawn: no route leaves a section open with a sub-tab that       *)
(* belongs to another one (App, handleSectionChange and its callers).      *)
(***************************************************************************)
SectionShowsAView == Panel(section, subTab) # {}

(***************************************************************************)
(* Two components write the badge from two different counts, and each      *)
(* write that changes it draws App again, which makes TelemetryView load   *)
(* and write it again; left alone, this dies out instead of asking the     *)
(* server for ever (App's inline onAlertsUpdated, TelemetryView's effect). *)
(***************************************************************************)
BadgeSettles == []<>(away => viewCalls = 0)
=============================================================================
