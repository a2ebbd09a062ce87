---------------------------- MODULE ConsoleViews ----------------------------
(***************************************************************************)
(* The views of the web console that show a list the server keeps.  Each   *)
(* loads when it is mounted; what makes it load again, what a failed load  *)
(* does to the screen and which buttons wait differ from view to view and  *)
(* are one row each.  Calls are answered late and delivered in any order;  *)
(* no view numbers or aborts its calls.                                    *)
(***************************************************************************)
EXTENDS ConsoleApi, FiniteSets, SequencesExt

CONSTANTS
    Tenants,    \* companies a user may switch between
    Everyone,   \* no active company: the server answers for all of them
    Questions,  \* what a view can ask for: a device, a page, a filter
    All,        \* the question of a view that was just mounted
    MaxCalls,   \* bound: calls in flight
    MaxActs,    \* bound: what users do in a behaviour
    MaxFaults   \* bound: failed calls

ASSUME ViewsAssumption == /\ All \in Questions /\ Everyone \in Tenants
                          /\ MaxCalls \in Nat /\ MaxActs \in Nat /\ MaxFaults \in Nat

VARIABLES
    view,    \* the view App has mounted
    tenant,  \* the active company
    asked,   \* the question the view's controls show
    data,    \* changes the server has made so far, numbered 1..data
    screen,  \* what the view shows: the last answer installed, or Blank
    calls,   \* calls in flight, oldest first
    busy,    \* the flag that disables the refresh button
    ready,   \* the device list of the selector has arrived
    acts, faults,
    calm,    \* since the last full reload no two calls overlapped
    failed   \* a call has failed since that reload

viewVars == <<view, tenant, asked, data, screen, calls, busy, ready, acts, faults, calm, failed>>

Blank == [tenant |-> Everyone, q |-> All, seen |-> {}]

Pending == -1

-----------------------------------------------------------------------------
(* One row per view.                                                        *)
(*   needs:  calls whose failure fails the load     loose: calls caught      *)
(*   tells:  the call the tracked part of the screen comes from              *)
(*   boots:  the first load waits for the device list: "no", "always" (it    *)
(*           also follows a failed list) or "if_ok"                          *)
(*   polls:  a timer loads again    follows: loads a change of company sends *)
(*   asks:   the view has a selector, page or filter that loads              *)
(*   clears: a failed load empties the screen                                *)
(*   locks:  the refresh button waits for "load"s, for "manual" loads only,  *)
(*           or there is none ("never")                                      *)
(*   saves:  what a successful change does to the screen: "reload" it,       *)
(*           "install" the answer, "patch" the rows shown, or "none"         *)
Row(needs, loose, tells) ==
    [needs |-> needs, loose |-> loose, tells |-> tells, boots |-> "no", polls |-> FALSE,
     follows |-> 0, asks |-> FALSE, clears |-> FALSE, locks |-> "load", saves |-> {}]

BgpRow == [Row({"bgp"}, {"bmp_status", "churn", "rpki_summary", "peer_metadata", "as_metadata"}, "bgp")
           EXCEPT !.boots = "always", !.asks = TRUE, !.clears = TRUE]

OspfRow == [Row({"ospf"}, {}, "ospf") EXCEPT !.boots = "always", !.asks = TRUE, !.clears = TRUE]

TelemetryRow == [Row({"overview", "status", "alerts", "history"},
                     {"bmp_status", "bmp_events", "churn", "rpki_summary"}, "alerts")
                 EXCEPT !.polls = TRUE, !.follows = 2, !.locks = "manual", !.saves = {"reload"}]

\* Mutant: the view has no timer.
ChurnRowOnce == [Row({"churn"}, {}, "churn") EXCEPT !.follows = 2, !.locks = "manual"]

ChurnRow == [Row({"churn"}, {}, "churn") EXCEPT !.polls = TRUE, !.follows = 2, !.locks = "manual"]

RpkiRow == [Row({"rpki_summary"}, {"rpki_invalids"}, "rpki_summary")
            EXCEPT !.polls = TRUE, !.follows = 2, !.locks = "manual"]

DevicesRow == [Row({"devices"}, {}, "devices") EXCEPT !.follows = 1, !.saves = {"reload", "patch"}]

UsersRow == [Row({"users"}, {"tenants"}, "users") EXCEPT !.saves = {"reload"}]

TenantsRow == [Row({"tenants"}, {}, "tenants") EXCEPT !.saves = {"reload"}]

AuditRow == [Row({"audit_logs"}, {}, "audit_logs") EXCEPT !.asks = TRUE]

LicenseRow == [Row({"license"}, {}, "license") EXCEPT !.saves = {"install"}]

InterfacesRow == Row({"interfaces"}, {}, "interfaces")

UploadRow == [Row({"upload_overview"}, {"traffic_status"}, "upload_overview")
              EXCEPT !.boots = "if_ok", !.asks = TRUE, !.saves = {"reload"}]

DownloadRow == [Row({"prepends"}, {"traffic_status"}, "prepends")
                EXCEPT !.boots = "if_ok", !.asks = TRUE, !.clears = TRUE, !.saves = {"reload"}]

ProfilesRow == [Row({"profiles"}, {}, "profiles")
                EXCEPT !.boots = "if_ok", !.locks = "never", !.saves = {"reload"}]

\* Mutant: the effect of App does not depend on the active company.
ShellRowUnfollowing ==
    [Row({"health"}, {"alerts", "devices"}, "alerts") EXCEPT !.polls = TRUE, !.locks = "never"]

\* The health and alert badge of the shell: the alert count is a caught call.
ShellRow == [Row({"health"}, {"alerts", "devices"}, "alerts")
             EXCEPT !.polls = TRUE, !.follows = 1, !.locks = "never"]

Views == {"bgp", "ospf", "telemetry", "churn", "rpki", "devices", "users", "tenants",
          "audit", "license", "interfaces", "upload", "download", "profiles", "shell"}

RowOf(v) == CASE v = "bgp" -> BgpRow [] v = "ospf" -> OspfRow [] v = "telemetry" -> TelemetryRow
              [] v = "churn" -> ChurnRow [] v = "rpki" -> RpkiRow [] v = "devices" -> DevicesRow
              [] v = "users" -> UsersRow [] v = "tenants" -> TenantsRow [] v = "audit" -> AuditRow
              [] v = "license" -> LicenseRow [] v = "interfaces" -> InterfacesRow
              [] v = "upload" -> UploadRow [] v = "download" -> DownloadRow
              [] v = "profiles" -> ProfilesRow [] v = "shell" -> ShellRow

row == RowOf(view)

-----------------------------------------------------------------------------
Call(kind, q, t) == [kind |-> kind, tenant |-> t, q |-> q, got |-> Pending]

Copies(n, c) == [k \in 1..n |-> c]

MountCalls(v, runs, t) ==
    Copies(runs, Call(IF RowOf(v).boots = "no" THEN "load" ELSE "boot", All, t))

\* The flag starts raised only where the view declares it so.
StartsBusy(v) == RowOf(v).boots = "no" /\ RowOf(v).locks = "load"

\* A view is mounted: "runs" is 2 in a development build, where StrictMode runs
\* every effect twice.
ViewsInit ==
    /\ view \in Views /\ tenant \in Tenants /\ data = 0
    /\ \E runs \in 1..2 : /\ calls = MountCalls(view, runs, tenant)
                          /\ calm = (runs = 1)
    /\ asked = All /\ screen = Blank
    /\ busy = StartsBusy(view) /\ ready = (row.boots = "no")
    /\ acts = 0 /\ faults = 0 /\ failed = FALSE

Sends(new) ==
    /\ acts < MaxActs /\ Len(calls) + Len(new) <= MaxCalls
    /\ acts' = acts + 1
    /\ calls' = calls \o new

\* A full reload sent with nothing in flight starts afresh.
Overlaps(reloads) == /\ calm' = (calls = <<>> /\ (calm \/ reloads))
                     /\ failed' = (failed /\ ~(reloads /\ calls = <<>>))

\* App mounts another view.  Answers to the loads of the one that went change
\* nothing; the answer to a deletion still acts on the active company.
Navigate(v) ==
    LET left == SelectSeq(calls, LAMBDA c : c.kind = "drop") IN
    /\ v # view /\ acts < MaxActs /\ acts' = acts + 1
    /\ Len(left) < MaxCalls
    /\ view' = v /\ calls' = left \o MountCalls(v, 1, tenant)
    /\ asked' = All /\ screen' = Blank
    /\ busy' = StartsBusy(v) /\ ready' = (RowOf(v).boots = "no")
    /\ calm' = (left = <<>>) /\ failed' = FALSE
    /\ UNCHANGED <<tenant, data, faults>>

FollowLoads(t) == Copies(row.follows, Call("load", asked, t))

\* Another company is chosen, on the companies' view; the shell is mounted with it.
SwitchTenant(t) ==
    /\ view \in {"tenants", "shell"}
    /\ t # tenant /\ tenant' = t
    /\ Sends(FollowLoads(t)) /\ Overlaps(row.follows > 0)
    /\ UNCHANGED <<view, asked, data, screen, busy, ready, faults>>

\* A device, a page or a filter is chosen.
Ask(q) ==
    /\ row.asks /\ ready /\ q # asked /\ asked' = q
    /\ Sends(<<Call("load", q, tenant)>>) /\ Overlaps(TRUE)
    /\ busy' = TRUE
    /\ UNCHANGED <<view, tenant, data, screen, ready, faults>>

Refresh ==
    /\ row.locks # "never" /\ ~busy
    /\ Sends(<<Call(IF row.locks = "manual" THEN "manual" ELSE "load", asked, tenant)>>)
    /\ Overlaps(TRUE)
    /\ busy' = TRUE
    /\ UNCHANGED <<view, tenant, asked, data, screen, ready, faults>>

\* A change is sent; the question its reload will ask is the one shown now.
Save(kind) ==
    /\ kind \in row.saves
    /\ Sends(<<Call(kind, asked, tenant)>>) /\ Overlaps(FALSE)
    /\ UNCHANGED <<view, tenant, asked, data, screen, busy, ready, faults>>

\* The active company is deleted on the companies' view.
DropActive ==
    /\ view = "tenants" /\ tenant # Everyone
    /\ Sends(<<Call("drop", asked, tenant)>>) /\ Overlaps(FALSE)
    /\ UNCHANGED <<view, tenant, asked, data, screen, busy, ready, faults>>

\* A timer, or the refresh button of TelemetryView, which waits for nothing.
Tick ==
    /\ row.polls /\ Len(calls) < MaxCalls
    /\ calls' = Append(calls, Call("load", asked, tenant))
    /\ Overlaps(TRUE)
    /\ UNCHANGED <<view, tenant, asked, data, screen, busy, ready, acts, faults>>

Loads == {"load", "manual"}

Changes == {"reload", "install", "patch", "drop"}

\* The server answers; a change makes a new version of the data.
Answer(i) ==
    /\ i \in DOMAIN calls /\ calls[i].got = Pending
    /\ data' = IF calls[i].kind \in Changes THEN data + 1 ELSE data
    /\ calls' = [calls EXCEPT ![i].got = data']
    /\ UNCHANGED <<view, tenant, asked, screen, busy, ready, acts, faults, calm, failed>>

Shows(c) == [tenant |-> c.tenant, q |-> c.q, seen |-> 1..c.got]

\* The end of a load clears the flag, whichever load raised it; a manual refresh
\* has a flag of its own.
Ends(c) == busy /\ row.locks = "manual" /\ c.kind # "manual"

Answered(i, kinds) == i \in DOMAIN calls /\ calls[i].kind \in kinds /\ calls[i].got # Pending

DeliverLoad(i) ==
    /\ Answered(i, Loads)
    /\ screen' = Shows(calls[i]) /\ busy' = Ends(calls[i])
    /\ calls' = RemoveAt(calls, i)
    /\ UNCHANGED <<view, tenant, asked, data, ready, acts, faults, calm, failed>>

LoadAll(i, ok) ==
    /\ ready' = (ready \/ ok) /\ busy' = (busy \/ row.locks = "load")
    /\ calls' = Append(RemoveAt(calls, i), Call("load", All, tenant))

\* The device list arrives: the selector fills and everything is loaded.
DeliverBoot(i) ==
    /\ Answered(i, {"boot"})
    /\ LoadAll(i, TRUE)
    /\ calm' = (calm /\ Len(calls) = 1)
    /\ UNCHANGED <<view, tenant, asked, data, screen, acts, faults, failed>>

DeliverChange(i) ==
    LET c == calls[i] IN
    /\ Answered(i, {"reload", "install", "patch"})
    /\ screen' = CASE c.kind = "install" -> Shows(c)
                   [] c.kind = "patch"   -> [screen EXCEPT !.seen = @ \cup {c.got}]
                   [] OTHER              -> screen
    /\ busy' = (busy \/ (c.kind = "reload" /\ row.locks = "load"))
    /\ calls' = RemoveAt(calls, i) \o (IF c.kind = "reload" THEN <<Call("load", c.q, tenant)>> ELSE <<>>)
    /\ UNCHANGED <<view, tenant, asked, data, ready, acts, faults, calm, failed>>

\* The active company is gone: nobody's company is active, wherever the user is now.
DeliverDrop(i) ==
    /\ Answered(i, {"drop"}) /\ tenant' = Everyone
    /\ calls' = RemoveAt(calls, i)
                \o (IF view = "tenants" THEN <<Call("load", asked, Everyone)>> ELSE <<>>)
                \o FollowLoads(Everyone)
    /\ busy' = (busy \/ view = "tenants" \/ (row.follows > 0 /\ row.locks = "load"))
    /\ UNCHANGED <<view, asked, data, screen, ready, acts, faults, calm, failed>>

Loses(i) == /\ faults < MaxFaults /\ faults' = faults + 1 /\ failed' = TRUE
            /\ i \in DOMAIN calls /\ calls[i].got = Pending
            /\ UNCHANGED <<view, tenant, asked, data, acts, calm>>

\* Mutant: the flag is cleared after the answer instead of in a finally block.
FailLoadSpinning(i) ==
    /\ Loses(i) /\ calls[i].kind \in Loads /\ \E n \in row.needs : Throws(n)
    /\ screen' = (IF row.clears THEN Blank ELSE screen)
    /\ calls' = RemoveAt(calls, i)
    /\ UNCHANGED <<busy, ready>>

\* A call the load needs fails.
FailLoad(i) ==
    /\ Loses(i) /\ calls[i].kind \in Loads /\ \E n \in row.needs : Throws(n)
    /\ screen' = (IF row.clears THEN Blank ELSE screen)
    /\ busy' = Ends(calls[i]) /\ calls' = RemoveAt(calls, i)
    /\ UNCHANGED ready

\* A call the load catches fails: its part of the screen is empty.
FailLoose(i) ==
    /\ Loses(i) /\ calls[i].kind \in Loads /\ row.tells \in row.loose
    /\ screen' = Blank /\ busy' = Ends(calls[i]) /\ calls' = RemoveAt(calls, i)
    /\ UNCHANGED ready

FailBoot(i) ==
    /\ Loses(i) /\ calls[i].kind = "boot"
    /\ \/ row.boots = "always" /\ LoadAll(i, FALSE)
       \/ row.boots = "if_ok" /\ calls' = RemoveAt(calls, i) /\ UNCHANGED <<busy, ready>>
    /\ UNCHANGED screen

FailChange(i) ==
    /\ Loses(i) /\ calls[i].kind \in Changes
    /\ calls' = RemoveAt(calls, i)
    /\ UNCHANGED <<screen, busy, ready>>

Delivers(i) == DeliverLoad(i) \/ DeliverBoot(i) \/ DeliverChange(i) \/ DeliverDrop(i)

Fails(i) == FailLoad(i) \/ FailLoose(i) \/ FailBoot(i) \/ FailChange(i)

ViewsNext ==
    \/ \E v \in Views : Navigate(v)
    \/ \E t \in Tenants : SwitchTenant(t)
    \/ \E q \in Questions : Ask(q)
    \/ Refresh \/ DropActive \/ Tick
    \/ \E kind \in {"reload", "install", "patch"} : Save(kind)
    \/ \E i \in 1..(MaxCalls + 2) : Answer(i) \/ Delivers(i) \/ Fails(i)

\* Timers fire, and every call is answered and its continuation run.
OldestAnswered == Answer(1) \/ Fails(1)

OldestDelivered == Delivers(1)

ViewsFairness ==
    WF_viewVars(Tick) /\ WF_viewVars(OldestAnswered) /\ WF_viewVars(OldestDelivered)

ViewsSpec == ViewsInit /\ [][ViewsNext]_viewVars /\ ViewsFairness

-----------------------------------------------------------------------------
ViewsTypeOK ==
    /\ view \in Views /\ tenant \in Tenants /\ asked \in Questions /\ data \in 0..MaxActs
    /\ screen \in [tenant : Tenants, q : Questions, seen : SUBSET (1..MaxActs)]
    /\ calls \in Seq([kind : Loads \cup Changes \cup {"boot"}, tenant : Tenants,
                      q : Questions, got : Pending..MaxActs])
    /\ Len(calls) <= MaxCalls + 2
    /\ {busy, ready, calm, failed} \subseteq BOOLEAN
    /\ acts \in 0..MaxActs /\ faults \in 0..MaxFaults

\* The views that are meant to show the active company while they stay mounted.
Following == {"telemetry", "churn", "rpki", "devices", "shell"}

Polling == {"telemetry", "churn", "rpki", "shell"}

(***************************************************************************)
(* A user whose calls never overlapped and never failed is shown the       *)
(* answer to what the controls say, for the active company, with every     *)
(* change made so far, whatever order of actions led there: each change of *)
(* a control, of company or of data sends the load the screen needs        *)
(* (effects and handlers of the views).                                    *)
(***************************************************************************)
QuietUseIsRight ==
    calls = <<>> /\ calm /\ ~failed =>
        /\ screen.q = asked /\ screen.seen = 1..data
        /\ view \in Following => screen.tenant = tenant

(***************************************************************************)
(* Whatever was lost, overtaken or delivered late before, a view with a    *)
(* timer ends up showing the active company and every change, for good     *)
(* (setInterval in TelemetryView, BGPChurnView, RPKIValidatorView, App).   *)
(***************************************************************************)
PolledViewsCatchUp ==
    <>[](view \in Polling => screen.tenant = tenant /\ screen.seen = 1..data)

(***************************************************************************)
(* No view keeps its refresh button disabled for ever: every way a call    *)
(* can end clears the flag it raised (the finally blocks of the loads).    *)
(***************************************************************************)
SpinnerStops == []<>~busy
=============================================================================
