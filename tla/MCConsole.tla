----------------------------- MODULE MCConsole ------------------------------
(***************************************************************************)
(* The web side of the product on small instances.  Its parts run in pages *)
(* and processes that share nothing but the server, so a behaviour follows *)
(* one of them: "scene" is chosen at the start, and the other parts wait   *)
(* in one of their initial states.                                         *)
(***************************************************************************)
EXTENDS ConsoleViews, ConsoleShell, ConsoleForms, ConsoleSession, TrafficConsole,
        TrafficScripts, NetworkTools, MockServer, MasterPanel, AlertLog, EventStream,
        RpkiValidator

CONSTANTS adm, ua, ub, ca, cb, own, peer

MCCompanyOf == [u \in Users |-> IF u = ub THEN cb ELSE ca]

\* A block, its halves with it, and apart from them a smaller one with another length.
Roa(first, len, max) == [first |-> first, len |-> len, max |-> max, asn |-> own]

MCRoas == <<Roa(0, 1, 2), Roa(0, 2, 2), Roa(2, 2, 2), Roa(6, 2, 3)>>

Route(first, len) == [first |-> first, len |-> len]

\* Shorter than the block, the block, in it, too long for it, outside, in the smaller one.
MCRoutes == {Route(0, 0), Route(0, 1), Route(2, 2), Route(3, 3), Route(4, 1), Route(7, 3)}

VARIABLE scene

allVars == <<scene, viewVars, shellVars, formVars, sessionVars, trafficVars, scriptVars,
             toolVars, mockVars, panelVars, logVars, streamVars, rpkiVars>>

Scenes == {"views", "shell", "forms", "session", "traffic", "scripts", "tools", "mock", "panel",
           "log", "events", "rpki"}

-----------------------------------------------------------------------------
\* The one initial state in which the parts that are not followed wait.
ViewsRest   == view = "profiles" /\ tenant = Everyone /\ calm = TRUE

ShellRest   == navStyle = "dock"

FormsRest   == form = "device"

SessionRest == store = Stored(Nobody, Nobody) /\ doubled = FALSE

TrafficRest == network = [profiles |-> Factory, active |-> NoProfile, version |-> 0]

ScriptsRest == /\ vendor = "huawei"
               /\ community = SetToSeq({Token(u, Plain) : u \in Upstreams})

ToolsRest   == tool = "dns" /\ target = CHOOSE h \in Hosts : TRUE

LogRest     == server = [a \in Alerts |-> "none"] /\ pageSize = CHOOSE n \in PageSizes : TRUE

PanelRest   == fleet = NoTable /\ validTokens = {} /\ authToken = NoToken

\* A part starts anywhere its Init allows when it is followed, else at rest.
Starting(part, rest) == scene = part \/ (scene # part /\ rest)

ConsoleInit ==
    /\ scene \in Scenes
    /\ Starting("views", ViewsRest)     /\ ViewsInit
    /\ Starting("shell", ShellRest)     /\ ShellInit
    /\ Starting("forms", FormsRest)     /\ FormsInit
    /\ Starting("session", SessionRest) /\ SessionInit
    /\ Starting("traffic", TrafficRest) /\ TrafficInit
    /\ Starting("scripts", ScriptsRest) /\ ScriptsInit
    /\ Starting("tools", ToolsRest)     /\ ToolsInit
    /\ MockInit /\ Starting("mock", disk["devices"] = Empty /\ disk["alerts"] = Empty)
    /\ Starting("panel", PanelRest)     /\ PanelInit
    /\ Starting("log", LogRest)         /\ LogInit
    /\ StreamInit /\ RpkiInit

ConsoleNext ==
    \/ /\ scene = "views" /\ ViewsNext
       /\ UNCHANGED <<scene, shellVars, formVars, sessionVars, trafficVars, scriptVars,
                      toolVars, mockVars, panelVars, logVars, streamVars, rpkiVars>>
    \/ /\ scene = "shell" /\ ShellNext
       /\ UNCHANGED <<scene, viewVars, formVars, sessionVars, trafficVars, scriptVars,
                      toolVars, mockVars, panelVars, logVars, streamVars, rpkiVars>>
    \/ /\ scene = "forms" /\ FormsNext
       /\ UNCHANGED <<scene, viewVars, shellVars, sessionVars, trafficVars, scriptVars,
                      toolVars, mockVars, panelVars, logVars, streamVars, rpkiVars>>
    \/ /\ scene = "session" /\ SessionNext
       /\ UNCHANGED <<scene, viewVars, shellVars, formVars, trafficVars, scriptVars, toolVars,
                      mockVars, panelVars, logVars, streamVars, rpkiVars>>
    \/ /\ scene = "traffic" /\ TrafficNext
       /\ UNCHANGED <<scene, viewVars, shellVars, formVars, sessionVars, scriptVars, toolVars,
                      mockVars, panelVars, logVars, streamVars, rpkiVars>>
    \/ /\ scene = "scripts" /\ ScriptsNext
       /\ UNCHANGED <<scene, viewVars, shellVars, formVars, sessionVars, trafficVars,
                      toolVars, mockVars, panelVars, logVars, streamVars, rpkiVars>>
    \/ /\ scene = "tools" /\ ToolsNext
       /\ UNCHANGED <<scene, viewVars, shellVars, formVars, sessionVars, trafficVars,
                      scriptVars, mockVars, panelVars, logVars, streamVars, rpkiVars>>
    \/ /\ scene = "mock" /\ MockNext
       /\ UNCHANGED <<scene, viewVars, shellVars, formVars, sessionVars, trafficVars,
                      scriptVars, toolVars, panelVars, logVars, streamVars, rpkiVars>>
    \/ /\ scene = "panel" /\ PanelNext
       /\ UNCHANGED <<scene, viewVars, shellVars, formVars, sessionVars, trafficVars,
                      scriptVars, toolVars, mockVars, logVars, streamVars, rpkiVars>>
    \/ /\ scene = "log" /\ LogNext
       /\ UNCHANGED <<scene, viewVars, shellVars, formVars, sessionVars, trafficVars,
                      scriptVars, toolVars, mockVars, panelVars, streamVars, rpkiVars>>
    \/ /\ scene = "events" /\ StreamNext
       /\ UNCHANGED <<scene, viewVars, shellVars, formVars, sessionVars, trafficVars,
                      scriptVars, toolVars, mockVars, panelVars, logVars, rpkiVars>>
    \/ /\ scene = "rpki" /\ RpkiNext
       /\ UNCHANGED <<scene, viewVars, shellVars, formVars, sessionVars, trafficVars,
                      scriptVars, toolVars, mockVars, panelVars, logVars, streamVars>>

\* ViewsFairness, ShellFairness and StreamFairness, where these parts are followed.
ConsoleFairness ==
    /\ WF_viewVars(scene = "views" /\ Tick)
    /\ WF_viewVars(scene = "views" /\ OldestAnswered)
    /\ WF_viewVars(scene = "views" /\ OldestDelivered)
    /\ WF_shellVars(scene = "shell" /\ AppAnswer)
    /\ WF_shellVars(scene = "shell" /\ ViewAnswer)
    /\ \A w \in Writers : WF_streamVars(scene = "events" /\ CastStep(w))
    /\ \A v \in Viewers : /\ WF_streamVars(scene = "events" /\ Subscribe(v))
                          /\ WF_streamVars(scene = "events" /\ Unsubscribe(v))

ConsoleSpec == ConsoleInit /\ [][ConsoleNext]_allVars /\ ConsoleFairness
=============================================================================
