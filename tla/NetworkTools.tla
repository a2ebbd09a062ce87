---------------------------- MODULE NetworkTools ----------------------------
(***************************************************************************)
(* The diagnostic tools of the console: the SSH terminal, whose answers    *)
(* are written where the last line of the screen is; the ping tool, with   *)
(* its timer; the DNS look-up, whose Enter key does not wait; and the port *)
(* scanner, which does.                                                    *)
(***************************************************************************)
EXTENDS Integers, Sequences, FiniteSets, SequencesExt

CONSTANTS
    Hosts,        \* routers of the terminal, targets of the other tools
    HistoryLimit, \* rows of ping history kept: 50
    MaxToolActs,  \* bound: what the user does
    MaxPings      \* bound: pings in flight

ASSUME ToolsAssumption == {HistoryLimit, MaxToolActs, MaxPings} \subseteq Nat

VARIABLES
    tool,       \* the tool on the screen; "left" once the user has gone
    target,     \* the router or host its controls name
    waiting,    \* its button is disabled
    commands,   \* commands, look-ups or scans in flight: [run, target]
    console,    \* lines of the terminal: [what, run, target]
    torn,       \* commands that were running when the screen was cleared
    continuous, \* the ping tool repeats
    timers,     \* its timers that are ticking
    pings,      \* pings in flight
    history,    \* rows of ping history
    result,     \* the look-up or scan shown, by its number
    toolActs, runs

terminalVars == <<console, torn>>

pingVars == <<continuous, timers, pings, history>>

toolVars == <<tool, target, waiting, commands, console, torn, continuous, timers,
              pings, history, result, toolActs, runs>>

Tools == {"terminal", "ping", "dns", "ports"}

ToolsInit ==
    /\ tool \in Tools /\ target \in Hosts /\ waiting = FALSE /\ commands = <<>>
    /\ console = <<>> /\ torn = {} /\ continuous = FALSE /\ timers = 0 /\ pings = 0
    /\ history = 0 /\ result = 0 /\ toolActs = 0 /\ runs = 0

ToolAct == toolActs < MaxToolActs /\ toolActs' = toolActs + 1

Line(what, run) == [what |-> what, run |-> run, target |-> target]

\* Mutant: the terminal does not wait for the command before.
MayRunAlways == TRUE

\* The Enter key of the DNS look-up does not wait.
EnterKeyWaits == tool # "dns"

\* The controls of the terminal and of the port scanner do.
MayRun == EnterKeyWaits => ~waiting

\* handleRunCommand, handleLookup, handleScan.
RunCommand ==
    /\ ToolAct /\ tool \in {"terminal", "dns", "ports"} /\ MayRun
    /\ waiting' = TRUE /\ runs' = runs + 1
    /\ commands' = Append(commands, [run |-> runs', target |-> target])
    /\ console' = IF tool = "terminal"
                  THEN console \o <<Line("prompt", runs'), Line("notice", runs')>> ELSE console
    /\ UNCHANGED <<tool, target, torn, result>> /\ UNCHANGED pingVars

Output(what, c) == [what |-> what, run |-> c.run, target |-> c.target]

\* The output replaces the last line, which should be the notice of its command.
ReplacesNotice(c) == Append(IF console = <<>> THEN <<>> ELSE Front(console), Output("output", c))

\* A failed look-up is shown as a result; a failed scan leaves the one before.
ShowsResult(ok) == tool = "dns" \/ (tool = "ports" /\ ok)

CommandEnds(i, ok) ==
    LET c == commands[i] IN
    /\ i \in DOMAIN commands /\ waiting' = FALSE /\ commands' = RemoveAt(commands, i)
    /\ console' = IF tool # "terminal" THEN console
                  ELSE IF ok THEN ReplacesNotice(c) ELSE Append(console, Output("error", c))
    /\ result' = IF ShowsResult(ok) THEN c.run ELSE result
    /\ UNCHANGED <<tool, target, torn, toolActs, runs>> /\ UNCHANGED pingVars

\* handleClear of the terminal, also while a command runs.
ClearConsole ==
    /\ ToolAct /\ tool = "terminal" /\ console # <<>> /\ console' = <<>>
    /\ torn' = torn \cup {commands[i].run : i \in DOMAIN commands}
    /\ UNCHANGED <<tool, target, waiting, commands, result, runs>> /\ UNCHANGED pingVars

-----------------------------------------------------------------------------
\* Mutant: the effect has no clean-up while the tool repeats.
CleanUpWhenStopped == IF continuous THEN timers ELSE 0

\* The effect on [continuous, host, port]: its clean-up stops the timer it keeps in
\* intervalRef, then a repeating tool pings at once and starts a new one.
CleanUp == IF timers > 0 THEN timers - 1 ELSE 0

PingEffect(on) ==
    /\ timers' = CleanUp + (IF on THEN 1 ELSE 0)
    /\ pings' = pings + (IF on THEN 1 ELSE 0)
    /\ waiting' = (waiting \/ on)

ToggleContinuous ==
    /\ ToolAct /\ tool = "ping" /\ pings < MaxPings /\ continuous' = ~continuous
    /\ PingEffect(~continuous)
    /\ UNCHANGED <<tool, target, commands, history, result, runs>> /\ UNCHANGED terminalVars

\* A host is chosen: typed only while nothing repeats, picked from the shortcuts always.
ChooseTarget(h) ==
    /\ ToolAct /\ tool # "left" /\ h # target /\ target' = h /\ pings < MaxPings
    /\ IF tool = "ping" THEN PingEffect(continuous) ELSE UNCHANGED <<timers, pings, waiting>>
    /\ UNCHANGED <<tool, commands, continuous, history, result, runs>> /\ UNCHANGED terminalVars

SendPing ==
    /\ ToolAct /\ tool = "ping" /\ ~continuous /\ ~waiting /\ pings < MaxPings
    /\ pings' = pings + 1 /\ waiting' = TRUE
    /\ UNCHANGED <<tool, target, commands, continuous, timers, history, result, runs>>
    /\ UNCHANGED terminalVars

TimerPings ==
    /\ timers > 0 /\ pings < MaxPings /\ pings' = pings + 1 /\ waiting' = TRUE
    /\ UNCHANGED <<tool, target, commands, continuous, timers, history, result, toolActs, runs>>
    /\ UNCHANGED terminalVars

\* A ping ends, or fails: one more row, of which the last ones are kept.
PingEnds ==
    /\ pings > 0 /\ pings' = pings - 1 /\ waiting' = FALSE
    /\ history' = IF history < HistoryLimit THEN history + 1 ELSE HistoryLimit
    /\ UNCHANGED <<tool, target, commands, continuous, timers, result, toolActs, runs>>
    /\ UNCHANGED terminalVars

ClearHistory ==
    /\ ToolAct /\ tool = "ping" /\ history > 0 /\ history' = 0
    /\ UNCHANGED <<tool, target, waiting, commands, continuous, timers, pings, result, runs>>
    /\ UNCHANGED terminalVars

\* The tool is unmounted: its clean-up runs once more.
LeaveTool ==
    /\ tool # "left" /\ tool' = "left" /\ timers' = CleanUp
    /\ commands' = <<>> /\ console' = <<>> /\ pings' = 0 /\ waiting' = FALSE
    /\ UNCHANGED <<target, torn, continuous, history, result, toolActs, runs>>

ToolsNext ==
    \/ RunCommand \/ ClearConsole \/ ToggleContinuous \/ SendPing \/ TimerPings \/ PingEnds
    \/ ClearHistory \/ LeaveTool
    \/ \E h \in Hosts : ChooseTarget(h)
    \/ \E i \in 1..MaxToolActs, ok \in BOOLEAN : CommandEnds(i, ok)

ToolsSpec == ToolsInit /\ [][ToolsNext]_toolVars

-----------------------------------------------------------------------------
ToolsTypeOK ==
    /\ tool \in Tools \cup {"left"} /\ target \in Hosts
    /\ {waiting, continuous} \subseteq BOOLEAN /\ torn \subseteq 1..MaxToolActs
    /\ commands \in Seq([run : 1..MaxToolActs, target : Hosts])
    /\ console \in Seq([what : {"prompt", "notice", "output", "error"}, run : 1..MaxToolActs, target : Hosts])
    /\ timers \in 0..1 /\ pings \in 0..MaxPings /\ history \in 0..HistoryLimit
    /\ result \in 0..MaxToolActs

\* What stands above the output or error of a command: its own prompt or notice.
UnderItsPrompt(k) ==
    /\ k > 1 /\ console[k - 1].run = console[k].run /\ console[k - 1].target = console[k].target
    /\ console[k - 1].what = IF console[k].what = "output" THEN "prompt" ELSE "notice"

(***************************************************************************)
(* Every output on the terminal stands right under the prompt that names   *)
(* its router and command, although an answer is written by replacing      *)
(* whatever the last line is by then and the router can be changed while a *)
(* command runs; only a screen cleared meanwhile tears them apart          *)
(* (TerminalView.handleRunCommand, handleClear).                           *)
(***************************************************************************)
OutputFollowsItsCommand ==
    \A k \in DOMAIN console :
        console[k].what \in {"output", "error"} /\ console[k].run \notin torn => UnderItsPrompt(k)

(***************************************************************************)
(* The ping tool has one timer while it repeats and none otherwise,        *)
(* whatever the order in which it is started and stopped, its target is    *)
(* changed and it is left: no timer goes on pinging behind the user        *)
(* (PingTool, the effect and its clean-up).                                *)
(***************************************************************************)
OneTimerWhileContinuous == timers = IF continuous /\ tool = "ping" THEN 1 ELSE 0
=============================================================================
