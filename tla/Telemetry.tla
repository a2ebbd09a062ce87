------------------------------ MODULE Telemetry ------------------------------
(***************************************************************************)
(* The telemetry engine at work: the polling cycle of the collector          *)
(* (backend/internal/telemetry/collector.go), the BMP server's connection     *)
(* goroutines (backend/internal/telemetry/bmp/server.go) and the detector      *)
(* they share, against a network that changes by itself.                      *)
(*                                                                         *)
(* What a router says of a BGP peer is a row: the session's state and         *)
(* whether any prefix is received.  The collector reads rows by SSH, or from   *)
(* the BMP server's table when the router has a BMP connection.               *)
(***************************************************************************)
EXTENDS Detector

CONSTANTS
  Peer,         \* BGP peers of every device
  Neighbour,    \* OSPF neighbours of every device
  Name,         \* names a device can be given
  BmpDevice,    \* devices that export BMP
  PollSlots,    \* devices polled at the same time (5 in the code)
  MaxFlaps,     \* bound: network changes and failed commands in one behaviour
  MaxEdits      \* bound: renames in one behaviour

VARIABLES
  reach,        \* the device answers TestConnection
  sess,         \* the router's own row of each peer
  adj,          \* the router's own state of each OSPF neighbour
  name,         \* the inventory's name of each device
  changes,      \* network changes, failed commands and renames so far
  bmpUp,        \* the router has a registered BMP connection
  wire,         \* BMP messages sent and not yet processed, per peer in order
  peers,        \* the BMP server's table
  cycling,      \* RunCycle is running
  queue,        \* devices RunCycle has not started yet
  pc,           \* per device: how far its goroutine is
  snap,         \* per device: the name in the goroutine's copy of the device
  cur,          \* per device: rows read in this cycle
  left,         \* per device: rows read and not yet evaluated
  cached        \* cachedBGP and cachedOSPF

worldVars == <<reach, sess, adj, name, changes>>
bmpVars == <<bmpUp, wire, peers>>
pollVars == <<cycling, queue, pc, snap, cur, left, cached>>
vars == <<detectorVars, worldVars, bmpVars, pollVars>>

-----------------------------------------------------------------------------

Row == [state : {"absent", "established", "down"}, routes : BOOLEAN]
Absent == [state |-> "absent", routes |-> FALSE]

(* The BMP server counts the prefixes of a peer, here in units of all the     *)
(* prefixes the peer sends when it sends any.                                *)
BmpPeer == [state : {"absent", "established", "down"}, prefixes : Nat]
BmpMessage == {"peer_up", "peer_down", "announce", "withdraw", "stats"}
NoBmpPeer == [state |-> "absent", prefixes |-> 0]

(* The rows of one device, BGP and OSPF; those that a read did not return     *)
(* are absent.                                                              *)
View == [bgp : [Peer -> Row], ospf : [Neighbour -> {"absent", "up", "down"}]]
NoBgp == [p \in Peer |-> Absent]
NoOspf == [n \in Neighbour |-> "absent"]
NoView == [bgp |-> NoBgp, ospf |-> NoOspf]

PollWriter(d) == <<"poll", d>>
BmpWriter(d) == <<"bmp", d>>

OfflineKey(d, nm) == <<d, "device_offline", nm>>
BgpKey(d, p) == <<d, "bgp_down", p>>
PrefixKey(d, p) == <<d, "bgp_prefix_drop", p>>
OspfKey(d, n) == <<d, "ospf_down", n>>

PollKeys(d) ==
  {OfflineKey(d, nm) : nm \in Name}
    \cup {BgpKey(d, p) : p \in Peer} \cup {PrefixKey(d, p) : p \in Peer}
    \cup {OspfKey(d, n) : n \in Neighbour}

BmpKeys(d) == {BgpKey(d, p) : p \in Peer}

ASSUME TelemetryAssumption ==
  /\ Name # {} /\ BmpDevice \subseteq Device
  /\ Target = Name \cup Peer \cup Neighbour
  /\ Peer \cap Neighbour = {}
  /\ Writer = {PollWriter(d) : d \in Device} \cup {BmpWriter(d) : d \in BmpDevice}
  /\ \A d \in Device : KeysOf[PollWriter(d)] = PollKeys(d)
  /\ \A d \in BmpDevice : KeysOf[BmpWriter(d)] = BmpKeys(d)
  /\ MaxChecks >= 2
  /\ PollSlots \in Nat \ {0}
  /\ MaxFlaps \in Nat /\ MaxEdits \in Nat

Bad(k) == [key |-> k, bad |-> TRUE]
Good(k) == [key |-> k, bad |-> FALSE]

TelemetryInit ==
  /\ DetectorInit
  /\ reach = [d \in Device |-> TRUE]
  /\ sess = [d \in Device |-> [p \in Peer |-> [state |-> "established", routes |-> TRUE]]]
  /\ adj = [d \in Device |-> [n \in Neighbour |-> "up"]]
  /\ name \in [Device -> Name]
  /\ changes = [flaps |-> 0, edits |-> 0]
  /\ bmpUp = [d \in BmpDevice |-> FALSE]
  /\ wire = [d \in BmpDevice |-> [p \in Peer |-> <<>>]]
  /\ peers = [d \in BmpDevice |-> [p \in Peer |-> NoBmpPeer]]
  /\ cycling = FALSE
  /\ queue = {}
  /\ pc = [d \in Device |-> "idle"]
  /\ snap = name
  /\ cur = [d \in Device |-> NoView]
  /\ left = [d \in Device |-> {}]
  /\ cached = [d \in Device |-> NoView]

-----------------------------------------------------------------------------
(* The network and the operator.  A router with a BMP connection writes each  *)
(* change of a session to it.                                               *)

Flap ==
  /\ changes.flaps < MaxFlaps
  /\ changes' = [changes EXCEPT !.flaps = @ + 1]

(* The BMP message that tells of a session's change from row r to row s.     *)
Message(r, s) ==
  IF s.state = "down" THEN "peer_down"
  ELSE IF r.state = "down" THEN "peer_up"
  ELSE IF s.routes THEN "announce" ELSE "withdraw"

(* A session goes down, comes up with no prefix, or gains or loses all of     *)
(* its prefixes.                                                             *)
SessionStep(r) ==
  IF r.state = "down"
  THEN {[state |-> "established", routes |-> FALSE]}
  ELSE {[state |-> "down", routes |-> FALSE],
        [state |-> "established", routes |-> ~r.routes]}

SessionChanges(d, p) ==
  /\ Flap
  /\ \E s \in SessionStep(sess[d][p]) :
       /\ sess' = [sess EXCEPT ![d][p] = s]
       /\ IF d \in BmpDevice /\ bmpUp[d]
          THEN wire' = [wire EXCEPT ![d][p] = Append(@, Message(sess[d][p], s))]
          ELSE UNCHANGED wire
  /\ UNCHANGED <<detectorVars, reach, adj, name, bmpUp, peers, pollVars>>

ReachChanges(d) ==
  /\ Flap
  /\ reach' = [reach EXCEPT ![d] = ~@]
  /\ UNCHANGED <<detectorVars, sess, adj, name, bmpVars, pollVars>>

AdjacencyChanges(d, n) ==
  /\ Flap
  /\ adj' = [adj EXCEPT ![d][n] = IF @ = "up" THEN "down" ELSE "up"]
  /\ UNCHANGED <<detectorVars, reach, sess, name, bmpVars, pollVars>>

(* The operator renames a device.                                           *)
Rename(d, nm) ==
  /\ running
  /\ changes.edits < MaxEdits
  /\ nm # name[d]
  /\ name' = [name EXCEPT ![d] = nm]
  /\ changes' = [changes EXCEPT !.edits = @ + 1]
  /\ UNCHANGED <<detectorVars, reach, sess, adj, bmpVars, pollVars>>

-----------------------------------------------------------------------------
(* The BMP server *)

(* A router connects and announces the sessions it has established.          *)
BmpConnect(d) ==
  /\ running
  /\ ~bmpUp[d]
  /\ Flap
  /\ bmpUp' = [bmpUp EXCEPT ![d] = TRUE]
  /\ wire' = [wire EXCEPT ![d] =
       [p \in Peer |->
          IF sess[d][p].state = "down" THEN <<>>
          ELSE IF sess[d][p].routes THEN <<"peer_up", "announce">>
          ELSE <<"peer_up">>]]
  /\ UNCHANGED <<detectorVars, reach, sess, adj, name, peers, pollVars>>

(* The connection ends: the client is forgotten, its peers are not.          *)
BmpDisconnect(d) ==
  /\ running
  /\ bmpUp[d]
  /\ Flap
  /\ bmpUp' = [bmpUp EXCEPT ![d] = FALSE]
  /\ wire' = [wire EXCEPT ![d] = [p \in Peer |-> <<>>]]
  /\ UNCHANGED <<detectorVars, reach, sess, adj, name, peers, pollVars>>

(* A router that has prefixes of a peer says how many it has now.            *)
BmpStats(d, p) ==
  /\ bmpUp[d]
  /\ sess[d][p].routes
  /\ Flap
  /\ wire' = [wire EXCEPT ![d][p] = Append(@, "stats")]
  /\ UNCHANGED <<detectorVars, reach, sess, adj, name, bmpUp, peers, pollVars>>

(* The peer after message m.  Route messages count up and down, never below    *)
(* zero, and create the peer as established; nothing but a statistics report   *)
(* of a known peer ever sets the count again, a session that falls or comes    *)
(* up included.                                                              *)
AfterMessage(b, m) ==
  LET known == IF b.state = "absent" THEN "established" ELSE b.state
  IN CASE m = "peer_up" -> [b EXCEPT !.state = "established"]
       [] m = "peer_down" -> [b EXCEPT !.state = "down"]
       [] m = "announce" -> [state |-> known, prefixes |-> b.prefixes + 1]
       [] m = "withdraw" ->
            [state |-> known, prefixes |-> IF b.prefixes = 0 THEN 0 ELSE b.prefixes - 1]
       [] m = "stats" -> IF b.state = "absent" THEN b ELSE [b EXCEPT !.prefixes = 1]

(* Mutant: the hook runs without waiting for the one before it.             *)
BmpProcessUnordered(d, p) ==
  /\ running
  /\ bmpUp[d]
  /\ wire[d][p] # <<>>
  /\ LET m == Head(wire[d][p])
     IN /\ peers' = [peers EXCEPT ![d][p] = AfterMessage(@, m)]
        /\ work' = [work EXCEPT ![BmpWriter(d)] =
             IF m \in {"peer_up", "peer_down"}
             THEN <<[key |-> BgpKey(d, p), bad |-> m = "peer_down"]>>
             ELSE @]
  /\ wire' = [wire EXCEPT ![d][p] = Tail(@)]
  /\ UNCHANGED <<storeVars, act, hit, running, syslogs, acks, boots,
                 worldVars, bmpUp, pollVars>>

(* processMessage: update the table under the lock, release it, and call the  *)
(* detector's hook for a session that went up or down.                        *)
BmpProcess(d, p) ==
  /\ running
  /\ bmpUp[d]
  /\ wire[d][p] # <<>>
  /\ work[BmpWriter(d)] = <<>>
  /\ LET m == Head(wire[d][p])
     IN /\ peers' = [peers EXCEPT ![d][p] = AfterMessage(@, m)]
        /\ CASE m = "peer_up" -> Evaluate(BmpWriter(d), <<Good(BgpKey(d, p))>>)
             [] m = "peer_down" -> Evaluate(BmpWriter(d), <<Bad(BgpKey(d, p))>>)
             [] OTHER -> UNCHANGED detectorVars
  /\ wire' = [wire EXCEPT ![d][p] = Tail(@)]
  /\ UNCHANGED <<worldVars, bmpUp, pollVars>>

-----------------------------------------------------------------------------
(* The collector *)

(* Mutant: the inventory is copied when the engine starts, not per cycle.   *)
BeginCycleOldCopy ==
  /\ running
  /\ ~cycling
  /\ cycling' = TRUE
  /\ queue' = Device
  /\ UNCHANGED <<detectorVars, worldVars, bmpVars, pc, snap, cur, left, cached>>

(* The engine's loop starts a cycle over a copy of the inventory.            *)
BeginCycle ==
  /\ running
  /\ ~cycling
  /\ cycling' = TRUE
  /\ queue' = Device
  /\ snap' = name
  /\ UNCHANGED <<detectorVars, worldVars, bmpVars, pc, cur, left, cached>>

Busy == {d \in Device : pc[d] # "idle"}

(* Mutant: a device that answers resolves nothing.                          *)
PollNeverRecovers(d) ==
  /\ d \in queue
  /\ Cardinality(Busy) < PollSlots
  /\ queue' = queue \ {d}
  /\ IF reach[d]
     THEN pc' = [pc EXCEPT ![d] = "online"] /\ running /\ UNCHANGED detectorVars
     ELSE /\ pc' = [pc EXCEPT ![d] = "offline"]
          /\ Evaluate(PollWriter(d), <<Bad(OfflineKey(d, snap[d]))>>)
  /\ UNCHANGED <<worldVars, bmpVars, cycling, snap, cur, left, cached>>

(* A goroutine takes a free slot and tries the device's SSH port.            *)
Poll(d) ==
  /\ d \in queue
  /\ Cardinality(Busy) < PollSlots
  /\ queue' = queue \ {d}
  /\ IF reach[d]
     THEN /\ pc' = [pc EXCEPT ![d] = "online"]
          /\ Evaluate(PollWriter(d), <<Good(OfflineKey(d, snap[d]))>>)
     ELSE /\ pc' = [pc EXCEPT ![d] = "offline"]
          /\ Evaluate(PollWriter(d), <<Bad(OfflineKey(d, snap[d]))>>)
  /\ UNCHANGED <<worldVars, bmpVars, cycling, snap, cur, left, cached>>

Evaluated(d) == running /\ work[PollWriter(d)] = <<>>

(* An unreachable device ends here; what was cached of it stays.             *)
PollFails(d) ==
  /\ pc[d] = "offline"
  /\ Evaluated(d)
  /\ pc' = [pc EXCEPT ![d] = "idle"]
  /\ UNCHANGED <<detectorVars, worldVars, bmpVars, cycling, queue, snap, cur, left, cached>>

(* The BMP table is used when the router is connected and has any peer.      *)
BmpPreferred(d) ==
  /\ d \in BmpDevice
  /\ bmpUp[d]
  /\ \E p \in Peer : peers[d][p].state # "absent"

(* The rows that the collector gets of the BMP table.                        *)
BmpRows(d) ==
  [p \in Peer |-> [state |-> peers[d][p].state, routes |-> peers[d][p].prefixes > 0]]

(* A CLI command returns the router's own rows.  It returns nothing when the *)
(* device has become unreachable, and may fail on a reachable one too.       *)
CommandYields(d, rows, truth, nothing) ==
  \/ reach[d] /\ rows = truth /\ UNCHANGED changes
  \/ reach[d] /\ rows = nothing /\ Flap
  \/ ~reach[d] /\ rows = nothing /\ UNCHANGED changes

ReadBgp(d) ==
  /\ pc[d] = "online"
  /\ Evaluated(d)
  /\ \E rows \in {NoBgp, sess[d]} \cup {BmpRows(x) : x \in BmpDevice \cap {d}} :
       /\ IF BmpPreferred(d)
          THEN rows = BmpRows(d) /\ UNCHANGED changes
          ELSE CommandYields(d, rows, sess[d], NoBgp)
       /\ cur' = [cur EXCEPT ![d].bgp = rows]
       /\ left' = [left EXCEPT ![d] = {p \in Peer : rows[p].state # "absent"}]
  /\ pc' = [pc EXCEPT ![d] = "ospf"]
  /\ UNCHANGED <<detectorVars, reach, sess, adj, name, bmpVars, cycling, queue, snap, cached>>

ReadOspf(d) ==
  /\ pc[d] = "ospf"
  /\ running
  /\ \E rows \in {NoOspf, adj[d]} :
       /\ CommandYields(d, rows, adj[d], NoOspf)
       /\ cur' = [cur EXCEPT ![d].ospf = rows]
       /\ left' = [left EXCEPT ![d] = @ \cup {n \in Neighbour : rows[n] # "absent"}]
  /\ pc' = [pc EXCEPT ![d] = "detect"]
  /\ UNCHANGED <<detectorVars, reach, sess, adj, name, bmpVars, cycling, queue, snap, cached>>

(* Mutants: prefixes that are back count only right after their drop; a down *)
(* session counts only when it was up; an established one resolves nothing.  *)
PrefixChecksOnReturn(d, p, prev, row) ==
  IF prev.state = "absent" \/ prev.routes = row.routes THEN <<>>
  ELSE <<[key |-> PrefixKey(d, p), bad |-> prev.routes]>>

(* The prefix rule needs the peer's row of the cycle before.                 *)
PrefixChecks(d, p, prev, row) ==
  IF prev.state = "absent" THEN <<>>
  ELSE IF prev.routes /\ ~row.routes THEN <<Bad(PrefixKey(d, p))>>
  ELSE IF row.routes THEN <<Good(PrefixKey(d, p))>>
  ELSE <<>>

SessionChecksOnFall(d, p, prev, row) ==
  IF row.state # "established"
  THEN (IF prev.state = "established" THEN <<Bad(BgpKey(d, p))>> ELSE <<>>)
  ELSE <<Good(BgpKey(d, p))>> \o PrefixChecks(d, p, prev, row)

SessionChecksRaiseOnly(d, p, prev, row) ==
  IF row.state # "established"
  THEN <<Bad(BgpKey(d, p))>>
  ELSE PrefixChecks(d, p, prev, row)

SessionChecks(d, p, prev, row) ==
  IF row.state # "established"
  THEN <<Bad(BgpKey(d, p))>>
  ELSE <<Good(BgpKey(d, p))>> \o PrefixChecks(d, p, prev, row)

(* EvaluateBGPSessions, one turn of its loop.                                *)
EvaluateSession(d, p) ==
  /\ pc[d] = "detect"
  /\ p \in left[d]
  /\ left' = [left EXCEPT ![d] = @ \ {p}]
  /\ Evaluate(PollWriter(d), SessionChecks(d, p, cached[d].bgp[p], cur[d].bgp[p]))
  /\ UNCHANGED <<worldVars, bmpVars, cycling, queue, pc, snap, cur, cached>>

(* Mutant: only a full adjacency that was down before resolves its alert.   *)
EvaluateNeighbourOnReturn(d, n) ==
  /\ pc[d] = "detect"
  /\ left[d] \cap Peer = {}
  /\ n \in left[d]
  /\ left' = [left EXCEPT ![d] = @ \ {n}]
  /\ IF cur[d].ospf[n] = "up"
     THEN IF cached[d].ospf[n] = "down"
          THEN Evaluate(PollWriter(d), <<Good(OspfKey(d, n))>>)
          ELSE Evaluated(d) /\ UNCHANGED detectorVars
     ELSE Evaluate(PollWriter(d), <<Bad(OspfKey(d, n))>>)
  /\ UNCHANGED <<worldVars, bmpVars, cycling, queue, pc, snap, cur, cached>>

(* EvaluateOSPFNeighbors, one turn of its loop; the BGP sessions come first. *)
EvaluateNeighbour(d, n) ==
  /\ pc[d] = "detect"
  /\ left[d] \cap Peer = {}
  /\ n \in left[d]
  /\ left' = [left EXCEPT ![d] = @ \ {n}]
  /\ Evaluate(PollWriter(d),
       <<IF cur[d].ospf[n] = "up" THEN Good(OspfKey(d, n)) ELSE Bad(OspfKey(d, n))>>)
  /\ UNCHANGED <<worldVars, bmpVars, cycling, queue, pc, snap, cur, cached>>

(* Mutant: the cycle ends before its rows are evaluated.                    *)
PollEndsEarly(d) ==
  /\ pc[d] = "detect"
  /\ Evaluated(d)
  /\ cached' = [cached EXCEPT ![d] = cur[d]]
  /\ cur' = [cur EXCEPT ![d] = NoView]
  /\ pc' = [pc EXCEPT ![d] = "idle"]
  /\ UNCHANGED <<detectorVars, worldVars, bmpVars, cycling, queue, snap, left>>

(* The rows of this cycle become the cache, a failed read's absence too.     *)
PollEnds(d) ==
  /\ pc[d] = "detect"
  /\ left[d] = {}
  /\ Evaluated(d)
  /\ cached' = [cached EXCEPT ![d] = cur[d]]
  /\ cur' = [cur EXCEPT ![d] = NoView]
  /\ pc' = [pc EXCEPT ![d] = "idle"]
  /\ UNCHANGED <<detectorVars, worldVars, bmpVars, cycling, queue, snap, left>>

(* wg.Wait returns when every goroutine of the cycle has.                    *)
EndCycle ==
  /\ running
  /\ cycling
  /\ queue = {}
  /\ Busy = {}
  /\ cycling' = FALSE
  /\ UNCHANGED <<detectorVars, worldVars, bmpVars, queue, pc, snap, cur, left, cached>>

-----------------------------------------------------------------------------

(* The detector's own steps, with nothing else changed.                      *)
RunRules(w) ==
  /\ Look(w) \/ Raise(w) \/ Close(w)
  /\ UNCHANGED <<worldVars, bmpVars, pollVars>>

OperatorAcks(i) == Acknowledge(i) /\ UNCHANGED <<worldVars, bmpVars, pollVars>>

SyslogLine(k) == RecordSyslogAlert(k) /\ UNCHANGED <<worldVars, bmpVars, pollVars>>

(* The process dies: the caches, the BMP table and the connections with it.  *)
ProcessDies ==
  /\ Restart \/ FailedBoot
  /\ bmpUp' = [d \in BmpDevice |-> FALSE]
  /\ wire' = [d \in BmpDevice |-> [p \in Peer |-> <<>>]]
  /\ peers' = [d \in BmpDevice |-> [p \in Peer |-> NoBmpPeer]]
  /\ cycling' = FALSE
  /\ queue' = {}
  /\ pc' = [d \in Device |-> "idle"]
  /\ snap' = name
  /\ cur' = [d \in Device |-> NoView]
  /\ left' = [d \in Device |-> {}]
  /\ cached' = [d \in Device |-> NoView]
  /\ UNCHANGED worldVars

World ==
  \/ \E d \in Device, p \in Peer : SessionChanges(d, p)
  \/ \E d \in Device : ReachChanges(d)
  \/ \E d \in Device, n \in Neighbour : AdjacencyChanges(d, n)
  \/ \E d \in Device, nm \in Name : Rename(d, nm)
  \/ \E d \in BmpDevice : BmpConnect(d) \/ BmpDisconnect(d)
  \/ \E d \in BmpDevice, p \in Peer : BmpStats(d, p)
  \/ \E i \in AlertId : OperatorAcks(i)
  \/ \E k \in SyslogKey : SyslogLine(k)
  \/ ProcessDies

(* The steps of the goroutine that polls device d.                           *)
PollStep(d) ==
  \/ Poll(d)
  \/ PollFails(d)
  \/ ReadBgp(d)
  \/ ReadOspf(d)
  \/ \E p \in Peer : EvaluateSession(d, p)
  \/ \E n \in Neighbour : EvaluateNeighbour(d, n)
  \/ PollEnds(d)

TelemetryNext ==
  \/ World
  \/ BeginCycle \/ EndCycle
  \/ \E d \in Device : PollStep(d)
  \/ \E d \in BmpDevice, p \in Peer : BmpProcess(d, p)
  \/ \E w \in Writer : RunRules(w)

(* The ticker always fires again and every goroutine runs on.  Nothing is    *)
(* assumed of the network, the operator or the disk.                         *)
Fairness ==
  /\ WF_vars(BeginCycle \/ EndCycle)
  /\ \A d \in Device : WF_vars(PollStep(d))
  /\ \A d \in BmpDevice, p \in Peer : WF_vars(BmpProcess(d, p))
  /\ \A w \in Writer : WF_vars(RunRules(w))

TelemetrySpec == TelemetryInit /\ [][TelemetryNext]_vars /\ Fairness

-----------------------------------------------------------------------------
(* Properties *)

(* The shape of the engine's state.  A goroutine that is not between its reads *)
(* and its evaluations has no row left to evaluate.                           *)
TelemetryTypeOK ==
  /\ DetectorTypeOK
  /\ reach \in [Device -> BOOLEAN]
  /\ sess \in [Device -> [Peer -> Row]]
  /\ adj \in [Device -> [Neighbour -> {"up", "down"}]]
  /\ name \in [Device -> Name]
  /\ changes \in [flaps : 0..MaxFlaps, edits : 0..MaxEdits]
  /\ bmpUp \in [BmpDevice -> BOOLEAN]
  /\ wire \in [BmpDevice -> [Peer -> Seq(BmpMessage)]]
  /\ peers \in [BmpDevice -> [Peer -> BmpPeer]]
  /\ cycling \in BOOLEAN
  /\ queue \in SUBSET Device
  /\ pc \in [Device -> {"idle", "offline", "online", "ospf", "detect"}]
  /\ snap \in [Device -> Name]
  /\ cur \in [Device -> View]
  /\ left \in [Device -> SUBSET (Peer \cup Neighbour)]
  /\ cached \in [Device -> View]
  /\ \A d \in Device : pc[d] \in {"idle", "offline", "online"} => left[d] = {}

IsOpenKey(k) == OpenIn(alerts, k) # {}

(* What the dashboard shows and what the alert centre shows agree.  Between    *)
(* two polls of a device without BMP, a cached session or neighbour is down    *)
(* exactly when it has an open alert: through failed reads, acknowledgements,  *)
(* cycles cut short by a restart and alerts lost with an unsaved file.         *)
CacheMatchesAlerts ==
  \A d \in Device \ BmpDevice :
    pc[d] = "idle" =>
      /\ \A p \in Peer : cached[d].bgp[p].state # "absent" =>
           (cached[d].bgp[p].state = "down" <=> IsOpenKey(BgpKey(d, p)))
      /\ \A n \in Neighbour : cached[d].ospf[n] # "absent" =>
           (cached[d].ospf[n] = "down" <=> IsOpenKey(OspfKey(d, n)))

(* README: an alert is resolved as soon as the peer or link is normal again.   *)
(* If from some time on the device answers and the session is established, in  *)
(* the end no BGP-down alert of the peer is open: duplicates raised by the      *)
(* collector and the BMP goroutine together are all resolved too.              *)
SessionAlertsResolve ==
  \A d \in Device, p \in Peer :
    (<>[](running /\ reach[d] /\ sess[d][p].state = "established"))
      => <>[]~IsOpenKey(BgpKey(d, p))

(* The same for the prefix rule, which needs two cycles in a row that read the *)
(* peer: it ends with no prefix-drop alert of a peer that sends prefixes.       *)
PrefixAlertsResolve ==
  \A d \in Device, p \in Peer :
    (<>[](running /\ reach[d] /\ sess[d][p].routes))
      => <>[]~IsOpenKey(PrefixKey(d, p))

(* The same for OSPF neighbours.                                               *)
NeighbourAlertsResolve ==
  \A d \in Device, n \in Neighbour :
    (<>[](running /\ reach[d] /\ adj[d][n] = "up"))
      => <>[]~IsOpenKey(OspfKey(d, n))

(* A session that stays down on a device that answers has an open alert in the *)
(* end, and keeps it.                                                          *)
DownIsReportedOn(D) ==
  \A d \in D, p \in Peer :
    (<>[](running /\ reach[d] /\ sess[d][p].state = "down"))
      => <>[]IsOpenKey(BgpKey(d, p))

(* It holds of devices polled by SSH only: what a failed command, a restart or  *)
(* a cycle that judged rows read before the session fell has missed, a later    *)
(* cycle finds.                                                                *)
PolledDownIsReported == DownIsReportedOn(Device \ BmpDevice)

(* README: the engine detects the fall of BGP sessions, on every device.        *)
EveryDownIsReported == DownIsReportedOn(Device)

(* A device that stops answering has an open offline alert in the end, under    *)
(* the name it has then.                                                       *)
OfflineIsReported ==
  \A d \in Device :
    (<>[](running /\ ~reach[d])) => <>[]IsOpenKey(OfflineKey(d, name[d]))

(* A device that answers again has no open offline alert in the end.            *)
OfflineAlertsResolve ==
  \A d \in Device :
    (<>[](running /\ reach[d])) => <>[]~(\E nm \in Name : IsOpenKey(OfflineKey(d, nm)))

=============================================================================
