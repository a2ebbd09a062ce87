-------------------------- MODULE Telemetry_proofs --------------------------
(***************************************************************************)
(* The telemetry engine implements the detector's specification: whatever    *)
(* the collector and the BMP server do, each evaluation they hand over is one *)
(* that the detector's theorems are about.                                  *)
(***************************************************************************)
EXTENDS Telemetry, Detector_proofs

(* The names that the collector's copies of the devices carry.              *)
NamesOK == name \in [Device -> Name] /\ snap \in [Device -> Name]

(* The evaluations that a step may hand to writer w.                        *)
EvaluationsOf(w) == UNION {ChecksOf(w, n) : n \in 1..MaxChecks}

-----------------------------------------------------------------------------

(* Both checks of a key of writer w are checks w can be given.              *)
LEMMA ChecksOfKey ==
  ASSUME NEW w \in Writer, NEW k \in KeysOf[w]
  PROVE  Bad(k) \in ChecksFor(w) /\ Good(k) \in ChecksFor(w)
BY DetectorAssumption DEF Bad, Good, ChecksFor, Check

(* One or two checks of a writer are an evaluation of it.                   *)
LEMMA ShortEvaluations ==
  ASSUME NEW w \in Writer, NEW c \in ChecksFor(w), NEW e \in ChecksFor(w)
  PROVE  <<c>> \in EvaluationsOf(w) /\ <<c, e>> \in EvaluationsOf(w)
<1>1. 1 \in 1..MaxChecks /\ 2 \in 1..MaxChecks
  BY TelemetryAssumption, DetectorAssumption
<1>2. <<c>> \in [1..1 -> ChecksFor(w)] /\ <<c, e>> \in [1..2 -> ChecksFor(w)]
  OBVIOUS
<1> QED
  BY <1>1, <1>2 DEF EvaluationsOf, ChecksOf

(* Each writer evaluates its own keys.                                      *)
LEMMA KeysOfPoller ==
  ASSUME NEW d \in Device
  PROVE  /\ PollWriter(d) \in Writer
         /\ \A nm \in Name : OfflineKey(d, nm) \in KeysOf[PollWriter(d)]
         /\ \A p \in Peer : /\ BgpKey(d, p) \in KeysOf[PollWriter(d)]
                            /\ PrefixKey(d, p) \in KeysOf[PollWriter(d)]
         /\ \A n \in Neighbour : OspfKey(d, n) \in KeysOf[PollWriter(d)]
BY TelemetryAssumption DEF PollKeys

(* The BMP goroutine of a router evaluates its BGP sessions.                *)
LEMMA KeysOfBmp ==
  ASSUME NEW d \in BmpDevice
  PROVE  /\ BmpWriter(d) \in Writer
         /\ \A p \in Peer : BgpKey(d, p) \in KeysOf[BmpWriter(d)]
BY TelemetryAssumption DEF BmpKeys

(* Two sequences of one element make a pair.                                *)
LEMMA PairIsConcat ==
  ASSUME NEW a, NEW b
  PROVE  <<a>> \o <<b>> = <<a, b>>
<1> DEFINE S == {a, b}
<1>1. <<a>> \in Seq(S) /\ <<b>> \in Seq(S) /\ <<a, b>> \in Seq(S)
  OBVIOUS
<1>2. Len(<<a>>) = 1 /\ Len(<<b>>) = 1 /\ Len(<<a, b>>) = 2
  OBVIOUS
<1>3. /\ <<a>> \o <<b>> \in Seq(S)
      /\ Len(<<a>> \o <<b>>) = 2
      /\ \A i \in 1..2 : (<<a>> \o <<b>>)[i] = IF i <= 1 THEN <<a>>[i] ELSE <<b>>[i - 1]
  BY <1>1, <1>2, ConcatProperties
<1>4. \A i \in 1..2 : (<<a>> \o <<b>>)[i] = <<a, b>>[i]
  <2>1. (<<a>> \o <<b>>)[1] = a /\ (<<a>> \o <<b>>)[2] = b
    BY <1>3
  <2> QED
    BY <2>1
<1> QED
  BY <1>1, <1>2, <1>3, <1>4, SeqEqual

(* What the BGP rules give for one session is an evaluation of the poller.  *)
LEMMA SessionEvaluations ==
  ASSUME NEW d \in Device, NEW p \in Peer, NEW prev, NEW row
  PROVE  SessionChecks(d, p, prev, row) \in EvaluationsOf(PollWriter(d))
<1> DEFINE w == PollWriter(d)
           B == Bad(BgpKey(d, p))
           G == Good(BgpKey(d, p))
<1>1. w \in Writer /\ B \in ChecksFor(w) /\ G \in ChecksFor(w)
  BY KeysOfPoller, ChecksOfKey
<1>2. Bad(PrefixKey(d, p)) \in ChecksFor(w) /\ Good(PrefixKey(d, p)) \in ChecksFor(w)
  BY KeysOfPoller, ChecksOfKey
<1>3. PrefixChecks(d, p, prev, row)
        \in {<<>>, <<Bad(PrefixKey(d, p))>>, <<Good(PrefixKey(d, p))>>}
  BY DEF PrefixChecks
<1>4. \A c \in ChecksFor(w) : <<G>> \o <<c>> = <<G, c>>
  BY PairIsConcat
<1>5. <<G>> \o <<>> = <<G>>
  OBVIOUS
<1>6. <<G>> \o PrefixChecks(d, p, prev, row)
        \in {<<G>>, <<G, Bad(PrefixKey(d, p))>>, <<G, Good(PrefixKey(d, p))>>}
  BY <1>2, <1>3, <1>4, <1>5
<1>7. <<G>> \o PrefixChecks(d, p, prev, row) \in EvaluationsOf(w)
  BY <1>1, <1>2, <1>6, ShortEvaluations
<1>8. <<B>> \in EvaluationsOf(w)
  BY <1>1, ShortEvaluations
<1> QED
  BY <1>7, <1>8 DEF SessionChecks

-----------------------------------------------------------------------------

(* Handing over an evaluation is a step of the detector.                    *)
LEMMA EvaluateIsDetectorStep ==
  ASSUME NEW w \in Writer, NEW s \in EvaluationsOf(w), Evaluate(w, s)
  PROVE  DetectorNext
BY DEF EvaluationsOf, DetectorNext

(* Renames and cycles keep names in the inventory's copies.                 *)
LEMMA NamesStep ==
  ASSUME NamesOK, [TelemetryNext]_vars
  PROVE  NamesOK'
<1> USE DEF NamesOK
<1>1. CASE UNCHANGED vars
  BY <1>1 DEF vars, worldVars, pollVars
<1>2. CASE World
  BY <1>2 DEF World, SessionChanges, ReachChanges, AdjacencyChanges, Rename, BmpConnect,
    BmpDisconnect, BmpStats, OperatorAcks, SyslogLine, ProcessDies, worldVars, pollVars
<1>3. CASE BeginCycle \/ EndCycle
  BY <1>3 DEF BeginCycle, EndCycle, worldVars
<1>4. ASSUME NEW d \in Device, PollStep(d) PROVE NamesOK'
  BY <1>4 DEF PollStep, Poll, PollFails, ReadBgp, ReadOspf, EvaluateSession, EvaluateNeighbour,
    PollEnds, worldVars
<1>5. ASSUME NEW d \in BmpDevice, NEW p \in Peer, BmpProcess(d, p) PROVE NamesOK'
  BY <1>5 DEF BmpProcess, worldVars, pollVars
<1>6. ASSUME NEW w \in Writer, RunRules(w) PROVE NamesOK'
  BY <1>6 DEF RunRules, worldVars, pollVars
<1> QED
  BY <1>1, <1>2, <1>3, <1>4, <1>5, <1>6 DEF TelemetryNext

(* Every step of the engine is a step of the detector, or leaves it alone.    *)
LEMMA TelemetryStepIsDetectorStep ==
  ASSUME NamesOK, [TelemetryNext]_vars
  PROVE  [DetectorNext]_detectorVars
<1>1. CASE UNCHANGED vars
  BY <1>1 DEF vars
<1>2. CASE World
  BY <1>2 DEF World, SessionChanges, ReachChanges, AdjacencyChanges, Rename, BmpConnect,
    BmpDisconnect, BmpStats, OperatorAcks, SyslogLine, ProcessDies, DetectorNext
<1>3. CASE BeginCycle \/ EndCycle
  BY <1>3 DEF BeginCycle, EndCycle
<1>4. ASSUME NEW d \in Device, PollStep(d) PROVE [DetectorNext]_detectorVars
  <2>1. CASE Poll(d)
    <3>1. snap[d] \in Name
      BY DEF NamesOK
    <3>2. /\ PollWriter(d) \in Writer
          /\ <<Good(OfflineKey(d, snap[d]))>> \in EvaluationsOf(PollWriter(d))
          /\ <<Bad(OfflineKey(d, snap[d]))>> \in EvaluationsOf(PollWriter(d))
      BY <3>1, KeysOfPoller, ChecksOfKey, ShortEvaluations
    <3> QED
      BY <2>1, <3>2, EvaluateIsDetectorStep DEF Poll
  <2>2. CASE PollFails(d) \/ ReadBgp(d) \/ ReadOspf(d) \/ PollEnds(d)
    BY <2>2 DEF PollFails, ReadBgp, ReadOspf, PollEnds
  <2>3. ASSUME NEW p \in Peer, EvaluateSession(d, p) PROVE DetectorNext
    BY <2>3, KeysOfPoller, SessionEvaluations, EvaluateIsDetectorStep DEF EvaluateSession
  <2>4. ASSUME NEW n \in Neighbour, EvaluateNeighbour(d, n) PROVE DetectorNext
    <3>1. /\ PollWriter(d) \in Writer
          /\ <<Good(OspfKey(d, n))>> \in EvaluationsOf(PollWriter(d))
          /\ <<Bad(OspfKey(d, n))>> \in EvaluationsOf(PollWriter(d))
      BY KeysOfPoller, ChecksOfKey, ShortEvaluations
    <3> QED
      BY <2>4, <3>1, EvaluateIsDetectorStep DEF EvaluateNeighbour
  <2> QED
    BY <1>4, <2>1, <2>2, <2>3, <2>4 DEF PollStep
<1>5. ASSUME NEW d \in BmpDevice, NEW p \in Peer, BmpProcess(d, p)
      PROVE  [DetectorNext]_detectorVars
  <2>1. /\ BmpWriter(d) \in Writer
        /\ <<Good(BgpKey(d, p))>> \in EvaluationsOf(BmpWriter(d))
        /\ <<Bad(BgpKey(d, p))>> \in EvaluationsOf(BmpWriter(d))
    BY KeysOfBmp, ChecksOfKey, ShortEvaluations
  <2>2. \/ Evaluate(BmpWriter(d), <<Good(BgpKey(d, p))>>)
        \/ Evaluate(BmpWriter(d), <<Bad(BgpKey(d, p))>>)
        \/ UNCHANGED detectorVars
    BY <1>5 DEF BmpProcess
  <2> QED
    BY <2>1, <2>2, EvaluateIsDetectorStep
<1>6. ASSUME NEW w \in Writer, RunRules(w) PROVE DetectorNext
  BY <1>6 DEF RunRules, DetectorNext
<1> QED
  BY <1>1, <1>2, <1>3, <1>4, <1>5, <1>6 DEF TelemetryNext

-----------------------------------------------------------------------------

(* The collector and the BMP server use the detector as its specification says: *)
(* every theorem about DetectorSpec is one about the whole engine.              *)
THEOREM TelemetryRefinesDetector == TelemetrySpec => DetectorSpec
<1>1. TelemetryInit => DetectorInit /\ NamesOK
  BY DEF TelemetryInit, NamesOK
<1>2. NamesOK /\ [TelemetryNext]_vars => NamesOK'
  BY NamesStep
<1>3. NamesOK /\ [TelemetryNext]_vars => [DetectorNext]_detectorVars
  BY TelemetryStepIsDetectorStep
<1> QED
  BY <1>1, <1>2, <1>3, PTL DEF TelemetrySpec, DetectorSpec

(* In the engine as in the detector, no condition has more open alerts than the  *)
(* goroutines that evaluate it.                                                 *)
THEOREM TelemetryOpenIsBounded == TelemetrySpec => []OpenBoundedByWriters
BY TelemetryRefinesDetector, OpenIsBounded, PTL

(* The goroutine that polls a device is the only one that evaluates whether it    *)
(* answers, its prefixes and its OSPF neighbours.                              *)
LEMMA PolledKeysHaveOneWriter ==
  ASSUME NEW d \in Device, NEW k \in PollKeys(d), k[2] # "bgp_down"
  PROVE  WritersOf(k) = {PollWriter(d)}
<1>1. k[1] = d
  BY DEF PollKeys, OfflineKey, BgpKey, PrefixKey, OspfKey
<1>2. \A e \in Device : k \in PollKeys(e) => e = d
  BY <1>1 DEF PollKeys, OfflineKey, BgpKey, PrefixKey, OspfKey
<1>3. \A e \in BmpDevice : k \notin BmpKeys(e)
  BY DEF BmpKeys, BgpKey
<1>4. PollWriter(d) \in Writer /\ k \in KeysOf[PollWriter(d)]
  BY TelemetryAssumption
<1>5. ASSUME NEW w \in Writer, k \in KeysOf[w]
      PROVE  w = PollWriter(d)
  <2>1. CASE \E e \in Device : w = PollWriter(e)
    BY <1>2, <1>5, <2>1, TelemetryAssumption
  <2>2. CASE \E e \in BmpDevice : w = BmpWriter(e)
    BY <1>3, <1>5, <2>2, TelemetryAssumption
  <2> QED
    BY <2>1, <2>2, TelemetryAssumption
<1> QED
  BY <1>4, <1>5 DEF WritersOf

(* What a test of one goroutine cannot show: through restarts, lost saves and     *)
(* acknowledgements a device has at most one open offline alert of its name,      *)
(* one prefix-drop alert of a peer and one alert of an OSPF neighbour.            *)
THEOREM PolledAlertsAreUnique ==
  TelemetrySpec => [](\A d \in Device : \A k \in PollKeys(d) :
    k[2] # "bgp_down" => Cardinality(OpenIn(alerts, k)) <= 1)
<1>1. ASSUME OpenBoundedByWriters, NEW d \in Device, NEW k \in PollKeys(d), k[2] # "bgp_down"
      PROVE  Cardinality(OpenIn(alerts, k)) <= 1
  <2>1. k \in Key \ SyslogKey
    BY KeysOfPoller, TelemetryAssumption, DetectorAssumption
  <2>2. Cardinality(WritersOf(k)) = 1
    BY <1>1, PolledKeysHaveOneWriter, FS_Singleton
  <2> QED
    BY <1>1, <2>1, <2>2 DEF OpenBoundedByWriters
<1>2. OpenBoundedByWriters =>
        \A d \in Device : \A k \in PollKeys(d) :
          k[2] # "bgp_down" => Cardinality(OpenIn(alerts, k)) <= 1
  BY <1>1
<1> QED
  BY <1>2, TelemetryOpenIsBounded, PTL

-----------------------------------------------------------------------------
(* Types *)

WorldTypeOK ==
  /\ reach \in [Device -> BOOLEAN]
  /\ sess \in [Device -> [Peer -> Row]]
  /\ adj \in [Device -> [Neighbour -> {"up", "down"}]]
  /\ name \in [Device -> Name]
  /\ changes \in [flaps : 0..MaxFlaps, edits : 0..MaxEdits]

BmpTypeOK ==
  /\ bmpUp \in [BmpDevice -> BOOLEAN]
  /\ wire \in [BmpDevice -> [Peer -> Seq(BmpMessage)]]
  /\ peers \in [BmpDevice -> [Peer -> BmpPeer]]

PollTypeOK ==
  /\ cycling \in BOOLEAN
  /\ queue \in SUBSET Device
  /\ pc \in [Device -> {"idle", "offline", "online", "ospf", "detect"}]
  /\ snap \in [Device -> Name]
  /\ cur \in [Device -> View]
  /\ left \in [Device -> SUBSET (Peer \cup Neighbour)]
  /\ cached \in [Device -> View]
  /\ \A d \in Device : pc[d] \in {"idle", "offline", "online"} => left[d] = {}

EngineTypeOK == WorldTypeOK /\ BmpTypeOK /\ PollTypeOK

(* The engine starts with values of the right kinds.                        *)
LEMMA EngineInitTyped ==
  ASSUME TelemetryInit
  PROVE  EngineTypeOK
<1> USE DEF TelemetryInit
<1>1. WorldTypeOK
  <2>1. 0 \in 0..MaxFlaps /\ 0 \in 0..MaxEdits
    BY TelemetryAssumption
  <2> QED
    BY <2>1 DEF WorldTypeOK, Row
<1>2. BmpTypeOK
  <2>1. <<>> \in Seq(BmpMessage)
    BY EmptySeq
  <2>2. NoBmpPeer \in BmpPeer
    BY DEF NoBmpPeer, BmpPeer
  <2> QED
    BY <2>1, <2>2 DEF BmpTypeOK
<1>3. NoView \in View
  BY DEF NoView, View, NoBgp, NoOspf, Absent, Row
<1>4. PollTypeOK
  BY <1>3 DEF PollTypeOK
<1> QED
  BY <1>1, <1>2, <1>4 DEF EngineTypeOK

(* A network change is counted, and no more of them happen than the bound.  *)
LEMMA FlapTyped ==
  ASSUME WorldTypeOK, Flap
  PROVE  changes' \in [flaps : 0..MaxFlaps, edits : 0..MaxEdits]
<1>1. changes.flaps \in 0..MaxFlaps /\ changes.flaps < MaxFlaps /\ MaxFlaps \in Nat
  BY TelemetryAssumption DEF WorldTypeOK, Flap
<1>2. changes.flaps + 1 \in 0..MaxFlaps
  BY <1>1
<1> QED
  BY <1>2 DEF WorldTypeOK, Flap

(* The network stays in the states it can be in.                            *)
LEMMA WorldStaysTyped ==
  ASSUME WorldTypeOK, [TelemetryNext]_vars
  PROVE  WorldTypeOK'
<1>1. CASE UNCHANGED worldVars
  BY <1>1 DEF worldVars, WorldTypeOK
<1>2. ASSUME NEW d \in Device, NEW p \in Peer, SessionChanges(d, p) PROVE WorldTypeOK'
  <2>1. PICK s \in SessionStep(sess[d][p]) : sess' = [sess EXCEPT ![d][p] = s]
    BY <1>2 DEF SessionChanges
  <2>2. sess[d][p] \in Row
    BY DEF WorldTypeOK
  <2>3. s \in Row
    <3>1. \A flag \in BOOLEAN : [state |-> "established", routes |-> flag] \in Row
      BY DEF Row
    <3>2. [state |-> "down", routes |-> FALSE] \in Row
      BY DEF Row
    <3>3. (~sess[d][p].routes) \in BOOLEAN
      OBVIOUS
    <3> QED
      BY <3>1, <3>2, <3>3, Zenon DEF SessionStep
  <2>4. sess' \in [Device -> [Peer -> Row]]
    BY <2>1, <2>3 DEF WorldTypeOK
  <2> QED
    BY <1>2, <2>4, FlapTyped DEF SessionChanges, WorldTypeOK
<1>3. ASSUME NEW d \in Device, ReachChanges(d) PROVE WorldTypeOK'
  <2>1. reach' \in [Device -> BOOLEAN]
    BY <1>3 DEF ReachChanges, WorldTypeOK
  <2> QED
    BY <1>3, <2>1, FlapTyped DEF ReachChanges, WorldTypeOK
<1>4. ASSUME NEW d \in Device, NEW n \in Neighbour, AdjacencyChanges(d, n) PROVE WorldTypeOK'
  <2>1. adj' \in [Device -> [Neighbour -> {"up", "down"}]]
    BY <1>4 DEF AdjacencyChanges, WorldTypeOK
  <2> QED
    BY <1>4, <2>1, FlapTyped DEF AdjacencyChanges, WorldTypeOK
<1>5. ASSUME NEW d \in Device, NEW nm \in Name, Rename(d, nm) PROVE WorldTypeOK'
  <2>1. changes.edits \in 0..MaxEdits /\ changes.edits < MaxEdits /\ MaxEdits \in Nat
    BY <1>5, TelemetryAssumption DEF WorldTypeOK, Rename
  <2>2. changes.edits + 1 \in 0..MaxEdits
    BY <2>1
  <2>3. changes' \in [flaps : 0..MaxFlaps, edits : 0..MaxEdits]
    BY <1>5, <2>2 DEF Rename, WorldTypeOK
  <2> QED
    BY <1>5, <2>3 DEF Rename, WorldTypeOK
<1>6. ASSUME NEW d \in BmpDevice, BmpConnect(d) \/ BmpDisconnect(d) PROVE WorldTypeOK'
  BY <1>6, FlapTyped DEF BmpConnect, BmpDisconnect, WorldTypeOK
<1>7. ASSUME NEW d \in BmpDevice, NEW p \in Peer, BmpStats(d, p) PROVE WorldTypeOK'
  BY <1>7, FlapTyped DEF BmpStats, WorldTypeOK
<1>8. CASE World
  BY <1>1, <1>2, <1>3, <1>4, <1>5, <1>6, <1>7, <1>8
    DEF World, OperatorAcks, SyslogLine, ProcessDies
<1>9. ASSUME NEW d \in Device, ReadBgp(d) \/ ReadOspf(d) PROVE WorldTypeOK'
  <2>1. Flap \/ UNCHANGED changes
    BY <1>9 DEF ReadBgp, ReadOspf, CommandYields
  <2> QED
    BY <1>9, <2>1, FlapTyped DEF ReadBgp, ReadOspf, WorldTypeOK
<1>10. ASSUME NEW d \in Device, PollStep(d) PROVE WorldTypeOK'
  BY <1>1, <1>9, <1>10
    DEF PollStep, Poll, PollFails, EvaluateSession, EvaluateNeighbour, PollEnds
<1>11. CASE BeginCycle \/ EndCycle
  BY <1>1, <1>11 DEF BeginCycle, EndCycle
<1>12. ASSUME NEW d \in BmpDevice, NEW p \in Peer, BmpProcess(d, p) PROVE WorldTypeOK'
  BY <1>1, <1>12 DEF BmpProcess
<1>13. ASSUME NEW w \in Writer, RunRules(w) PROVE WorldTypeOK'
  BY <1>1, <1>13 DEF RunRules
<1>14. CASE UNCHANGED vars
  BY <1>1, <1>14 DEF vars
<1> QED
  BY <1>8, <1>10, <1>11, <1>12, <1>13, <1>14 DEF TelemetryNext

(* Whatever message arrives, a peer of the table stays one.                 *)
LEMMA AfterMessageTyped ==
  ASSUME NEW b \in BmpPeer, NEW m \in BmpMessage
  PROVE  AfterMessage(b, m) \in BmpPeer
<1> DEFINE known == IF b.state = "absent" THEN "established" ELSE b.state
<1>1. b.state \in {"absent", "established", "down"} /\ b.prefixes \in Nat
  BY DEF BmpPeer
<1>2. known \in {"absent", "established", "down"}
  BY <1>1
<1>3. b.prefixes + 1 \in Nat /\ (b.prefixes # 0 => b.prefixes - 1 \in Nat)
  BY <1>1
<1>4. CASE m = "peer_up"
  BY <1>4 DEF AfterMessage, BmpPeer
<1>5. CASE m = "peer_down"
  BY <1>5 DEF AfterMessage, BmpPeer
<1>6. CASE m = "announce"
  <2>1. AfterMessage(b, m) = [state |-> known, prefixes |-> b.prefixes + 1]
    BY <1>6 DEF AfterMessage
  <2> QED
    BY <1>2, <1>3, <2>1 DEF BmpPeer
<1>7. CASE m = "withdraw"
  <2> DEFINE fewer == IF b.prefixes = 0 THEN 0 ELSE b.prefixes - 1
  <2>1. AfterMessage(b, m) = [state |-> known, prefixes |-> fewer]
    BY <1>7 DEF AfterMessage
  <2>2. fewer \in Nat
    BY <1>3
  <2> QED
    BY <1>2, <2>1, <2>2 DEF BmpPeer
<1>8. CASE m = "stats"
  BY <1>8 DEF AfterMessage, BmpPeer
<1> QED
  BY <1>4, <1>5, <1>6, <1>7, <1>8 DEF BmpMessage

(* The BMP server's table and the messages on their way keep their types.   *)
LEMMA BmpStaysTyped ==
  ASSUME WorldTypeOK, BmpTypeOK, [TelemetryNext]_vars
  PROVE  BmpTypeOK'
<1>0. /\ bmpUp \in [BmpDevice -> BOOLEAN]
      /\ wire \in [BmpDevice -> [Peer -> Seq(BmpMessage)]]
      /\ peers \in [BmpDevice -> [Peer -> BmpPeer]]
  BY DEF BmpTypeOK
<1>1. CASE UNCHANGED bmpVars
  BY <1>1 DEF bmpVars, BmpTypeOK
<1>2. ASSUME NEW d \in BmpDevice, NEW p \in Peer, NEW m \in BmpMessage,
             wire' = [wire EXCEPT ![d][p] = Append(@, m)]
      PROVE  wire' \in [BmpDevice -> [Peer -> Seq(BmpMessage)]]
  <2>1. Append(wire[d][p], m) \in Seq(BmpMessage)
    BY <1>0, AppendProperties
  <2> QED
    BY <1>0, <1>2, <2>1
<1>3. ASSUME NEW d \in Device, NEW p \in Peer, SessionChanges(d, p) PROVE BmpTypeOK'
  <2>1. PICK s \in SessionStep(sess[d][p]) :
          IF d \in BmpDevice /\ bmpUp[d]
          THEN wire' = [wire EXCEPT ![d][p] = Append(@, Message(sess[d][p], s))]
          ELSE UNCHANGED wire
    BY <1>3 DEF SessionChanges
  <2>2. Message(sess[d][p], s) \in BmpMessage
    BY DEF Message, BmpMessage
  <2>3. wire' \in [BmpDevice -> [Peer -> Seq(BmpMessage)]]
    BY <1>0, <1>2, <2>1, <2>2
  <2> QED
    BY <1>0, <1>3, <2>3 DEF SessionChanges, BmpTypeOK
<1>4. ASSUME NEW d \in BmpDevice, BmpConnect(d) PROVE BmpTypeOK'
  <2> DEFINE first(p) == IF sess[d][p].state = "down" THEN <<>>
                         ELSE IF sess[d][p].routes THEN <<"peer_up", "announce">>
                         ELSE <<"peer_up">>
  <2>1. \A p \in Peer : first(p) \in Seq(BmpMessage)
    <3>1. "peer_up" \in BmpMessage /\ "announce" \in BmpMessage
      BY DEF BmpMessage
    <3>2. <<>> \in Seq(BmpMessage) /\ <<"peer_up">> \in Seq(BmpMessage)
          /\ <<"peer_up", "announce">> \in Seq(BmpMessage)
      BY <3>1, EmptySeq
    <3> QED
      BY <3>2
  <2>2. wire' = [wire EXCEPT ![d] = [p \in Peer |-> first(p)]]
    BY <1>4 DEF BmpConnect
  <2>3. [p \in Peer |-> first(p)] \in [Peer -> Seq(BmpMessage)]
    BY <2>1
  <2>4. wire' \in [BmpDevice -> [Peer -> Seq(BmpMessage)]]
    BY <1>0, <2>2, <2>3
  <2> QED
    BY <1>0, <1>4, <2>4 DEF BmpConnect, BmpTypeOK
<1>5. ASSUME NEW d \in BmpDevice, BmpDisconnect(d) PROVE BmpTypeOK'
  <2>1. [p \in Peer |-> <<>>] \in [Peer -> Seq(BmpMessage)]
    BY EmptySeq
  <2>2. wire' \in [BmpDevice -> [Peer -> Seq(BmpMessage)]]
    BY <1>0, <1>5, <2>1 DEF BmpDisconnect
  <2> QED
    BY <1>0, <1>5, <2>2 DEF BmpDisconnect, BmpTypeOK
<1>6. ASSUME NEW d \in BmpDevice, NEW p \in Peer, BmpStats(d, p) PROVE BmpTypeOK'
  <2>1. "stats" \in BmpMessage
    BY DEF BmpMessage
  <2>2. wire' \in [BmpDevice -> [Peer -> Seq(BmpMessage)]]
    BY <1>2, <1>6, <2>1 DEF BmpStats
  <2> QED
    BY <1>0, <1>6, <2>2 DEF BmpStats, BmpTypeOK
<1>7. CASE ProcessDies
  <2>1. <<>> \in Seq(BmpMessage) /\ NoBmpPeer \in BmpPeer
    BY EmptySeq DEF NoBmpPeer, BmpPeer
  <2> QED
    BY <1>7, <2>1 DEF ProcessDies, BmpTypeOK
<1>8. CASE World
  BY <1>1, <1>3, <1>4, <1>5, <1>6, <1>7, <1>8
    DEF World, ReachChanges, AdjacencyChanges, Rename, OperatorAcks, SyslogLine
<1>9. ASSUME NEW d \in BmpDevice, NEW p \in Peer, BmpProcess(d, p) PROVE BmpTypeOK'
  <2> DEFINE m == Head(wire[d][p])
  <2>1. wire[d][p] \in Seq(BmpMessage) /\ wire[d][p] # <<>>
    BY <1>0, <1>9 DEF BmpProcess
  <2>2. m \in BmpMessage /\ Tail(wire[d][p]) \in Seq(BmpMessage)
    BY <2>1, HeadTailProperties
  <2>3. AfterMessage(peers[d][p], m) \in BmpPeer
    BY <1>0, <2>2, AfterMessageTyped
  <2>4. peers' = [peers EXCEPT ![d][p] = AfterMessage(@, m)]
        /\ wire' = [wire EXCEPT ![d][p] = Tail(@)] /\ bmpUp' = bmpUp
    BY <1>9 DEF BmpProcess
  <2> HIDE DEF m
  <2>5. peers' \in [BmpDevice -> [Peer -> BmpPeer]]
    BY <1>0, <2>3, <2>4
  <2>6. wire' \in [BmpDevice -> [Peer -> Seq(BmpMessage)]]
    BY <1>0, <2>2, <2>4
  <2> QED
    BY <1>0, <2>4, <2>5, <2>6 DEF BmpTypeOK
<1>10. ASSUME NEW d \in Device, PollStep(d) PROVE BmpTypeOK'
  BY <1>1, <1>10
    DEF PollStep, Poll, PollFails, ReadBgp, ReadOspf, EvaluateSession, EvaluateNeighbour, PollEnds
<1>11. CASE BeginCycle \/ EndCycle
  BY <1>1, <1>11 DEF BeginCycle, EndCycle
<1>12. ASSUME NEW w \in Writer, RunRules(w) PROVE BmpTypeOK'
  BY <1>1, <1>12 DEF RunRules
<1>13. CASE UNCHANGED vars
  BY <1>1, <1>13 DEF vars
<1> QED
  BY <1>8, <1>9, <1>10, <1>11, <1>12, <1>13 DEF TelemetryNext

(* A device that waits for its turn in a cycle has no goroutine yet, and     *)
(* between two cycles no device has one.                                    *)
CycleOK ==
  /\ \A d \in queue : pc[d] = "idle"
  /\ ~cycling => queue = {} /\ \A d \in Device : pc[d] = "idle"

(* Cycles do not overlap.                                                   *)
LEMMA CyclesDoNotOverlap ==
  ASSUME PollTypeOK, CycleOK, [TelemetryNext]_vars
  PROVE  CycleOK'
<1>0. /\ queue \in SUBSET Device
      /\ pc \in [Device -> {"idle", "offline", "online", "ospf", "detect"}]
  BY DEF PollTypeOK
<1>1. CASE UNCHANGED pollVars
  BY <1>1 DEF pollVars, CycleOK
<1>2. CASE World
  BY <1>1, <1>2 DEF World, SessionChanges, ReachChanges, AdjacencyChanges, Rename,
    BmpConnect, BmpDisconnect, BmpStats, OperatorAcks, SyslogLine, ProcessDies, CycleOK
<1>3. CASE BeginCycle
  BY <1>3 DEF BeginCycle, CycleOK
<1>4. CASE EndCycle
  BY <1>4 DEF EndCycle, CycleOK, Busy
<1>5. ASSUME NEW d \in Device, Poll(d) PROVE CycleOK'
  <2>1. cycling' = cycling /\ queue' = queue \ {d} /\ d \in queue
    BY <1>5 DEF Poll
  <2>2. \A e \in Device \ {d} : pc'[e] = pc[e]
    BY <1>0, <1>5 DEF Poll
  <2> QED
    BY <1>0, <2>1, <2>2 DEF CycleOK
<1>6. ASSUME NEW d \in Device, ReadBgp(d) \/ ReadOspf(d) \/ PollFails(d) \/ PollEnds(d)
      PROVE  CycleOK'
  <2>1. cycling' = cycling /\ queue' = queue /\ pc[d] # "idle"
    BY <1>6 DEF ReadBgp, ReadOspf, PollFails, PollEnds
  <2>2. \A e \in Device \ {d} : pc'[e] = pc[e]
    BY <1>0, <1>6 DEF ReadBgp, ReadOspf, PollFails, PollEnds
  <2> QED
    BY <1>0, <2>1, <2>2 DEF CycleOK
<1>7. ASSUME NEW d \in Device, PollStep(d) PROVE CycleOK'
  <2>1. ASSUME NEW p \in Peer, EvaluateSession(d, p) PROVE CycleOK'
    BY <2>1 DEF EvaluateSession, CycleOK
  <2>2. ASSUME NEW n \in Neighbour, EvaluateNeighbour(d, n) PROVE CycleOK'
    BY <2>2 DEF EvaluateNeighbour, CycleOK
  <2> QED
    BY <1>5, <1>6, <1>7, <2>1, <2>2 DEF PollStep
<1>8. ASSUME NEW d \in BmpDevice, NEW p \in Peer, BmpProcess(d, p) PROVE CycleOK'
  BY <1>1, <1>8 DEF BmpProcess
<1>9. ASSUME NEW w \in Writer, RunRules(w) PROVE CycleOK'
  BY <1>1, <1>9 DEF RunRules
<1>10. CASE UNCHANGED vars
  BY <1>1, <1>10 DEF vars
<1> QED
  BY <1>2, <1>3, <1>4, <1>7, <1>8, <1>9, <1>10 DEF TelemetryNext

(* The rows the collector gets, by SSH or from the BMP table, are rows.     *)
LEMMA RowsTyped ==
  ASSUME WorldTypeOK, BmpTypeOK, NEW d \in Device,
         NEW rows \in {NoBgp, sess[d]} \cup {BmpRows(x) : x \in BmpDevice \cap {d}}
  PROVE  rows \in [Peer -> Row]
<1>1. NoBgp \in [Peer -> Row] /\ sess[d] \in [Peer -> Row]
  BY DEF NoBgp, Absent, Row, WorldTypeOK
<1>2. ASSUME d \in BmpDevice PROVE BmpRows(d) \in [Peer -> Row]
  <2>1. \A p \in Peer : peers[d][p] \in BmpPeer
    BY <1>2 DEF BmpTypeOK
  <2>2. \A p \in Peer : /\ peers[d][p].state \in {"absent", "established", "down"}
                        /\ (peers[d][p].prefixes > 0) \in BOOLEAN
    BY <2>1 DEF BmpPeer
  <2> QED
    BY <2>2 DEF BmpRows, Row
<1> QED
  BY <1>1, <1>2

(* The collector's goroutines, their rows and the cache keep their types.   *)
LEMMA PollStaysTyped ==
  ASSUME EngineTypeOK, CycleOK, [TelemetryNext]_vars
  PROVE  PollTypeOK'
<1> USE DEF EngineTypeOK
<1>0. /\ cycling \in BOOLEAN
      /\ queue \in SUBSET Device
      /\ pc \in [Device -> {"idle", "offline", "online", "ospf", "detect"}]
      /\ snap \in [Device -> Name]
      /\ cur \in [Device -> View]
      /\ left \in [Device -> SUBSET (Peer \cup Neighbour)]
      /\ cached \in [Device -> View]
      /\ \A d \in Device : pc[d] \in {"idle", "offline", "online"} => left[d] = {}
  BY DEF PollTypeOK
<1>1. CASE UNCHANGED pollVars
  BY <1>0, <1>1 DEF pollVars, PollTypeOK
<1>2. NoView \in View
  BY DEF NoView, View, NoBgp, NoOspf, Absent, Row
<1>3. CASE ProcessDies
  BY <1>2, <1>3 DEF ProcessDies, PollTypeOK, WorldTypeOK
<1>4. CASE World
  BY <1>1, <1>3, <1>4 DEF World, SessionChanges, ReachChanges, AdjacencyChanges, Rename,
    BmpConnect, BmpDisconnect, BmpStats, OperatorAcks, SyslogLine
<1>5. CASE BeginCycle \/ EndCycle
  BY <1>0, <1>5 DEF BeginCycle, EndCycle, PollTypeOK, WorldTypeOK
<1>6. ASSUME NEW d \in Device, Poll(d) PROVE PollTypeOK'
  <2>1. pc' = [pc EXCEPT ![d] = "online"] \/ pc' = [pc EXCEPT ![d] = "offline"]
    BY <1>6 DEF Poll
  <2>2. UNCHANGED <<cycling, snap, cur, left, cached>> /\ queue' = queue \ {d}
    BY <1>6 DEF Poll
  <2>3. left[d] = {}
    BY <1>0, <1>6 DEF Poll, CycleOK
  <2> QED
    BY <1>0, <2>1, <2>2, <2>3 DEF PollTypeOK
<1>7. ASSUME NEW d \in Device, PollFails(d) PROVE PollTypeOK'
  BY <1>0, <1>7 DEF PollFails, PollTypeOK
<1>8. ASSUME NEW d \in Device, ReadBgp(d) PROVE PollTypeOK'
  <2>1. PICK rows \in {NoBgp, sess[d]} \cup {BmpRows(x) : x \in BmpDevice \cap {d}} :
          /\ cur' = [cur EXCEPT ![d].bgp = rows]
          /\ left' = [left EXCEPT ![d] = {p \in Peer : rows[p].state # "absent"}]
    BY <1>8 DEF ReadBgp
  <2>2. rows \in [Peer -> Row]
    BY RowsTyped
  <2>3. cur' \in [Device -> View]
    <3>1. cur[d] \in View
      BY <1>0
    <3>2. [cur[d] EXCEPT !.bgp = rows] \in View
      BY <2>2, <3>1 DEF View
    <3> QED
      BY <1>0, <2>1, <3>2
  <2>4. left' \in [Device -> SUBSET (Peer \cup Neighbour)]
    BY <1>0, <2>1
  <2>5. pc' = [pc EXCEPT ![d] = "ospf"] /\ UNCHANGED <<cycling, queue, snap, cached>>
    BY <1>8 DEF ReadBgp
  <2>6. \A e \in Device \ {d} : left'[e] = left[e] /\ pc'[e] = pc[e]
    BY <1>0, <2>1, <2>5
  <2>7. \A e \in Device : pc'[e] \in {"idle", "offline", "online"} => left'[e] = {}
    BY <1>0, <2>5, <2>6
  <2> QED
    BY <1>0, <2>3, <2>4, <2>5, <2>7 DEF PollTypeOK
<1>9. ASSUME NEW d \in Device, ReadOspf(d) PROVE PollTypeOK'
  <2>1. PICK rows \in {NoOspf, adj[d]} :
          /\ cur' = [cur EXCEPT ![d].ospf = rows]
          /\ left' = [left EXCEPT ![d] = @ \cup {n \in Neighbour : rows[n] # "absent"}]
    BY <1>9 DEF ReadOspf
  <2>2. rows \in [Neighbour -> {"absent", "up", "down"}]
    BY DEF NoOspf, WorldTypeOK
  <2>3. cur' \in [Device -> View]
    <3>1. cur[d] \in View
      BY <1>0
    <3>2. [cur[d] EXCEPT !.ospf = rows] \in View
      BY <2>2, <3>1 DEF View
    <3> QED
      BY <1>0, <2>1, <3>2
  <2>4. left' \in [Device -> SUBSET (Peer \cup Neighbour)]
    BY <1>0, <2>1
  <2>5. pc' = [pc EXCEPT ![d] = "detect"] /\ UNCHANGED <<cycling, queue, snap, cached>>
    BY <1>9 DEF ReadOspf
  <2>6. \A e \in Device \ {d} : left'[e] = left[e] /\ pc'[e] = pc[e]
    BY <1>0, <2>1, <2>5
  <2>7. \A e \in Device : pc'[e] \in {"idle", "offline", "online"} => left'[e] = {}
    BY <1>0, <2>5, <2>6
  <2> QED
    BY <1>0, <2>3, <2>4, <2>5, <2>7 DEF PollTypeOK
<1>10. ASSUME NEW d \in Device, NEW x, left' = [left EXCEPT ![d] = @ \ {x}],
              UNCHANGED <<cycling, queue, pc, snap, cur, cached>>
       PROVE  PollTypeOK'
  BY <1>0, <1>10 DEF PollTypeOK
<1>11. ASSUME NEW d \in Device, PollEnds(d) PROVE PollTypeOK'
  BY <1>0, <1>2, <1>11 DEF PollEnds, PollTypeOK
<1>12. ASSUME NEW d \in Device, PollStep(d) PROVE PollTypeOK'
  BY <1>6, <1>7, <1>8, <1>9, <1>10, <1>11, <1>12 DEF PollStep, EvaluateSession, EvaluateNeighbour
<1>13. ASSUME NEW d \in BmpDevice, NEW p \in Peer, BmpProcess(d, p) PROVE PollTypeOK'
  BY <1>1, <1>13 DEF BmpProcess
<1>14. ASSUME NEW w \in Writer, RunRules(w) PROVE PollTypeOK'
  BY <1>1, <1>14 DEF RunRules
<1>15. CASE UNCHANGED vars
  BY <1>1, <1>15 DEF vars
<1> QED
  BY <1>4, <1>5, <1>12, <1>13, <1>14, <1>15 DEF TelemetryNext

(* Types of the engine together with the order of its cycles.               *)
EngineInv == EngineTypeOK /\ CycleOK

(* It holds at the start and after every step.                              *)
LEMMA EngineInvariant == TelemetrySpec => []EngineInv
<1>1. TelemetryInit => EngineInv
  BY EngineInitTyped DEF EngineInv, TelemetryInit, CycleOK
<1>2. EngineInv /\ [TelemetryNext]_vars => EngineInv'
  BY WorldStaysTyped, BmpStaysTyped, PollStaysTyped, CyclesDoNotOverlap
    DEF EngineInv, EngineTypeOK
<1> QED
  BY <1>1, <1>2, PTL DEF TelemetrySpec

(* Network, BMP table, goroutines, caches and alerts keep their types, and a     *)
(* goroutine outside its evaluations has no row left to evaluate.               *)
THEOREM TelemetryTypeCorrect == TelemetrySpec => []TelemetryTypeOK
<1>1. EngineInv /\ DetectorTypeOK => TelemetryTypeOK
  BY DEF EngineInv, EngineTypeOK, WorldTypeOK, BmpTypeOK, PollTypeOK, TelemetryTypeOK
<1> QED
  BY <1>1, EngineInvariant, TelemetryRefinesDetector, DetectorTypeCorrect, PTL

-----------------------------------------------------------------------------
(* Alerts after an operation of the store *)

(* A new alert is one more open alert of its key.                           *)
LEMMA OpenAfterAdd ==
  ASSUME StoreInv, NEW key \in Key, AddAlert(key), NEW k
  PROVE  OpenIn(alerts', k) = IF k = key THEN OpenIn(alerts, k) \cup {lastId + 1}
                                         ELSE OpenIn(alerts, k)
<1> DEFINE id == lastId + 1
<1>1. id \in AlertId /\ alerts[id] = NoAlert
  BY AddAlertInv
<1>2. alerts \in AlertTable
      /\ alerts' = [alerts EXCEPT ![id] = [key |-> key, status |-> "active", acked |-> FALSE]]
  BY DEF AddAlert, StoreInv, StoreTypeOK
<1> QED
  BY <1>1, <1>2 DEF OpenIn, IsOpen, AlertTable, NoAlert

(* A resolved alert is not open.                                            *)
LEMMA OpenAfterResolve ==
  ASSUME StoreInv, NEW i \in AlertId, ResolveAlert(i), NEW k
  PROVE  OpenIn(alerts', k) = OpenIn(alerts, k) \ {i}
<1>1. alerts \in AlertTable /\ alerts' = [alerts EXCEPT ![i].status = "resolved"]
  BY DEF ResolveAlert, StoreInv, StoreTypeOK
<1> QED
  BY <1>1 DEF OpenIn, IsOpen, AlertTable, Alert

(* An acknowledgement opens and closes nothing.                             *)
LEMMA OpenAfterAcknowledge ==
  ASSUME StoreInv, NEW i \in AlertId, AcknowledgeAlert(i), NEW k
  PROVE  OpenIn(alerts', k) = OpenIn(alerts, k)
<1> DEFINE status == IF alerts[i].status = "active" THEN "acknowledged" ELSE alerts[i].status
<1>1. alerts \in AlertTable
      /\ alerts' = [alerts EXCEPT ![i] =
                      [key |-> alerts[i].key, status |-> status, acked |-> TRUE]]
  BY DEF AcknowledgeAlert, StoreInv, StoreTypeOK
<1>2. \A j \in AlertId : alerts'[j].key = alerts[j].key
  BY <1>1 DEF AlertTable
<1>3. \A j \in AlertId : IsOpen(alerts'[j]) <=> IsOpen(alerts[j])
  BY <1>1 DEF AlertTable, IsOpen
<1> QED
  BY <1>2, <1>3 DEF OpenIn

(* What a goroutine has decided stands until it acts: it raises for a bad    *)
(* check, it resolves for a good one, and where it is the only one to        *)
(* evaluate the key, the alert it found is still open.                       *)
DecisionsStand ==
  \A w \in Writer :
    /\ act[w] = "raise" => Head(work[w]).bad = TRUE
    /\ act[w] = "resolve" =>
         /\ Head(work[w]).bad = FALSE
         /\ WritersOf(Head(work[w]).key) = {w} => hit[w] \in OpenIn(alerts, Head(work[w]).key)

(* The check a goroutine is at is one of its own.                           *)
LEMMA HeadIsOwn ==
  ASSUME DetectorInv, NEW w \in Writer, work[w] # <<>>
  PROVE  /\ Head(work[w]) \in ChecksFor(w)
         /\ Head(work[w]).key \in KeysOf[w] /\ Head(work[w]).bad \in BOOLEAN
         /\ w \in WritersOf(Head(work[w]).key)
         /\ Head(work[w]).key \in Key
<1>1. work[w] \in Seq(ChecksFor(w))
  BY DEF DetectorInv, WorkOK
<1>2. Head(work[w]) \in ChecksFor(w)
  BY <1>1, HeadTailProperties
<1> QED
  BY <1>2 DEF ChecksFor, Check, WritersOf

(* Decisions stand through every step of the detector.                      *)
LEMMA DecisionsStandStep ==
  ASSUME DetectorInv, DecisionsStand, [DetectorNext]_detectorVars
  PROVE  DecisionsStand'
<1>0. /\ work \in [Writer -> Seq(Check)]
      /\ act \in [Writer -> {"none", "raise", "resolve"}]
      /\ hit \in [Writer -> 0..MaxAlerts]
      /\ StoreInv /\ WorkOK /\ HitStaysValid
  BY DEF DetectorInv, DetectorTypeOK
<1>1. ASSUME NEW v \in Writer, NEW s, Evaluate(v, s) PROVE DecisionsStand'
  <2>1. act[v] = "none"
    BY <1>0, <1>1 DEF WorkOK, Evaluate
  <2>2. alerts' = alerts /\ act' = act /\ hit' = hit
    BY <1>1 DEF Evaluate, storeVars
  <2>3. \A w \in Writer \ {v} : work'[w] = work[w]
    BY <1>0, <1>1 DEF Evaluate
  <2> QED
    BY <2>1, <2>2, <2>3 DEF DecisionsStand, OpenIn
<1>2. ASSUME NEW v \in Writer, Look(v) PROVE DecisionsStand'
  <2> DEFINE c == Head(work[v])
  <2>1. alerts' = alerts /\ act[v] = "none" /\ work[v] # <<>>
    BY <1>2 DEF Look, storeVars
  <2>2. \A w \in Writer \ {v} : work'[w] = work[w] /\ act'[w] = act[w] /\ hit'[w] = hit[w]
    BY <1>0, <1>2 DEF Look
  <2>3. c.bad \in BOOLEAN
    BY <2>1, HeadIsOwn
  <2>4. \/ act'[v] = "raise" /\ work'[v] = work[v] /\ c.bad
        \/ /\ act'[v] = "resolve" /\ work'[v] = work[v] /\ ~c.bad
           /\ hit'[v] \in OpenIn(alerts, c.key)
        \/ act'[v] = "none"
    BY <1>0, <1>2 DEF Look, FindActiveAlert
  <2>5. ASSUME NEW w \in Writer
        PROVE  /\ act'[w] = "raise" => Head(work'[w]).bad = TRUE
               /\ act'[w] = "resolve" =>
                    /\ Head(work'[w]).bad = FALSE
                    /\ WritersOf(Head(work'[w]).key) = {w} => hit'[w] \in OpenIn(alerts', Head(work'[w]).key)
    <3>1. CASE w = v
      BY <2>1, <2>3, <2>4, <3>1
    <3>2. CASE w # v
      BY <2>1, <2>2, <3>2 DEF DecisionsStand
    <3> QED
      BY <3>1, <3>2
  <2> QED
    BY <2>5 DEF DecisionsStand, OpenIn
<1>3. ASSUME NEW v \in Writer, RuleDone(v),
             \A w \in Writer \ {v} : act[w] = "resolve" /\ WritersOf(Head(work[w]).key) = {w} =>
               hit[w] \in OpenIn(alerts', Head(work[w]).key)
      PROVE  DecisionsStand'
  <2>1. act'[v] = "none"
    BY <1>0, <1>3 DEF RuleDone
  <2>2. \A w \in Writer \ {v} : work'[w] = work[w] /\ act'[w] = act[w] /\ hit'[w] = hit[w]
    BY <1>0, <1>3 DEF RuleDone
  <2> QED
    BY <1>3, <2>1, <2>2 DEF DecisionsStand, OpenIn
<1>4. ASSUME NEW v \in Writer, Raise(v) PROVE DecisionsStand'
  <2>1. work[v] # <<>> /\ AddAlert(Head(work[v]).key) /\ RuleDone(v)
    BY <1>0, <1>4 DEF Raise, WorkOK
  <2>2. \A k : OpenIn(alerts, k) \subseteq OpenIn(alerts', k)
    BY <1>0, <2>1, HeadIsOwn, OpenAfterAdd
  <2> QED
    BY <1>3, <2>1, <2>2 DEF DecisionsStand
<1>5. ASSUME NEW v \in Writer, Close(v) PROVE DecisionsStand'
  <2>1. /\ work[v] # <<>> /\ ResolveAlert(hit[v]) /\ RuleDone(v)
        /\ hit[v] \in AlertId /\ alerts[hit[v]].key = Head(work[v]).key
    BY <1>0, <1>5 DEF Close, WorkOK, HitStaysValid
  <2>2. ASSUME NEW w \in Writer \ {v}, act[w] = "resolve", WritersOf(Head(work[w]).key) = {w}
        PROVE  hit[w] \in OpenIn(alerts', Head(work[w]).key)
    <3>1. hit[w] \in OpenIn(alerts, Head(work[w]).key)
      BY <2>2 DEF DecisionsStand
    <3>2. Head(work[v]).key # Head(work[w]).key
      BY <2>1, <2>2, HeadIsOwn
    <3>3. hit[w] # hit[v]
      BY <2>1, <3>1, <3>2 DEF OpenIn
    <3> QED
      BY <1>0, <2>1, <3>1, <3>3, OpenAfterResolve
  <2> QED
    BY <1>3, <2>1, <2>2
<1>6. ASSUME UNCHANGED <<work, act, hit>>, \A k : OpenIn(alerts, k) \subseteq OpenIn(alerts', k)
      PROVE  DecisionsStand'
  BY <1>6 DEF DecisionsStand, OpenIn
<1>7. ASSUME NEW key \in SyslogKey, RecordSyslogAlert(key) PROVE DecisionsStand'
  <2>1. key \in Key
    BY DEF SyslogKey
  <2>2. \A k : OpenIn(alerts, k) \subseteq OpenIn(alerts', k)
    BY <1>0, <1>7, <2>1, OpenAfterAdd DEF RecordSyslogAlert
  <2> QED
    BY <1>6, <1>7, <2>2 DEF RecordSyslogAlert
<1>8. ASSUME NEW i \in AlertId, Acknowledge(i) PROVE DecisionsStand'
  <2>1. \A k : OpenIn(alerts, k) \subseteq OpenIn(alerts', k)
    BY <1>0, <1>8, OpenAfterAcknowledge DEF Acknowledge
  <2> QED
    BY <1>6, <1>8, <2>1 DEF Acknowledge
<1>9. CASE Restart \/ FailedBoot
  BY <1>9 DEF Restart, FailedBoot, Idle, DecisionsStand
<1>10. CASE UNCHANGED detectorVars
  BY <1>6, <1>10 DEF detectorVars
<1> QED
  BY <1>1, <1>2, <1>4, <1>5, <1>7, <1>8, <1>9, <1>10 DEF DetectorNext

-----------------------------------------------------------------------------
(* What a goroutine's checks will have made of the alerts of a key *)

(* When writer w has run the checks it was given, key k has an open alert    *)
(* exactly if b: by those of its checks that are of k, or already.          *)
Settles(w, k, b) ==
  /\ \A i \in DOMAIN work[w] : work[w][i].key = k => work[w][i].bad = b
  /\ (\A i \in DOMAIN work[w] : work[w][i].key # k) => (OpenIn(alerts, k) # {} <=> b)

(* The tail of a sequence, element by element.                              *)
LEMMA TailElements ==
  ASSUME NEW S, NEW s \in Seq(S), s # <<>>
  PROVE  /\ 1 \in DOMAIN s /\ Head(s) = s[1]
         /\ \A i \in DOMAIN Tail(s) : i + 1 \in DOMAIN s /\ Tail(s)[i] = s[i + 1]
         /\ \A j \in DOMAIN s : j # 1 => j - 1 \in DOMAIN Tail(s) /\ Tail(s)[j - 1] = s[j]
<1>1. /\ Len(s) \in Nat /\ DOMAIN s = 1..Len(s) /\ Len(s) # 0 /\ Head(s) = s[1]
      /\ Tail(s) \in Seq(S) /\ Len(Tail(s)) = Len(s) - 1
      /\ \A i \in 1..Len(Tail(s)) : Tail(s)[i] = s[i + 1]
  BY HeadTailProperties, EmptySeq
<1>2. DOMAIN Tail(s) = 1..(Len(s) - 1)
  BY <1>1
<1> QED
  BY <1>1, <1>2

(* A check that has been run leaves its key as it should be, and the others. *)
LEMMA CheckIsRun ==
  ASSUME DetectorInv, NEW w \in Writer, NEW k, NEW b \in BOOLEAN, Settles(w, k, b),
         work[w] # <<>>, work' = [work EXCEPT ![w] = Tail(@)],
         Head(work[w]).key = k => (OpenIn(alerts', k) # {} <=> Head(work[w]).bad),
         Head(work[w]).key # k => (OpenIn(alerts', k) # {} <=> OpenIn(alerts, k) # {})
  PROVE  Settles(w, k, b)'
<1> DEFINE s == work[w]
           open == OpenIn(alerts', k) # {}
<1>1. s \in Seq(Check) /\ work'[w] = Tail(s)
  BY DEF DetectorInv, DetectorTypeOK
<1>2. /\ 1 \in DOMAIN s /\ Head(s) = s[1]
      /\ \A i \in DOMAIN Tail(s) : i + 1 \in DOMAIN s /\ Tail(s)[i] = s[i + 1]
      /\ \A j \in DOMAIN s : j # 1 => j - 1 \in DOMAIN Tail(s) /\ Tail(s)[j - 1] = s[j]
  BY <1>1, TailElements
<1>3. \A i \in DOMAIN s : s[i].key = k => s[i].bad = b
  BY DEF Settles
<1>4. \A i \in DOMAIN Tail(s) : Tail(s)[i].key = k => Tail(s)[i].bad = b
  BY <1>2, <1>3
<1>5. ASSUME \A i \in DOMAIN Tail(s) : Tail(s)[i].key # k
      PROVE  open <=> b
  <2>1. CASE Head(s).key = k
    <3>1. Head(s).bad = b
      BY <1>2, <1>3, <2>1
    <3> QED
      BY <2>1, <3>1
  <2>2. CASE Head(s).key # k
    <3>1. \A j \in DOMAIN s : s[j].key # k
      BY <1>2, <1>5, <2>2
    <3>2. OpenIn(alerts, k) # {} <=> b
      BY <3>1 DEF Settles
    <3> QED
      BY <2>2, <3>2
  <2> QED
    BY <2>1, <2>2
<1> QED
  BY <1>1, <1>4, <1>5 DEF Settles, OpenIn

(* An evaluation that is not about the key changes nothing about it.        *)
LEMMA OtherEvaluation ==
  ASSUME NEW w \in Writer, work \in [Writer -> Seq(Check)], NEW s, Evaluate(w, s),
         NEW k, NEW b, Settles(w, k, b), \A i \in DOMAIN s : s[i].key # k
  PROVE  Settles(w, k, b)'
<1>1. work[w] = <<>> /\ work'[w] = s /\ alerts' = alerts
  BY DEF Evaluate, storeVars
<1>2. OpenIn(alerts, k) # {} <=> b
  BY <1>1 DEF Settles
<1> QED
  BY <1>1, <1>2 DEF Settles, OpenIn

(* One whose checks of the key all say b settles it.                        *)
LEMMA OwnEvaluation ==
  ASSUME NEW w \in Writer, work \in [Writer -> Seq(Check)], NEW s, Evaluate(w, s),
         NEW k, NEW b, \A i \in DOMAIN s : s[i].key = k => s[i].bad = b,
         \E i \in DOMAIN s : s[i].key = k
  PROVE  Settles(w, k, b)'
<1>1. work'[w] = s
  BY DEF Evaluate
<1> QED
  BY <1>1 DEF Settles

(* What a step of the rules, of a syslog line, of the operator or of another  *)
(* goroutine's evaluation is to writer w.                                   *)
Undisturbed(w) ==
  \/ \E v \in Writer : Look(v) \/ Raise(v) \/ Close(v)
  \/ \E k \in SyslogKey : RecordSyslogAlert(k)
  \/ \E i \in AlertId : Acknowledge(i)
  \/ \E v \in Writer \ {w} : \E s : Evaluate(v, s)
  \/ UNCHANGED detectorVars

(* Where w is the only writer of a key, no such step undoes what its checks   *)
(* make of it.                                                              *)
LEMMA SettledStays ==
  ASSUME DetectorInv, DecisionsStand, NEW w \in Writer, NEW k \in Key \ SyslogKey,
         WritersOf(k) = {w}, NEW b \in BOOLEAN, Settles(w, k, b), Undisturbed(w)
  PROVE  Settles(w, k, b)'
<1>0. /\ work \in [Writer -> Seq(Check)]
      /\ act \in [Writer -> {"none", "raise", "resolve"}]
      /\ hit \in [Writer -> 0..MaxAlerts]
      /\ StoreInv /\ WorkOK /\ HitStaysValid
  BY DEF DetectorInv, DetectorTypeOK
<1>1. ASSUME work'[w] = work[w], OpenIn(alerts', k) = OpenIn(alerts, k)
      PROVE  Settles(w, k, b)'
  BY <1>1 DEF Settles, OpenIn
<1>2. \A v \in Writer \ {w} : work[v] # <<>> => Head(work[v]).key # k
  BY HeadIsOwn
<1>3. ASSUME NEW v \in Writer, Look(v) PROVE Settles(w, k, b)'
  <2>1. work[v] # <<>> /\ OpenIn(alerts', k) = OpenIn(alerts, k)
    BY <1>3 DEF Look, storeVars, OpenIn
  <2>2. CASE work'[w] = work[w]
    BY <1>1, <2>1, <2>2
  <2>3. CASE work'[w] # work[w]
    <3>1. v = w /\ work' = [work EXCEPT ![w] = Tail(@)]
          /\ (Head(work[w]).bad <=> OpenIn(alerts, Head(work[w]).key) # {})
      BY <1>0, <1>3, <2>3 DEF Look, FindActiveAlert
    <3> QED
      BY <2>1, <3>1, CheckIsRun
  <2> QED
    BY <2>2, <2>3
<1>4. ASSUME NEW v \in Writer, Raise(v) PROVE Settles(w, k, b)'
  <2>1. work[v] # <<>> /\ AddAlert(Head(work[v]).key) /\ RuleDone(v) /\ act[v] = "raise"
    BY <1>0, <1>4 DEF Raise, WorkOK
  <2>2. OpenIn(alerts', k) = IF k = Head(work[v]).key THEN OpenIn(alerts, k) \cup {lastId + 1}
                                                     ELSE OpenIn(alerts, k)
    BY <1>0, <2>1, HeadIsOwn, OpenAfterAdd
  <2>3. CASE v = w
    <3>1. Head(work[w]).bad = TRUE
      BY <2>1, <2>3 DEF DecisionsStand
    <3>2. work' = [work EXCEPT ![w] = Tail(@)]
      BY <2>1, <2>3 DEF RuleDone
    <3> QED
      BY <2>1, <2>2, <2>3, <3>1, <3>2, CheckIsRun
  <2>4. CASE v # w
    <3>1. work'[w] = work[w]
      BY <1>0, <2>1, <2>4 DEF RuleDone
    <3> QED
      BY <1>1, <1>2, <2>1, <2>2, <2>4, <3>1
  <2> QED
    BY <2>3, <2>4
<1>5. ASSUME NEW v \in Writer, Close(v) PROVE Settles(w, k, b)'
  <2>1. /\ work[v] # <<>> /\ ResolveAlert(hit[v]) /\ RuleDone(v) /\ act[v] = "resolve"
        /\ hit[v] \in AlertId /\ alerts[hit[v]].key = Head(work[v]).key
    BY <1>0, <1>5 DEF Close, WorkOK, HitStaysValid
  <2>2. OpenIn(alerts', k) = OpenIn(alerts, k) \ {hit[v]}
    BY <1>0, <2>1, OpenAfterResolve
  <2>3. CASE v = w
    <3>1. Head(work[w]).bad = FALSE
      BY <2>1, <2>3 DEF DecisionsStand
    <3>2. work' = [work EXCEPT ![w] = Tail(@)]
      BY <2>1, <2>3 DEF RuleDone
    <3>3. Head(work[w]).key = k => OpenIn(alerts', k) = {}
      <4>1. SUFFICES ASSUME Head(work[w]).key = k PROVE OpenIn(alerts', k) = {}
        OBVIOUS
      <4>2. hit[w] \in OpenIn(alerts, k)
        BY <2>1, <2>3, <4>1 DEF DecisionsStand
      <4>3. Cardinality(OpenIn(alerts, k)) <= 1
        <5>1. Cardinality(OpenIn(alerts, k)) + Cardinality(RaisersOf(k)) <= Cardinality(WritersOf(k))
          BY DEF DetectorInv, OpenAndRaisers
        <5>2. Cardinality(WritersOf(k)) = 1
          BY FS_Singleton
        <5>3. Cardinality(OpenIn(alerts, k)) \in Nat /\ Cardinality(RaisersOf(k)) \in Nat
          BY OpenHasCardinality, WritersAreFinite DEF RaisersOf
        <5> QED
          BY <5>1, <5>2, <5>3
      <4>4. Cardinality(OpenIn(alerts', k)) = Cardinality(OpenIn(alerts, k)) - 1
        BY <2>2, <2>3, <4>2, OpenIsFinite, FS_RemoveElement
      <4>5. Cardinality(OpenIn(alerts', k)) = 0
        BY <4>3, <4>4, OpenHasCardinality
      <4> QED
        BY <4>5, OpenIsFinite, FS_EmptySet
    <3>4. Head(work[w]).key # k => OpenIn(alerts', k) = OpenIn(alerts, k)
      BY <2>1, <2>2, <2>3 DEF OpenIn
    <3> QED
      BY <2>1, <2>3, <3>1, <3>2, <3>3, <3>4, CheckIsRun
  <2>4. CASE v # w
    <3>1. work'[w] = work[w]
      BY <1>0, <2>1, <2>4 DEF RuleDone
    <3>2. hit[v] \notin OpenIn(alerts, k)
      BY <1>2, <2>1, <2>4 DEF OpenIn
    <3> QED
      BY <1>1, <2>2, <3>1, <3>2
  <2> QED
    BY <2>3, <2>4
<1>6. ASSUME NEW key \in SyslogKey, RecordSyslogAlert(key) PROVE Settles(w, k, b)'
  <2>1. key \in Key /\ key # k
    BY DEF SyslogKey
  <2>2. OpenIn(alerts', k) = OpenIn(alerts, k)
    BY <1>0, <1>6, <2>1, OpenAfterAdd DEF RecordSyslogAlert
  <2> QED
    BY <1>1, <1>6, <2>2 DEF RecordSyslogAlert
<1>7. ASSUME NEW i \in AlertId, Acknowledge(i) PROVE Settles(w, k, b)'
  <2>1. OpenIn(alerts', k) = OpenIn(alerts, k)
    BY <1>0, <1>7, OpenAfterAcknowledge DEF Acknowledge
  <2> QED
    BY <1>1, <1>7, <2>1 DEF Acknowledge
<1>8. ASSUME NEW v \in Writer \ {w}, NEW s, Evaluate(v, s) PROVE Settles(w, k, b)'
  <2>1. work'[w] = work[w] /\ alerts' = alerts
    BY <1>0, <1>8 DEF Evaluate, storeVars
  <2> QED
    BY <1>1, <2>1 DEF OpenIn
<1>9. CASE UNCHANGED detectorVars
  BY <1>1, <1>9 DEF detectorVars, OpenIn
<1> QED
  BY <1>3, <1>4, <1>5, <1>6, <1>7, <1>8, <1>9 DEF Undisturbed

-----------------------------------------------------------------------------
(* The cache and the alerts *)

(* Row r of a view of device d says that condition k is bad, or that it is   *)
(* good.  An absent row says nothing.                                       *)
RowSays(d, view, r, k, b) ==
  \/ r \in Peer /\ k = BgpKey(d, r) /\ view.bgp[r].state = (IF b THEN "down" ELSE "established")
  \/ r \in Neighbour /\ k = OspfKey(d, r) /\ view.ospf[r] = (IF b THEN "down" ELSE "up")

(* The alerts are, or will be once the goroutine has run its checks, what the *)
(* cache says; while rows are evaluated, what those already evaluated say.   *)
Match(d) ==
  /\ pc[d] = "idle" => work[PollWriter(d)] = <<>>
  /\ pc[d] # "detect" =>
       \A r \in Peer \cup Neighbour : \A k \in Key : \A b \in BOOLEAN :
         RowSays(d, cached[d], r, k, b) => Settles(PollWriter(d), k, b)
  /\ pc[d] = "ospf" => \A p \in Peer \ left[d] : cur[d].bgp[p].state = "absent"
  /\ pc[d] = "detect" =>
       \A r \in (Peer \cup Neighbour) \ left[d] : \A k \in Key : \A b \in BOOLEAN :
         RowSays(d, cur[d], r, k, b) => Settles(PollWriter(d), k, b)

MatchInv == \A d \in Device \ BmpDevice : Match(d)

(* On a device without BMP, its poller alone evaluates what a row is about. *)
LEMMA RowsHaveOneWriter ==
  ASSUME NEW d \in Device \ BmpDevice, NEW view, NEW r \in Peer \cup Neighbour, NEW k, NEW b,
         RowSays(d, view, r, k, b)
  PROVE  k \in Key \ SyslogKey /\ WritersOf(k) = {PollWriter(d)}
<1>1. k \in PollKeys(d) /\ k[1] = d
  BY DEF RowSays, PollKeys, BgpKey, OspfKey
<1>2. k \in KeysOf[PollWriter(d)] /\ PollWriter(d) \in Writer
  BY <1>1, TelemetryAssumption
<1>3. \A e \in Device : k \in PollKeys(e) => e = d
  BY <1>1 DEF PollKeys, OfflineKey, BgpKey, PrefixKey, OspfKey
<1>4. \A e \in BmpDevice : k \notin BmpKeys(e)
  BY <1>1 DEF BmpKeys, BgpKey
<1>5. ASSUME NEW w \in Writer, k \in KeysOf[w]
      PROVE  w = PollWriter(d)
  <2>1. CASE \E e \in Device : w = PollWriter(e)
    BY <1>3, <1>5, <2>1, TelemetryAssumption
  <2>2. CASE \E e \in BmpDevice : w = BmpWriter(e)
    BY <1>4, <1>5, <2>2, TelemetryAssumption
  <2> QED
    BY <2>1, <2>2, TelemetryAssumption
<1> QED
  BY <1>2, <1>5, DetectorAssumption DEF WritersOf

(* Whoever else moves, a goroutine that is not at work finds its device as it *)
(* left it.                                                                 *)
LEMMA MatchUndisturbed ==
  ASSUME DetectorInv, DecisionsStand, NEW d \in Device \ BmpDevice, Match(d),
         Undisturbed(PollWriter(d)),
         pc'[d] = pc[d], left'[d] = left[d], cur'[d] = cur[d], cached'[d] = cached[d]
  PROVE  Match(d)'
<1> DEFINE w == PollWriter(d)
<1>0. /\ work \in [Writer -> Seq(Check)]
      /\ WorkOK /\ w \in Writer
  BY TelemetryAssumption DEF DetectorInv, DetectorTypeOK
<1>1. work[w] = <<>> => work'[w] = <<>>
  <2>1. ASSUME NEW v \in Writer, Look(v) \/ Raise(v) \/ Close(v), work[w] = <<>>
        PROVE  work'[w] = work[w]
    <3>1. work[v] # <<>>
      BY <1>0, <2>1 DEF Look, Raise, Close, WorkOK
    <3>2. v # w
      BY <2>1, <3>1
    <3> QED
      BY <1>0, <2>1, <3>2 DEF Look, Raise, Close, RuleDone
  <2>2. ASSUME NEW v \in Writer \ {w}, NEW s, Evaluate(v, s)
        PROVE  work'[w] = work[w]
    BY <1>0, <2>2 DEF Evaluate
  <2>3. ASSUME \/ \E k \in SyslogKey : RecordSyslogAlert(k)
               \/ \E i \in AlertId : Acknowledge(i)
               \/ UNCHANGED detectorVars
        PROVE  work'[w] = work[w]
    BY <2>3 DEF RecordSyslogAlert, Acknowledge, detectorVars
  <2> QED
    BY <2>1, <2>2, <2>3 DEF Undisturbed
<1>2. ASSUME NEW view, NEW r \in Peer \cup Neighbour, NEW k \in Key, NEW b \in BOOLEAN,
             RowSays(d, view, r, k, b), Settles(w, k, b)
      PROVE  Settles(w, k, b)'
  BY <1>0, <1>2, RowsHaveOneWriter, SettledStays
<1>3. ASSUME pc'[d] # "detect", NEW r \in Peer \cup Neighbour, NEW k \in Key, NEW b \in BOOLEAN,
             RowSays(d, cached[d], r, k, b)'
      PROVE  Settles(w, k, b)'
  <2>1. RowSays(d, cached[d], r, k, b)
    BY <1>3 DEF RowSays, BgpKey, OspfKey
  <2> QED
    BY <1>2, <1>3, <2>1 DEF Match
<1>4. ASSUME pc'[d] = "detect", NEW r \in (Peer \cup Neighbour) \ left'[d],
             NEW k \in Key, NEW b \in BOOLEAN, RowSays(d, cur[d], r, k, b)'
      PROVE  Settles(w, k, b)'
  <2>1. RowSays(d, cur[d], r, k, b)
    BY <1>4 DEF RowSays, BgpKey, OspfKey
  <2> QED
    BY <1>2, <1>4, <2>1 DEF Match
<1> QED
  BY <1>1, <1>3, <1>4 DEF Match, PollWriter

(* Checks s settle what row x says, and are not about what other rows say.   *)
ChecksOfRow(d, x, s) ==
  /\ \A r \in (Peer \cup Neighbour) \ {x} : \A k \in Key : \A b \in BOOLEAN :
       RowSays(d, cur[d], r, k, b) => \A i \in DOMAIN s : s[i].key # k
  /\ \A k \in Key : \A b \in BOOLEAN : RowSays(d, cur[d], x, k, b) =>
       /\ \A i \in DOMAIN s : s[i].key = k => s[i].bad = b
       /\ \E i \in DOMAIN s : s[i].key = k

(* A row's turn leaves one row less to evaluate.                            *)
LEMMA RowEvaluated ==
  ASSUME EngineInv, DetectorInv, NEW d \in Device \ BmpDevice, Match(d),
         NEW x, NEW s, x \in left[d], pc[d] = "detect",
         left' = [left EXCEPT ![d] = @ \ {x}], UNCHANGED <<pc, cur>>,
         Evaluate(PollWriter(d), s),
         ChecksOfRow(d, x, s)
  PROVE  Match(d)'
<1> DEFINE w == PollWriter(d)
           U == Peer \cup Neighbour
<1>0. /\ work \in [Writer -> Seq(Check)] /\ w \in Writer /\ left \in [Device -> SUBSET U]
  BY TelemetryAssumption
    DEF DetectorInv, DetectorTypeOK, EngineInv, EngineTypeOK, PollTypeOK
<1>1. left'[d] = left[d] \ {x} /\ pc'[d] = "detect"
  BY <1>0
<1>2. ASSUME NEW r \in U \ left'[d], NEW k \in Key, NEW b \in BOOLEAN, RowSays(d, cur[d], r, k, b)'
      PROVE  Settles(w, k, b)'
  <2>1. RowSays(d, cur[d], r, k, b)
    BY <1>2 DEF RowSays, BgpKey, OspfKey
  <2>2. CASE r = x
    <3>1. /\ \A i \in DOMAIN s : s[i].key = k => s[i].bad = b
          /\ \E i \in DOMAIN s : s[i].key = k
      BY <2>1, <2>2 DEF ChecksOfRow
    <3> HIDE DEF w
    <3> QED
      BY <1>0, <3>1, OwnEvaluation DEF w
  <2>3. CASE r # x
    <3>1. r \in U \ left[d]
      BY <1>1, <2>3
    <3>2. Settles(w, k, b)
      BY <2>1, <3>1 DEF Match
    <3>3. \A i \in DOMAIN s : s[i].key # k
      BY <2>1, <2>3 DEF ChecksOfRow
    <3> QED
      BY <1>0, <3>2, <3>3, OtherEvaluation
  <2> QED
    BY <2>2, <2>3
<1> QED
  BY <1>1, <1>2 DEF Match, PollWriter

(* The goroutine's own steps.                                               *)
LEMMA MatchPoll ==
  ASSUME EngineInv, DetectorInv, NEW d \in Device \ BmpDevice, Match(d), PollStep(d)
  PROVE  Match(d)'
<1> DEFINE w == PollWriter(d)
           U == Peer \cup Neighbour
<1>0. /\ work \in [Writer -> Seq(Check)] /\ w \in Writer
      /\ queue \in SUBSET Device
      /\ pc \in [Device -> {"idle", "offline", "online", "ospf", "detect"}]
      /\ cur \in [Device -> View]
      /\ left \in [Device -> SUBSET U]
      /\ cached \in [Device -> View]
      /\ \A e \in queue : pc[e] = "idle"
  BY TelemetryAssumption
    DEF DetectorInv, DetectorTypeOK, EngineInv, EngineTypeOK, PollTypeOK, CycleOK
<1>1. CASE Poll(d)
  <2>1. pc[d] = "idle" /\ pc'[d] \in {"online", "offline"} /\ cached' = cached
    BY <1>0, <1>1 DEF Poll
  <2>2. PICK c \in {Good(OfflineKey(d, snap[d])), Bad(OfflineKey(d, snap[d]))} : Evaluate(w, <<c>>)
    BY <1>1 DEF Poll
  <2>3. ASSUME NEW r \in U, NEW k \in Key, NEW b \in BOOLEAN, RowSays(d, cached[d], r, k, b)'
        PROVE  Settles(w, k, b)'
    <3>1. RowSays(d, cached[d], r, k, b)
      BY <2>1, <2>3 DEF RowSays, BgpKey, OspfKey
    <3>2. Settles(w, k, b)
      BY <2>1, <2>3, <3>1 DEF Match
    <3>3. \A i \in DOMAIN <<c>> : <<c>>[i].key # k
      BY <3>1, <2>2 DEF RowSays, BgpKey, OspfKey, OfflineKey, Good, Bad
    <3> QED
      BY <1>0, <2>2, <3>2, <3>3, OtherEvaluation
  <2> QED
    BY <2>1, <2>3 DEF Match, PollWriter
<1>2. ASSUME UNCHANGED detectorVars, NEW r, NEW k, NEW b, Settles(w, k, b)
      PROVE  Settles(w, k, b)'
  BY <1>2 DEF detectorVars, Settles, OpenIn
<1>3. CASE PollFails(d)
  <2>1. /\ pc[d] = "offline" /\ pc'[d] = "idle" /\ cached' = cached /\ work' = work
        /\ work[w] = <<>> /\ UNCHANGED detectorVars
    BY <1>0, <1>3 DEF PollFails, Evaluated, detectorVars
  <2>2. ASSUME NEW r \in U, NEW k \in Key, NEW b \in BOOLEAN, RowSays(d, cached[d], r, k, b)'
        PROVE  Settles(w, k, b)'
    <3>1. RowSays(d, cached[d], r, k, b)
      BY <2>1, <2>2 DEF RowSays, BgpKey, OspfKey
    <3> QED
      BY <1>2, <2>1, <3>1 DEF Match
  <2> QED
    BY <2>1, <2>2 DEF Match, PollWriter
<1>4. CASE ReadBgp(d)
  <2>1. /\ pc[d] = "online" /\ pc'[d] = "ospf" /\ cached' = cached /\ UNCHANGED detectorVars
    BY <1>0, <1>4 DEF ReadBgp
  <2>2. PICK rows :
          /\ cur' = [cur EXCEPT ![d].bgp = rows]
          /\ left' = [left EXCEPT ![d] = {p \in Peer : rows[p].state # "absent"}]
    BY <1>4 DEF ReadBgp
  <2>3. \A p \in Peer \ left'[d] : cur'[d].bgp[p].state = "absent"
    <3>1. cur[d] \in View
      BY <1>0
    <3>2. cur'[d].bgp = rows
      BY <1>0, <2>2, <3>1 DEF View
    <3> QED
      BY <1>0, <2>2, <3>2
  <2>4. ASSUME NEW r \in U, NEW k \in Key, NEW b \in BOOLEAN, RowSays(d, cached[d], r, k, b)'
        PROVE  Settles(w, k, b)'
    <3>1. RowSays(d, cached[d], r, k, b)
      BY <2>1, <2>4 DEF RowSays, BgpKey, OspfKey
    <3> QED
      BY <1>2, <2>1, <3>1 DEF Match
  <2> QED
    BY <2>1, <2>3, <2>4 DEF Match, PollWriter
<1>5. CASE ReadOspf(d)
  <2>1. pc[d] = "ospf" /\ pc'[d] = "detect"
    BY <1>0, <1>5 DEF ReadOspf
  <2>2. PICK rows :
          /\ cur' = [cur EXCEPT ![d].ospf = rows]
          /\ left' = [left EXCEPT ![d] = @ \cup {n \in Neighbour : rows[n] # "absent"}]
    BY <1>5 DEF ReadOspf
  <2>3. cur'[d].bgp = cur[d].bgp /\ cur'[d].ospf = rows
    <3>1. cur[d] \in View
      BY <1>0
    <3> QED
      BY <1>0, <2>2, <3>1 DEF View
  <2>4. left'[d] = left[d] \cup {n \in Neighbour : rows[n] # "absent"}
    BY <1>0, <2>2
  <2>5. \A p \in Peer \ left'[d] : cur'[d].bgp[p].state = "absent"
    BY <2>1, <2>3, <2>4 DEF Match
  <2>6. \A n \in Neighbour \ left'[d] : cur'[d].ospf[n] = "absent"
    BY <2>3, <2>4
  <2>7. ASSUME NEW r \in U \ left'[d], NEW k, NEW b, RowSays(d, cur[d], r, k, b)'
        PROVE  FALSE
    BY <2>5, <2>6, <2>7 DEF RowSays
  <2> QED
    BY <2>1, <2>7 DEF Match
<1>7. ASSUME NEW p \in Peer, EvaluateSession(d, p) PROVE Match(d)'
  <2> DEFINE row == cur[d].bgp[p]
             B == Bad(BgpKey(d, p))
             G == Good(BgpKey(d, p))
  <2>0. PICK s : s = SessionChecks(d, p, cached[d].bgp[p], row)
    OBVIOUS
  <2>1. /\ pc[d] = "detect" /\ p \in left[d] /\ left' = [left EXCEPT ![d] = @ \ {p}]
        /\ UNCHANGED <<pc, cur>> /\ Evaluate(w, s)
    BY <1>7, <2>0 DEF EvaluateSession
  <2>2. \/ row.state # "established" /\ s = <<B>>
        \/ /\ row.state = "established"
           /\ s = <<G>> \/ (\E c \in {Bad(PrefixKey(d, p)), Good(PrefixKey(d, p))} : s = <<G, c>>)
    <3>1. PrefixChecks(d, p, cached[d].bgp[p], row)
            \in {<<>>, <<Bad(PrefixKey(d, p))>>, <<Good(PrefixKey(d, p))>>}
      BY DEF PrefixChecks
    <3>2. <<G>> \o <<>> = <<G>>
      OBVIOUS
    <3>3. \A c : <<G>> \o <<c>> = <<G, c>>
      BY PairIsConcat
    <3> QED
      BY <2>0, <3>1, <3>2, <3>3 DEF SessionChecks
  <2>3. B.key = BgpKey(d, p) /\ B.bad = TRUE /\ G.key = BgpKey(d, p) /\ G.bad = FALSE
    BY DEF Good, Bad
  <2>4. \A c \in {Bad(PrefixKey(d, p)), Good(PrefixKey(d, p))} : c.key = PrefixKey(d, p)
    BY DEF Good, Bad
  <2>5. \A i \in DOMAIN s : s[i].key \in {BgpKey(d, p), PrefixKey(d, p)}
    BY <2>2, <2>3, <2>4
  <2>6. ASSUME NEW b \in BOOLEAN, row.state = (IF b THEN "down" ELSE "established")
        PROVE  \A i \in DOMAIN s : s[i].key = BgpKey(d, p) => s[i].bad = b
    <3>1. BgpKey(d, p) # PrefixKey(d, p)
      BY DEF BgpKey, PrefixKey
    <3>2. CASE b = TRUE
      <4>1. s = <<B>>
        BY <2>2, <2>6, <3>2
      <4>2. \A i \in DOMAIN s : s[i] = B
        BY <4>1
      <4> HIDE DEF B
      <4> QED
        BY <2>3, <3>2, <4>2, Zenon
    <3>3. CASE b = FALSE
      <4>1. \/ s = <<G>>
            \/ \E c \in {Bad(PrefixKey(d, p)), Good(PrefixKey(d, p))} : s = <<G, c>>
        BY <2>2, <2>6, <3>3
      <4>2. \A i \in DOMAIN s : s[i] = G \/ s[i].key = PrefixKey(d, p)
        BY <2>4, <4>1
      <4> QED
        BY <2>3, <3>1, <3>3, <4>2
    <3> QED
      BY <3>2, <3>3
  <2>7. 1 \in DOMAIN s /\ s[1].key = BgpKey(d, p)
    BY <2>2, <2>3
  <2>8. \A r \in U \ {p} : \A k \in Key : \A b \in BOOLEAN :
          RowSays(d, cur[d], r, k, b) => \A i \in DOMAIN s : s[i].key # k
    BY <2>5 DEF RowSays, BgpKey, PrefixKey, OspfKey
  <2>9. \A k \in Key : \A b \in BOOLEAN : RowSays(d, cur[d], p, k, b) =>
          /\ \A i \in DOMAIN s : s[i].key = k => s[i].bad = b
          /\ \E i \in DOMAIN s : s[i].key = k
    <3>1. ASSUME NEW k \in Key, NEW b \in BOOLEAN, RowSays(d, cur[d], p, k, b)
          PROVE  k = BgpKey(d, p) /\ row.state = (IF b THEN "down" ELSE "established")
      BY <3>1, TelemetryAssumption DEF RowSays
    <3> QED
      BY <2>6, <2>7, <3>1
  <2>10. ChecksOfRow(d, p, s)
    BY <2>8, <2>9 DEF ChecksOfRow
  <2> QED
    BY <2>1, <2>10, RowEvaluated
<1>8. ASSUME NEW n \in Neighbour, EvaluateNeighbour(d, n) PROVE Match(d)'
  <2>0. PICK s : s = <<IF cur[d].ospf[n] = "up" THEN Good(OspfKey(d, n)) ELSE Bad(OspfKey(d, n))>>
    OBVIOUS
  <2>1. /\ pc[d] = "detect" /\ n \in left[d] /\ left' = [left EXCEPT ![d] = @ \ {n}]
        /\ UNCHANGED <<pc, cur>> /\ Evaluate(w, s)
    BY <1>8, <2>0 DEF EvaluateNeighbour
  <2>2. /\ DOMAIN s = {1} /\ s[1].key = OspfKey(d, n)
        /\ cur[d].ospf[n] = "up" => s[1].bad = FALSE
        /\ cur[d].ospf[n] = "down" => s[1].bad = TRUE
    BY <2>0 DEF Good, Bad
  <2>3. \A r \in U \ {n} : \A k \in Key : \A b \in BOOLEAN :
          RowSays(d, cur[d], r, k, b) => \A i \in DOMAIN s : s[i].key # k
    BY <2>2 DEF RowSays, BgpKey, OspfKey
  <2>4. \A k \in Key : \A b \in BOOLEAN : RowSays(d, cur[d], n, k, b) =>
          /\ \A i \in DOMAIN s : s[i].key = k => s[i].bad = b
          /\ \E i \in DOMAIN s : s[i].key = k
    <3>1. ASSUME NEW k \in Key, NEW b \in BOOLEAN, RowSays(d, cur[d], n, k, b)
          PROVE  k = OspfKey(d, n) /\ cur[d].ospf[n] = (IF b THEN "down" ELSE "up")
      BY <3>1, TelemetryAssumption DEF RowSays
    <3>2. ASSUME NEW b \in BOOLEAN, cur[d].ospf[n] = (IF b THEN "down" ELSE "up")
          PROVE  s[1].bad = b
      BY <2>2, <3>2
    <3> QED
      BY <2>2, <3>1, <3>2
  <2>5. ChecksOfRow(d, n, s)
    BY <2>3, <2>4 DEF ChecksOfRow
  <2> QED
    BY <2>1, <2>5, RowEvaluated
<1>9. CASE PollEnds(d)
  <2>1. /\ pc[d] = "detect" /\ pc'[d] = "idle" /\ left[d] = {} /\ work[w] = <<>> /\ work' = work
        /\ cached'[d] = cur[d] /\ UNCHANGED detectorVars
    BY <1>0, <1>9 DEF PollEnds, Evaluated, detectorVars
  <2>2. ASSUME NEW r \in U, NEW k \in Key, NEW b \in BOOLEAN, RowSays(d, cached[d], r, k, b)'
        PROVE  Settles(w, k, b)'
    <3>1. RowSays(d, cur[d], r, k, b)
      BY <2>1, <2>2 DEF RowSays, BgpKey, OspfKey
    <3> QED
      BY <1>2, <2>1, <3>1 DEF Match
  <2> QED
    BY <2>1, <2>2 DEF Match, PollWriter
<1> QED
  BY <1>1, <1>3, <1>4, <1>5, <1>7, <1>8, <1>9 DEF PollStep

(* The goroutine of another device touches neither the rows nor the checks.  *)
LEMMA OthersDoNotDisturb ==
  ASSUME PollTypeOK, NEW d \in Device, NEW e \in Device \ {d}, PollStep(e)
  PROVE  /\ Undisturbed(PollWriter(d))
         /\ pc'[d] = pc[d] /\ left'[d] = left[d] /\ cur'[d] = cur[d] /\ cached'[d] = cached[d]
<1>1. PollWriter(e) \in Writer \ {PollWriter(d)}
  BY KeysOfPoller DEF PollWriter
<1>2. (\E s : Evaluate(PollWriter(e), s)) \/ UNCHANGED detectorVars
  BY DEF PollStep, Poll, PollFails, ReadBgp, ReadOspf, EvaluateSession, EvaluateNeighbour, PollEnds
<1>3. pc'[d] = pc[d] /\ left'[d] = left[d] /\ cur'[d] = cur[d] /\ cached'[d] = cached[d]
  <2>1. CASE Poll(e) \/ PollFails(e) \/ PollEnds(e)
    BY <2>1 DEF Poll, PollFails, PollEnds, PollTypeOK
  <2>2. CASE ReadBgp(e) \/ ReadOspf(e)
    BY <2>2 DEF ReadBgp, ReadOspf, PollTypeOK
  <2>3. ASSUME \/ \E p \in Peer : EvaluateSession(e, p)
               \/ \E n \in Neighbour : EvaluateNeighbour(e, n)
        PROVE  pc'[d] = pc[d] /\ left'[d] = left[d] /\ cur'[d] = cur[d] /\ cached'[d] = cached[d]
    BY <2>3 DEF EvaluateSession, EvaluateNeighbour, PollTypeOK
  <2> QED
    BY <2>1, <2>2, <2>3 DEF PollStep
<1> QED
  BY <1>1, <1>2, <1>3 DEF Undisturbed

(* Cache and alerts keep agreeing through every step of the engine.         *)
LEMMA MatchStep ==
  ASSUME EngineInv, DetectorInv, DecisionsStand, MatchInv, [TelemetryNext]_vars
  PROVE  MatchInv'
<1> SUFFICES ASSUME NEW d \in Device \ BmpDevice PROVE Match(d)'
  BY DEF MatchInv
<1> DEFINE w == PollWriter(d)
<1>0. Match(d) /\ PollTypeOK
  BY DEF MatchInv, EngineInv, EngineTypeOK
<1>1. ASSUME Undisturbed(w),
             pc'[d] = pc[d] /\ left'[d] = left[d] /\ cur'[d] = cur[d] /\ cached'[d] = cached[d]
      PROVE  Match(d)'
  BY <1>0, <1>1, MatchUndisturbed
<1>2. ASSUME Undisturbed(w), UNCHANGED <<pc, left, cur, cached>> PROVE Match(d)'
  BY <1>1, <1>2
<1>3. CASE ProcessDies
  <2>1. /\ pc'[d] = "idle" /\ cached'[d] = NoView
        /\ work' = NoWork
    BY <1>3 DEF ProcessDies, Restart, FailedBoot
  <2>2. work'[w] = <<>>
    BY <2>1, KeysOfPoller DEF NoWork
  <2>3. \A r \in Peer \cup Neighbour : \A k, b : ~RowSays(d, cached[d], r, k, b)'
    BY <2>1 DEF RowSays, NoView, NoBgp, NoOspf, Absent
  <2> QED
    BY <2>1, <2>2, <2>3 DEF Match, PollWriter
<1>4. ASSUME World, ~ProcessDies PROVE Match(d)'
  <2>1. Undisturbed(w)
    BY <1>4 DEF World, Undisturbed, SessionChanges, ReachChanges, AdjacencyChanges, Rename,
      BmpConnect, BmpDisconnect, BmpStats, OperatorAcks, SyslogLine
  <2>2. UNCHANGED <<pc, left, cur, cached>>
    BY <1>4 DEF World, SessionChanges, ReachChanges, AdjacencyChanges, Rename,
      BmpConnect, BmpDisconnect, BmpStats, OperatorAcks, SyslogLine, pollVars
  <2> QED
    BY <1>2, <2>1, <2>2
<1>5. CASE BeginCycle \/ EndCycle
  BY <1>2, <1>5 DEF BeginCycle, EndCycle, Undisturbed
<1>6. ASSUME NEW e \in Device, PollStep(e) PROVE Match(d)'
  <2>1. CASE e = d
    BY <1>0, <1>6, <2>1, MatchPoll
  <2>2. CASE e # d
    BY <1>0, <1>1, <1>6, <2>2, OthersDoNotDisturb
  <2> QED
    BY <2>1, <2>2
<1>7. ASSUME NEW e \in BmpDevice, NEW p \in Peer, BmpProcess(e, p) PROVE Match(d)'
  <2>1. BmpWriter(e) \in Writer \ {w}
    BY KeysOfBmp DEF BmpWriter, PollWriter
  <2>2. (\E s : Evaluate(BmpWriter(e), s)) \/ UNCHANGED detectorVars
    BY <1>7 DEF BmpProcess
  <2>3. UNCHANGED <<pc, left, cur, cached>>
    BY <1>7 DEF BmpProcess, pollVars
  <2> QED
    BY <1>2, <2>1, <2>2, <2>3 DEF Undisturbed
<1>8. ASSUME NEW v \in Writer, RunRules(v) PROVE Match(d)'
  BY <1>2, <1>8 DEF RunRules, Undisturbed, pollVars
<1>9. CASE UNCHANGED vars
  BY <1>2, <1>9 DEF vars, Undisturbed, pollVars
<1> QED
  BY <1>3, <1>4, <1>5, <1>6, <1>7, <1>8, <1>9 DEF TelemetryNext

(* What the dashboard draws of a device without BMP and what the alert centre    *)
(* lists never contradict each other between two polls: not after failed reads,  *)
(* acknowledgements, restarts or alerts lost with an unsaved file.              *)
THEOREM CacheAgreesWithAlerts == TelemetrySpec => []CacheMatchesAlerts
<1>1. TelemetryInit => DecisionsStand /\ MatchInv /\ NamesOK
  <2> SUFFICES ASSUME TelemetryInit PROVE DecisionsStand /\ MatchInv /\ NamesOK
    OBVIOUS
  <2>1. DecisionsStand
    BY DEF TelemetryInit, DetectorInit, Idle, DecisionsStand
  <2>2. ASSUME NEW d \in Device \ BmpDevice PROVE Match(d)
    <3>1. pc[d] = "idle" /\ cached[d] = NoView /\ work[PollWriter(d)] = <<>>
      BY KeysOfPoller DEF TelemetryInit, DetectorInit, NoWork
    <3>2. \A r \in Peer \cup Neighbour : \A k, b : ~RowSays(d, cached[d], r, k, b)
      BY <3>1 DEF RowSays, NoView, NoBgp, NoOspf, Absent
    <3> QED
      BY <3>1, <3>2 DEF Match
  <2> QED
    BY <2>1, <2>2 DEF MatchInv, TelemetryInit, NamesOK
<1>2. NamesOK /\ [TelemetryNext]_vars => NamesOK' /\ [DetectorNext]_detectorVars
  BY NamesStep, TelemetryStepIsDetectorStep
<1>3. DetectorInv /\ DecisionsStand /\ [DetectorNext]_detectorVars => DecisionsStand'
  BY DecisionsStandStep
<1>4. EngineInv /\ DetectorInv /\ DecisionsStand /\ MatchInv /\ [TelemetryNext]_vars => MatchInv'
  BY MatchStep
<1>5. EngineInv /\ MatchInv => CacheMatchesAlerts
  <2> SUFFICES ASSUME EngineInv, MatchInv, NEW d \in Device \ BmpDevice, pc[d] = "idle"
               PROVE  /\ \A p \in Peer : cached[d].bgp[p].state # "absent" =>
                           (cached[d].bgp[p].state = "down" <=> IsOpenKey(BgpKey(d, p)))
                      /\ \A n \in Neighbour : cached[d].ospf[n] # "absent" =>
                           (cached[d].ospf[n] = "down" <=> IsOpenKey(OspfKey(d, n)))
    BY DEF CacheMatchesAlerts
  <2>1. Match(d) /\ work[PollWriter(d)] = <<>>
    BY DEF MatchInv, Match
  <2>2. ASSUME NEW r \in Peer \cup Neighbour, NEW k \in Key, NEW b \in BOOLEAN,
               RowSays(d, cached[d], r, k, b)
        PROVE  IsOpenKey(k) <=> b
    <3>1. Settles(PollWriter(d), k, b)
      BY <2>1, <2>2 DEF Match
    <3> QED
      BY <2>1, <3>1 DEF Settles, IsOpenKey
  <2>3. cached[d] \in View
    BY DEF EngineInv, EngineTypeOK, PollTypeOK
  <2>4. ASSUME NEW p \in Peer, cached[d].bgp[p].state # "absent"
        PROVE  cached[d].bgp[p].state = "down" <=> IsOpenKey(BgpKey(d, p))
    <3>1. cached[d].bgp[p].state \in {"established", "down"}
      BY <2>3, <2>4 DEF View, Row
    <3>2. BgpKey(d, p) \in Key
      BY KeysOfPoller, DetectorAssumption
    <3>3. CASE cached[d].bgp[p].state = "down"
      <4>1. RowSays(d, cached[d], p, BgpKey(d, p), TRUE)
        BY <3>3 DEF RowSays
      <4> QED
        BY <2>2, <3>2, <3>3, <4>1
    <3>4. CASE cached[d].bgp[p].state = "established"
      <4>1. RowSays(d, cached[d], p, BgpKey(d, p), FALSE)
        BY <3>4 DEF RowSays
      <4> QED
        BY <2>2, <3>2, <3>4, <4>1
    <3> QED
      BY <3>1, <3>3, <3>4
  <2>5. ASSUME NEW n \in Neighbour, cached[d].ospf[n] # "absent"
        PROVE  cached[d].ospf[n] = "down" <=> IsOpenKey(OspfKey(d, n))
    <3>1. cached[d].ospf[n] \in {"up", "down"}
      BY <2>3, <2>5 DEF View
    <3>2. OspfKey(d, n) \in Key
      BY KeysOfPoller, DetectorAssumption
    <3>3. CASE cached[d].ospf[n] = "down"
      <4>1. RowSays(d, cached[d], n, OspfKey(d, n), TRUE)
        BY <3>3 DEF RowSays
      <4> QED
        BY <2>2, <3>2, <3>3, <4>1
    <3>4. CASE cached[d].ospf[n] = "up"
      <4>1. RowSays(d, cached[d], n, OspfKey(d, n), FALSE)
        BY <3>4 DEF RowSays
      <4> QED
        BY <2>2, <3>2, <3>4, <4>1
    <3> QED
      BY <3>1, <3>3, <3>4
  <2> QED
    BY <2>4, <2>5
<1> QED
  BY <1>1, <1>2, <1>3, <1>4, <1>5, EngineInvariant, DetectorInvariant,
     TelemetryRefinesDetector, PTL DEF TelemetrySpec

=============================================================================
