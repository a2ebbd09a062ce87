---------------------------- MODULE LicenseSystem ----------------------------
(***************************************************************************)
(* An installation and the master server together: the heartbeat of           *)
(* syncWithMaster over a network that fails, the operators on both sides, the  *)
(* clock, and restarts of the installation.                                   *)
(*                                                                         *)
(* One heartbeat is under way at a time.  It carries the key that the          *)
(* installation had when it was sent; its answer is applied to the licence     *)
(* that the installation has when it arrives.                                  *)
(***************************************************************************)
EXTENDS LicenseMaster, LicenseEdge

CONSTANTS
  MaxActivations,  \* bound: activations of keys in one behaviour
  MaxOutages,      \* bound: network failures in one behaviour
  MaxRestarts      \* bound: restarts of the installation in one behaviour

VARIABLES
  hb,       \* the heartbeat under way
  up,       \* the master answers
  spent     \* activations, outages and restarts so far

licenseVars == <<today, masterVars, edgeVars, hb, up, spent>>

NoHeartbeat == [stage |-> "none"]

(* Half of one key and half of another: no key that was ever issued.         *)
TornKey == NoEnvKey

Heartbeat ==
  {NoHeartbeat, [stage |-> "failed"]}
    \cup [stage : {"sent"}, key : Key \cup {TornKey}]
    \cup [stage : {"answered"}, reply : Reply]

ASSUME LicenseSystemAssumption ==
  MaxActivations \in Nat /\ MaxOutages \in Nat /\ MaxRestarts \in Nat

LicenseInit ==
  /\ today = 0
  /\ MasterInit
  /\ EdgeInit
  /\ hb = NoHeartbeat
  /\ up = TRUE
  /\ spent = [activations |-> 0, outages |-> 0, restarts |-> 0]

-----------------------------------------------------------------------------

SendHeartbeat ==
  /\ hb = NoHeartbeat
  /\ hb' = [stage |-> "sent", key |-> lic.key]
  /\ UNCHANGED <<today, masterVars, edgeVars, up, spent>>

MasterAnswers ==
  /\ hb.stage = "sent"
  /\ up
  /\ hb' = [stage |-> "answered", reply |-> HeartbeatReply(hb.key)]
  /\ UNCHANGED <<today, masterVars, edgeVars, up, spent>>

(* The request or its answer is lost: the client gives up after ten seconds.   *)
HeartbeatLost ==
  /\ hb.stage \in {"sent", "answered"}
  /\ ~up
  /\ hb' = [stage |-> "failed"]
  /\ UNCHANGED <<today, masterVars, edgeVars, up, spent>>

HeartbeatEnds ==
  /\ \/ hb.stage = "failed" /\ SyncFailed
     \/ hb.stage = "answered" /\ SyncApplies(hb.reply)
  /\ hb' = NoHeartbeat
  /\ UNCHANGED <<today, masterVars, up, spent>>

Sync == SendHeartbeat \/ MasterAnswers \/ HeartbeatLost \/ HeartbeatEnds

NetworkFails ==
  /\ up
  /\ spent.outages < MaxOutages
  /\ up' = FALSE
  /\ spent' = [spent EXCEPT !.outages = @ + 1]
  /\ UNCHANGED <<today, masterVars, edgeVars, hb>>

NetworkReturns ==
  /\ ~up
  /\ up' = TRUE
  /\ UNCHANGED <<today, masterVars, edgeVars, hb, spent>>

DayPasses ==
  /\ NextDay
  /\ UNCHANGED <<masterVars, edgeVars, hb, up, spent>>

PanelStep == MasterNext /\ UNCHANGED <<edgeVars, hb, up, spent>>

InstallationStep == EdgeNext /\ UNCHANGED <<today, masterVars, hb, up, spent>>

(* The operator activates a key, while a heartbeat may be under way.  The       *)
(* heartbeat's goroutine reads the key without the mutex: what it sends may be   *)
(* half written.                                                              *)
ActivateKey(k) ==
  /\ spent.activations < MaxActivations
  /\ Activate(k)
  /\ \/ UNCHANGED hb
     \/ hb.stage = "sent" /\ hb' = [hb EXCEPT !.key = TornKey]
  /\ spent' = [spent EXCEPT !.activations = @ + 1]
  /\ UNCHANGED <<today, masterVars, up>>

Restart ==
  /\ spent.restarts < MaxRestarts
  /\ Boot
  /\ hb' = NoHeartbeat
  /\ spent' = [spent EXCEPT !.restarts = @ + 1]
  /\ UNCHANGED <<today, masterVars, up>>

LicenseNext ==
  \/ Sync
  \/ NetworkFails \/ NetworkReturns
  \/ DayPasses
  \/ PanelStep
  \/ InstallationStep
  \/ \E k \in Key : ActivateKey(k)
  \/ Restart

(* The heartbeat's ticker and goroutine run on; no one else has to act.        *)
LicenseSpec == LicenseInit /\ [][LicenseNext]_licenseVars /\ WF_licenseVars(Sync)

-----------------------------------------------------------------------------
(* Properties *)

(* The types of both servers' state and of the heartbeat between them.         *)
LicenseTypeOK ==
  /\ MasterTypeOK
  /\ EdgeTypeOK
  /\ hb \in Heartbeat
  /\ up \in BOOLEAN
  /\ spent \in [activations : 0..MaxActivations, outages : 0..MaxOutages,
                restarts : 0..MaxRestarts]

(* Counting, asking and storing are not atomic, so the limit can be exceeded;  *)
(* but by fewer devices than there are creations at the same time, whatever the  *)
(* renewals, activations, suspensions and restarts in between.  It is said of    *)
(* installations that never have an unlimited licence.                         *)
OvershootBounded ==
  (\A k \in Key : Guess[k].max # Unlimited) /\ Trial.max # Unlimited
    => devices <= MaxLimit + Cardinality(Creation) - 1

(* After a write that succeeded, a restart brings the licence back as it was,   *)
(* with the status of the day.                                                 *)
RestartKeepsLicence ==
  [][(spent'.restarts # spent.restarts /\ stored) => lic' = Recalculated(lic)]_licenseVars

(* The master has the edge's key, in good standing.                            *)
InForce(k) == Held(k) /\ ~issued[k].suspended

(* README of the master: it answers with the capacities in force.  When the     *)
(* network stays up and the licence stays in force, the installation ends with   *)
(* the master's expiry, and with its limit when there is one: lost heartbeats,   *)
(* late answers for an earlier key and restarts notwithstanding.                *)
EntitlementConverges ==
  (<>[](up /\ InForce(lic.key)))
    => <>[](/\ InForce(lic.key)
            /\ lic.exp = issued[lic.key].exp
            /\ issued[lic.key].max > 0 => lic.max = issued[lic.key].max)

Blocked == \A n \in 0..MaxDevices : ~CanAddDevice(n)

SuspendedFor(k) == Held(k) /\ issued[k].suspended

(* A suspension reaches an installation with a limited licence that has not     *)
(* expired: in the end it accepts no device.                                   *)
SuspensionReachesLimited ==
  (<>[](up /\ SuspendedFor(lic.key) /\ lic.max > 0 /\ today <= lic.exp)) => <>[]Blocked

(* README of the master: remote suspension of defaulting clients.              *)
SuspensionBlocks ==
  (<>[](up /\ SuspendedFor(lic.key))) => <>[]Blocked

=============================================================================
