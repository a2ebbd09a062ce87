--------------------------- MODULE License_proofs ---------------------------
(***************************************************************************)
(* What is proved of the two licence servers, for every value of the       *)
(* constants: the types of their state, that a restart of the installation *)
(* brings its licence back after a write that succeeded, the bound on      *)
(* devices above the limit, and that the master's terms and its suspension *)
(* stand at the installation once an answer has brought them there.        *)
(***************************************************************************)
EXTENDS LicenseSystem, FiniteSetTheorems, TLAPS

-----------------------------------------------------------------------------
(* Types: helpers *)

(* The edge's status function stays within the four statuses, and so does a    *)
(* licence of which the status is worked out again.                           *)
LEMMA RecalculatedType ==
  ASSUME NEW l \in Entitlement
  PROVE  Recalculated(l) \in Entitlement
<1>1. EdgeStatus(l.max, l.exp, l.status) \in Status
  BY DEF EdgeStatus, Status
<1> QED
  BY <1>1 DEF Recalculated, Entitlement

(* An expiry counted from today is a day.                                     *)
LEMMA UntilType ==
  ASSUME today \in Day, NEW days \in Nat
  PROVE  Until(days) \in Day
BY LicenseTermsAssumption DEF Until, Day

(* The licence of an activated key and the local trial are licences.          *)
LEMMA AppliedType ==
  ASSUME today \in Day, NEW k \in Key
  PROVE  Applied(k) \in Entitlement
<1>1. Guess[k] \in [max : Limit, days : Day]
  BY LicenseEdgeAssumption
<1>2. Until(Guess[k].days) \in Day
  BY <1>1, UntilType DEF Day
<1>3. [key |-> k, max |-> Guess[k].max, exp |-> Until(Guess[k].days), status |-> "active"]
        \in Entitlement
  BY <1>1, <1>2 DEF Entitlement, Status
<1> QED
  BY <1>3, RecalculatedType DEF Applied

(* The local trial is a licence.                                            *)
LEMMA TrialType ==
  ASSUME today \in Day
  PROVE  TrialLicense \in Entitlement
<1>1. Until(Trial.days) \in Day
  BY LicenseEdgeAssumption, UntilType DEF Day
<1>2. [key |-> TrialKey, max |-> Trial.max, exp |-> Until(Trial.days), status |-> "active"]
        \in Entitlement
  BY <1>1, LicenseEdgeAssumption DEF Entitlement, Status
<1> QED
  BY <1>2, RecalculatedType DEF TrialLicense

(* What an installation starts with is a licence.                             *)
LEMMA FirstLicenseType ==
  ASSUME today \in Day
  PROVE  FirstLicense \in Entitlement
BY AppliedType, TrialType, LicenseEdgeAssumption DEF FirstLicense

(* What is loaded at boot is a licence.                                     *)
LEMMA LoadedType ==
  ASSUME today \in Day, EdgeTypeOK
  PROVE  Loaded \in Entitlement
BY FirstLicenseType, RecalculatedType DEF Loaded, EdgeTypeOK

(* The master's answer to a heartbeat is one of the replies the edge knows.     *)
LEMMA ReplyType ==
  ASSUME MasterTypeOK, NEW k
  PROVE  HeartbeatReply(k) \in Reply
<1>1. CASE ~Held(k)
  BY <1>1 DEF HeartbeatReply, Reply
<1>2. CASE Held(k)
  <2>1. issued[k] \in Licence
    BY <1>2 DEF Held, MasterTypeOK
  <2>2. MasterStatus(FALSE, issued[k].exp, issued[k].grace) \in Status
    BY DEF MasterStatus, Status
  <2> QED
    BY <1>2, <2>1, <2>2 DEF HeartbeatReply, Reply, Licence
<1> QED
  BY <1>1, <1>2

-----------------------------------------------------------------------------
(* Types: the master *)

(* Update leaves licences in the master's table.                            *)
LEMMA UpdateType ==
  ASSUME MasterTypeOK, NEW k \in Generated, NEW max \in Limit, NEW exp \in Day,
         NEW s \in BOOLEAN, NEW g \in Graces \cup {0}, Update(k, max, exp, s, g)
  PROVE  issued' \in [Generated -> Licence]
BY DEF Update, MasterTypeOK, Licence

(* Every request of the panel keeps the master's types.                       *)
LEMMA MasterType ==
  ASSUME MasterTypeOK, MasterNext
  PROVE  MasterTypeOK' /\ today' = today
<1>c. /\ Period \subseteq Nat \ {0}
      /\ Offer \subseteq Limit \X (Nat \ {0})
      /\ MaxOps \in Nat /\ MaxDay \in Nat /\ MaxLimit \in Nat
  BY LicenseMasterAssumption, LicenseTermsAssumption
<1> USE <1>c
<1>z. 0 \in Limit /\ 0 \in Day
  BY DEF Limit, Day
<1>p. \A x \in Period \cup {0} : x \in Nat
  OBVIOUS
<1>0. ASSUME Request PROVE ops' \in 0..MaxOps
  BY <1>0 DEF Request, MasterTypeOK
<1>1. ASSUME NEW k \in Generated, NEW o \in Offer, NEW g \in Graces \cup {0},
             CreateLicense(k, o[1], o[2], g)
      PROVE  MasterTypeOK' /\ today' = today
  <2>1. o[1] \in Limit /\ today + o[2] \in Day
    BY <1>1 DEF CreateLicense, MasterTypeOK, Day
  <2>2. issued' \in [Generated -> Licence]
    BY <1>1, <2>1 DEF CreateLicense, MasterTypeOK, Licence
  <2> QED
    BY <1>0, <1>1, <2>2 DEF CreateLicense, MasterTypeOK
<1>2. ASSUME NEW k \in Generated, NEW max \in Limit, NEW exp \in Day, NEW s \in BOOLEAN,
             NEW g \in Graces \cup {0}, UpdateLicense(k, max, exp, s, g)
      PROVE  MasterTypeOK' /\ today' = today
  BY <1>0, <1>2, UpdateType DEF UpdateLicense, MasterTypeOK
<1>3. ASSUME NEW k \in Generated, DeleteLicense(k)
      PROVE  MasterTypeOK' /\ today' = today
  <2>1. [Unissued EXCEPT !.life = "deleted"] \in Licence
    BY <1>z DEF Unissued, Licence
  <2> QED
    BY <1>0, <1>3, <2>1 DEF DeleteLicense, MasterTypeOK
<1>4. ASSUME NEW a \in Admin, NEW k \in Generated, NEW op \in {"toggle", "renew"},
             NEW days \in Period \cup {0}, Begin(a, op, k, days)
      PROVE  MasterTypeOK' /\ today' = today
  <2>1. [op |-> op, key |-> k, seen |-> issued[k], days |-> days] \in PanelOp
    BY DEF PanelOp, MasterTypeOK
  <2> QED
    BY <1>0, <1>4, <2>1 DEF Begin, MasterTypeOK
<1>5. ASSUME NEW a \in Admin, NotFound(a) \/ ToggleStatus(a) \/ RenewLicense(a)
      PROVE  MasterTypeOK' /\ today' = today
  <2>1. panel' \in [Admin -> PanelOp]
    BY <1>5 DEF NotFound, ToggleStatus, RenewLicense, Done, MasterTypeOK, PanelOp
  <2>2. CASE NotFound(a)
    BY <2>1, <2>2 DEF NotFound, MasterTypeOK
  <2>3. CASE ToggleStatus(a)
    <3>1. panel[a] \in PanelOp /\ panel[a] # NoOp
      BY <2>3 DEF ToggleStatus, MasterTypeOK, NoOp
    <3>2. panel[a].key \in Generated /\ panel[a].seen \in Licence
      BY <3>1 DEF PanelOp
    <3>3. issued[panel[a].key].exp \in Day /\ (~panel[a].seen.suspended) \in BOOLEAN
      BY <3>2 DEF MasterTypeOK, Licence
    <3>4. Update(panel[a].key, 0, issued[panel[a].key].exp, ~panel[a].seen.suspended, 0)
      BY <2>3 DEF ToggleStatus
    <3>5. issued' \in [Generated -> Licence]
      BY <1>z, <3>2, <3>3, <3>4, UpdateType
    <3> QED
      BY <2>1, <2>3, <3>5 DEF ToggleStatus, MasterTypeOK
  <2>4. CASE RenewLicense(a)
    <3>1. panel[a] \in PanelOp /\ panel[a] # NoOp
      BY <2>4 DEF RenewLicense, MasterTypeOK, NoOp
    <3>2. /\ panel[a].key \in Generated /\ panel[a].seen \in Licence
          /\ panel[a].days \in Period \cup {0}
      BY <3>1 DEF PanelOp
    <3>d. panel[a].days \in Nat
      BY <3>2, <1>p, Zenon
    <3> DEFINE base == IF panel[a].seen.exp <= today THEN today ELSE panel[a].seen.exp
    <3>e. today \in Day /\ panel[a].seen.exp \in Day
      BY <3>2 DEF MasterTypeOK, Licence
    <3>3. base \in Day
      BY <3>e
    <3>4. base + panel[a].days \in Day
      BY <2>4, <3>d, <3>3 DEF RenewLicense, Day
    <3>5. Update(panel[a].key, 0, base + panel[a].days, FALSE, 0)
      BY <2>4 DEF RenewLicense
    <3>6. issued' \in [Generated -> Licence]
      BY <1>z, <3>2, <3>4, <3>5, UpdateType
    <3> QED
      BY <2>1, <2>4, <3>6 DEF RenewLicense, MasterTypeOK
  <2> QED
    BY <1>5, <2>2, <2>3, <2>4
<1> QED
  BY <1>1, <1>2, <1>3, <1>4, <1>5 DEF MasterNext

-----------------------------------------------------------------------------
(* Types: the edge *)

(* A licence that is kept or saved leaves the edge's three licence variables    *)
(* in their types.                                                            *)
LEMMA KeepType ==
  ASSUME EdgeTypeOK, NEW l \in Entitlement, Keep(l) \/ SaveAs(l)
  PROVE  lic' \in Entitlement /\ licFile' \in Entitlement \cup {NoFile} /\ stored' \in BOOLEAN
BY DEF EdgeTypeOK, Keep, SaveAs, Save

(* The licence after a good answer is a licence.                              *)
LEMMA GrantedType ==
  ASSUME lic \in Entitlement, NEW m \in Reply, m.code = 200
  PROVE  Granted(m) \in Entitlement
<1>1. m.max \in Limit /\ m.exp \in Day /\ m.status \in Status
  BY DEF Reply
<1>2. [key |-> lic.key, max |-> IF m.max > 0 THEN m.max ELSE lic.max,
       exp |-> m.exp, status |-> m.status] \in Entitlement
  BY <1>1 DEF Entitlement
<1> QED
  BY <1>2, RecalculatedType DEF Granted

(* Applying an answer keeps the edge's types.                                  *)
LEMMA SyncAppliesType ==
  ASSUME EdgeTypeOK, NEW m \in Reply, SyncApplies(m)
  PROVE  EdgeTypeOK'
<1>1. UNCHANGED <<devices, creating>>
  BY DEF SyncApplies
<1>2. lic \in Entitlement
  BY DEF EdgeTypeOK
<1>3. CASE m.code = 200
  <2>1. SaveAs(Granted(m))
    BY <1>3 DEF SyncApplies
  <2> QED
    BY <1>1, <1>2, <1>3, <2>1, GrantedType, KeepType DEF EdgeTypeOK
<1>4. CASE m.code = 403
  <2>1. SaveAs(SuspendedLicense)
    BY <1>4 DEF SyncApplies
  <2>2. SuspendedLicense \in Entitlement
    BY <1>2 DEF SuspendedLicense, Entitlement, Status
  <2> QED
    BY <1>1, <2>1, <2>2, KeepType DEF EdgeTypeOK
<1>5. CASE m.code # 200 /\ m.code # 403
  <2>1. Keep(lic)
    BY <1>5 DEF SyncApplies
  <2> QED
    BY <1>1, <1>2, <2>1, KeepType DEF EdgeTypeOK
<1> QED
  BY <1>3, <1>4, <1>5

(* The steps of the installation's own: statuses, devices and creations.       *)
LEMMA EdgeType ==
  ASSUME today \in Day, EdgeTypeOK, EdgeNext
  PROVE  EdgeTypeOK'
<1>c. MaxDevices \in Nat
  BY LicenseEdgeAssumption
<1>1. CASE GetStatus
  <2>1. Recalculated(lic) \in Entitlement
    BY RecalculatedType DEF EdgeTypeOK
  <2> QED
    BY <1>1, <2>1, KeepType DEF GetStatus, EdgeTypeOK
<1>2. ASSUME NEW r \in Creation, CountDevices(r)
      PROVE  EdgeTypeOK'
  <2>1. [stage |-> "counted", count |-> devices] \in [stage : Stage, count : 0..MaxDevices]
    BY DEF EdgeTypeOK, Stage
  <2> QED
    BY <1>2, <2>1 DEF CountDevices, EdgeTypeOK
<1>i. Idle \in [stage : Stage, count : 0..MaxDevices]
  BY <1>c DEF Idle, Stage
<1>3. ASSUME NEW r \in Creation, CheckCapacity(r)
      PROVE  EdgeTypeOK'
  <2>1. creating[r].count \in 0..MaxDevices
    BY DEF EdgeTypeOK
  <2>2. [stage |-> "allowed", count |-> creating[r].count]
          \in [stage : Stage, count : 0..MaxDevices]
    BY <2>1 DEF Stage
  <2>3. creating' \in [Creation -> [stage : Stage, count : 0..MaxDevices]]
    BY <1>3, <1>i, <2>2 DEF CheckCapacity, EdgeTypeOK
  <2> QED
    BY <1>3, <2>3 DEF CheckCapacity, EdgeTypeOK
<1>4. ASSUME NEW r \in Creation, StoreDevice(r)
      PROVE  EdgeTypeOK'
  BY <1>4, <1>c, <1>i DEF StoreDevice, EdgeTypeOK
<1>5. CASE DeleteDevice
  BY <1>5, <1>c DEF DeleteDevice, EdgeTypeOK
<1> QED
  BY <1>1, <1>2, <1>3, <1>4, <1>5 DEF EdgeNext

-----------------------------------------------------------------------------
(* Types: the system *)

(* The types hold when both servers start.                                  *)
LEMMA LicenseInitType == LicenseInit => LicenseTypeOK
<1> SUFFICES ASSUME LicenseInit PROVE LicenseTypeOK
  OBVIOUS
<1>c. /\ MaxDay \in Nat /\ MaxOps \in Nat /\ MaxLimit \in Nat /\ MaxDevices \in Nat
      /\ MaxActivations \in Nat /\ MaxOutages \in Nat /\ MaxRestarts \in Nat
  BY LicenseTermsAssumption, LicenseMasterAssumption, LicenseEdgeAssumption,
     LicenseSystemAssumption
<1>1. today \in Day
  BY <1>c DEF LicenseInit, Day
<1>2. MasterTypeOK
  <2>1. Unissued \in Licence
    BY <1>c DEF Unissued, Licence, Limit, Day
  <2> QED
    BY <1>1, <1>c, <2>1 DEF LicenseInit, MasterInit, MasterTypeOK, PanelOp
<1>3. EdgeTypeOK
  <2>1. lic \in Entitlement
    BY <1>1, FirstLicenseType DEF LicenseInit, EdgeInit
  <2>2. Idle \in [stage : Stage, count : 0..MaxDevices]
    BY <1>c DEF Idle, Stage
  <2>3. creating \in [Creation -> [stage : Stage, count : 0..MaxDevices]]
    BY <2>2 DEF LicenseInit, EdgeInit
  <2>4. licFile \in Entitlement \cup {NoFile} /\ stored \in BOOLEAN
    BY <2>1 DEF LicenseInit, EdgeInit
  <2>5. devices \in 0..MaxDevices
    BY <1>c DEF LicenseInit, EdgeInit
  <2> QED
    BY <2>1, <2>3, <2>4, <2>5 DEF EdgeTypeOK
<1> QED
  BY <1>c, <1>2, <1>3 DEF LicenseInit, LicenseTypeOK, Heartbeat

(* One step for every action of the system.                                   *)
LEMMA LicenseStepType == LicenseTypeOK /\ [LicenseNext]_licenseVars => LicenseTypeOK'
<1> SUFFICES ASSUME LicenseTypeOK, [LicenseNext]_licenseVars PROVE LicenseTypeOK'
  OBVIOUS
<1>c. MaxDay \in Nat /\ MaxActivations \in Nat /\ MaxOutages \in Nat /\ MaxRestarts \in Nat
  BY LicenseTermsAssumption, LicenseSystemAssumption
<1>d. today \in Day
  BY DEF LicenseTypeOK, MasterTypeOK
<1>k. ASSUME UNCHANGED <<today, masterVars>> PROVE MasterTypeOK'
  BY <1>k DEF LicenseTypeOK, MasterTypeOK, masterVars
<1>e. ASSUME UNCHANGED edgeVars PROVE EdgeTypeOK'
  BY <1>e DEF LicenseTypeOK, EdgeTypeOK, edgeVars
<1>1. CASE SendHeartbeat
  <2>1. lic.key \in Key
    BY DEF LicenseTypeOK, EdgeTypeOK, Entitlement
  <2>2. hb' \in Heartbeat
    BY <1>1, <2>1 DEF SendHeartbeat, Heartbeat
  <2> QED
    BY <1>1, <1>k, <1>e, <2>2 DEF SendHeartbeat, LicenseTypeOK
<1>2. CASE MasterAnswers
  <2>1. HeartbeatReply(hb.key) \in Reply
    BY ReplyType DEF LicenseTypeOK
  <2>2. hb' \in Heartbeat
    BY <1>2, <2>1 DEF MasterAnswers, Heartbeat
  <2> QED
    BY <1>2, <1>k, <1>e, <2>2 DEF MasterAnswers, LicenseTypeOK
<1>3. CASE HeartbeatLost
  <2>1. hb' \in Heartbeat
    BY <1>3 DEF HeartbeatLost, Heartbeat
  <2> QED
    BY <1>3, <1>k, <1>e, <2>1 DEF HeartbeatLost, LicenseTypeOK
<1>4. CASE HeartbeatEnds
  <2>1. hb' \in Heartbeat
    BY <1>4 DEF HeartbeatEnds, Heartbeat
  <2>2. EdgeTypeOK'
    <3>1. CASE SyncFailed
      BY <3>1, <1>d, EdgeType DEF SyncFailed, EdgeNext, LicenseTypeOK
    <3>2. CASE hb.stage = "answered" /\ SyncApplies(hb.reply)
      <4>1. hb.reply \in Reply
        BY <3>2 DEF LicenseTypeOK, Heartbeat, NoHeartbeat
      <4> QED
        BY <3>2, <4>1, SyncAppliesType DEF LicenseTypeOK
    <3> QED
      BY <1>4, <3>1, <3>2 DEF HeartbeatEnds
  <2> QED
    BY <1>4, <1>k, <2>1, <2>2 DEF HeartbeatEnds, LicenseTypeOK
<1>5. CASE NetworkFails
  <2>1. spent' \in [activations : 0..MaxActivations, outages : 0..MaxOutages,
                    restarts : 0..MaxRestarts]
    BY <1>5, <1>c DEF NetworkFails, LicenseTypeOK
  <2> QED
    BY <1>5, <1>k, <1>e, <2>1 DEF NetworkFails, LicenseTypeOK
<1>6. CASE NetworkReturns
  BY <1>6, <1>k, <1>e DEF NetworkReturns, LicenseTypeOK
<1>7. CASE DayPasses
  <2>1. today' \in Day
    BY <1>7, <1>c, <1>d DEF DayPasses, NextDay, Day
  <2>2. MasterTypeOK'
    BY <1>7, <2>1 DEF DayPasses, masterVars, LicenseTypeOK, MasterTypeOK
  <2> QED
    BY <1>7, <1>e, <2>2 DEF DayPasses, LicenseTypeOK
<1>8. CASE PanelStep
  BY <1>8, <1>e, MasterType DEF PanelStep, LicenseTypeOK
<1>9. CASE InstallationStep
  BY <1>9, <1>d, <1>k, EdgeType DEF InstallationStep, LicenseTypeOK
<1>10. ASSUME NEW k \in Key, ActivateKey(k) PROVE LicenseTypeOK'
  <2>1. EdgeTypeOK'
    BY <1>10, <1>d, AppliedType, KeepType
       DEF ActivateKey, Activate, LicenseTypeOK, EdgeTypeOK
  <2>2. spent' \in [activations : 0..MaxActivations, outages : 0..MaxOutages,
                    restarts : 0..MaxRestarts]
    BY <1>10, <1>c DEF ActivateKey, LicenseTypeOK
  <2>3. hb' \in Heartbeat
    BY <1>10 DEF ActivateKey, LicenseTypeOK, Heartbeat, NoHeartbeat
  <2> QED
    BY <1>10, <1>k, <2>1, <2>2, <2>3 DEF ActivateKey, LicenseTypeOK
<1>11. CASE Restart
  <2>1. Loaded \in Entitlement
    BY <1>d, LoadedType DEF LicenseTypeOK
  <2>2. Idle \in [stage : Stage, count : 0..MaxDevices]
    BY LicenseEdgeAssumption DEF Idle, Stage
  <2>3. EdgeTypeOK'
    BY <1>11, <2>1, <2>2, KeepType DEF Restart, Boot, LicenseTypeOK, EdgeTypeOK
  <2>4. spent' \in [activations : 0..MaxActivations, outages : 0..MaxOutages,
                    restarts : 0..MaxRestarts]
    BY <1>11, <1>c DEF Restart, LicenseTypeOK
  <2> QED
    BY <1>11, <1>k, <2>3, <2>4 DEF Restart, LicenseTypeOK, Heartbeat
<1>12. CASE UNCHANGED licenseVars
  BY <1>12, <1>k, <1>e DEF licenseVars, LicenseTypeOK
<1> QED
  BY <1>1, <1>2, <1>3, <1>4, <1>5, <1>6, <1>7, <1>8, <1>9, <1>10, <1>11, <1>12
     DEF LicenseNext, Sync

(* The licence of the edge, its file, the master's licences, the requests and   *)
(* the heartbeat keep their types in every reachable state; the edge never has   *)
(* a status outside the four.                                                 *)
THEOREM LicenseTypeCorrect == LicenseSpec => []LicenseTypeOK
BY LicenseInitType, LicenseStepType, PTL DEF LicenseSpec

-----------------------------------------------------------------------------
(* A restart keeps the licence *)

(* What a successful write leaves behind.  The file need not have the status of *)
(* the licence in memory, which is worked out again without being saved; but as *)
(* long as the status depends on it, both are suspended or neither is.  Days     *)
(* only go by, so that a difference made after the expiry never matters again.  *)
FileAgrees ==
  stored =>
    /\ licFile \in Entitlement
    /\ licFile.key = lic.key /\ licFile.max = lic.max /\ licFile.exp = lic.exp
    /\ lic.max # Unlimited /\ today <= lic.exp
         => (licFile.status = "suspended" <=> lic.status = "suspended")

(* Two licences that agree have the same status when it is worked out.          *)
LEMMA AgreeRecalculated ==
  ASSUME lic \in Entitlement, FileAgrees, stored
  PROVE  Recalculated(licFile) = Recalculated(lic)
<1>1. EdgeStatus(licFile.max, licFile.exp, licFile.status)
        = EdgeStatus(lic.max, lic.exp, lic.status)
  BY DEF FileAgrees, EdgeStatus
<1> QED
  BY <1>1 DEF FileAgrees, Recalculated, Entitlement

(* A licence that is saved agrees with its file, or the write has failed.   *)
LEMMA SavedAgrees ==
  ASSUME NEW l \in Entitlement, SaveAs(l)
  PROVE  FileAgrees'
BY DEF SaveAs, Save, FileAgrees

(* Working out the status again leaves the agreement as it was.             *)
LEMMA RecalculationAgrees ==
  ASSUME lic \in Entitlement, FileAgrees, Keep(Recalculated(lic)), today' = today
  PROVE  FileAgrees'
<1>1. /\ lic'.key = lic.key /\ lic'.max = lic.max /\ lic'.exp = lic.exp
      /\ lic'.status = EdgeStatus(lic.max, lic.exp, lic.status)
  BY DEF Keep, Recalculated, Entitlement
<1>2. lic.max # Unlimited /\ today <= lic.exp
        => (lic'.status = "suspended" <=> lic.status = "suspended")
  BY <1>1 DEF EdgeStatus
<1> QED
  BY <1>1, <1>2 DEF FileAgrees, Keep

(* So does a step that leaves the licence and its file alone.               *)
LEMMA UnchangedAgrees ==
  ASSUME FileAgrees, UNCHANGED <<lic, licFile, stored, today>>
  PROVE  FileAgrees'
BY DEF FileAgrees

(* Every step of the system keeps the agreement.                            *)
LEMMA FileAgreesStep ==
  LicenseTypeOK /\ FileAgrees /\ [LicenseNext]_licenseVars => FileAgrees'
<1> SUFFICES ASSUME LicenseTypeOK, FileAgrees, [LicenseNext]_licenseVars PROVE FileAgrees'
  OBVIOUS
<1>d. today \in Day /\ lic \in Entitlement
  BY DEF LicenseTypeOK, MasterTypeOK, EdgeTypeOK
<1>1. CASE SendHeartbeat \/ MasterAnswers \/ HeartbeatLost
  BY <1>1, UnchangedAgrees DEF SendHeartbeat, MasterAnswers, HeartbeatLost, edgeVars
<1>2. CASE HeartbeatEnds
  <2>1. today' = today
    BY <1>2 DEF HeartbeatEnds
  <2>2. CASE SyncFailed
    BY <2>1, <2>2, <1>d, RecalculationAgrees DEF SyncFailed, GetStatus
  <2>3. CASE hb.stage = "answered" /\ SyncApplies(hb.reply)
    <3>1. hb.reply \in Reply
      BY <2>3 DEF LicenseTypeOK, Heartbeat, NoHeartbeat
    <3>2. CASE hb.reply.code = 200
      BY <2>3, <3>1, <3>2, <1>d, GrantedType, SavedAgrees DEF SyncApplies
    <3>3. CASE hb.reply.code = 403
      <4>1. SuspendedLicense \in Entitlement
        BY <1>d DEF SuspendedLicense, Entitlement, Status
      <4> QED
        BY <2>3, <3>3, <4>1, SavedAgrees DEF SyncApplies
    <3>4. CASE hb.reply.code # 200 /\ hb.reply.code # 403
      BY <2>1, <2>3, <3>4, UnchangedAgrees DEF SyncApplies, Keep
    <3> QED
      BY <3>2, <3>3, <3>4
  <2> QED
    BY <1>2, <2>2, <2>3 DEF HeartbeatEnds
<1>3. CASE NetworkFails \/ NetworkReturns
  BY <1>3, UnchangedAgrees DEF NetworkFails, NetworkReturns, edgeVars
<1>4. CASE DayPasses
  <2>1. UNCHANGED <<lic, licFile, stored>> /\ today' = today + 1
    BY <1>4 DEF DayPasses, NextDay, edgeVars
  <2>2. ASSUME stored PROVE lic.exp \in Day /\ (today' <= lic.exp => today <= lic.exp)
    BY <1>d, <2>1 DEF Entitlement, Day
  <2> QED
    BY <2>1, <2>2 DEF FileAgrees
<1>5. CASE PanelStep
  BY <1>5, MasterType, UnchangedAgrees DEF PanelStep, edgeVars, LicenseTypeOK
<1>6. CASE InstallationStep
  <2>1. CASE GetStatus
    BY <1>6, <2>1, <1>d, RecalculationAgrees DEF InstallationStep, GetStatus
  <2>2. CASE ~GetStatus
    <3>1. UNCHANGED <<lic, licFile, stored, today>>
      BY <1>6, <2>2
         DEF InstallationStep, EdgeNext, CountDevices, CheckCapacity, StoreDevice, DeleteDevice
    <3> QED
      BY <3>1, UnchangedAgrees
  <2> QED
    BY <2>1, <2>2
<1>7. ASSUME NEW k \in Key, ActivateKey(k) PROVE FileAgrees'
  BY <1>7, <1>d, AppliedType, SavedAgrees DEF ActivateKey, Activate
<1>8. CASE Restart
  BY <1>8, <1>d, LoadedType, SavedAgrees DEF Restart, Boot, LicenseTypeOK
<1>9. CASE UNCHANGED licenseVars
  BY <1>9, UnchangedAgrees DEF licenseVars, edgeVars
<1> QED
  BY <1>1, <1>2, <1>3, <1>4, <1>5, <1>6, <1>7, <1>8, <1>9 DEF LicenseNext, Sync

(* The first start saves the licence it has, or fails to.                   *)
LEMMA FileAgreesInit == LicenseInit => FileAgrees
<1> SUFFICES ASSUME LicenseInit PROVE FileAgrees
  OBVIOUS
<1>1. today \in Day
  BY LicenseInitType DEF LicenseTypeOK, MasterTypeOK
<1>2. FirstLicense \in Entitlement
  BY <1>1, FirstLicenseType
<1> QED
  BY <1>2 DEF LicenseInit, EdgeInit, FileAgrees

(* Only Restart counts a restart, and it loads the file.                       *)
LEMMA RestartStep ==
  LicenseTypeOK /\ FileAgrees /\ [LicenseNext]_licenseVars
    => (spent'.restarts # spent.restarts /\ stored => lic' = Recalculated(lic))
<1> SUFFICES ASSUME LicenseTypeOK, FileAgrees, [LicenseNext]_licenseVars,
                    spent'.restarts # spent.restarts, stored
             PROVE  lic' = Recalculated(lic)
  OBVIOUS
<1>1. Restart
  <2>1. spent \in [activations : 0..MaxActivations, outages : 0..MaxOutages,
                   restarts : 0..MaxRestarts]
    BY DEF LicenseTypeOK
  <2>2. ASSUME NEW k \in Key, ActivateKey(k) PROVE FALSE
    BY <2>1, <2>2 DEF ActivateKey
  <2>3. ~NetworkFails
    BY <2>1 DEF NetworkFails
  <2>4. spent' # spent
    OBVIOUS
  <2>5. ~Sync /\ ~NetworkReturns /\ ~DayPasses /\ ~PanelStep /\ ~InstallationStep
    BY <2>4 DEF Sync, SendHeartbeat, MasterAnswers, HeartbeatLost, HeartbeatEnds,
       NetworkReturns, DayPasses, PanelStep, InstallationStep
  <2>6. LicenseNext
    BY <2>4 DEF licenseVars
  <2> QED
    BY <2>2, <2>3, <2>5, <2>6 DEF LicenseNext
<1>2. lic' = Loaded
  BY <1>1 DEF Restart, Boot, SaveAs
<1>3. licFile # NoFile
  BY DEF FileAgrees, Entitlement, NoFile
<1>4. lic \in Entitlement
  BY DEF LicenseTypeOK, EdgeTypeOK
<1> QED
  BY <1>2, <1>3, <1>4, AgreeRecalculated DEF Loaded

(* Whatever was activated, suspended, renewed or recalculated before: after a   *)
(* write that succeeded a restart brings back the licence that was in memory.    *)
THEOREM RestartsKeepTheLicence == LicenseSpec => RestartKeepsLicence
<1>1. LicenseSpec => [](LicenseTypeOK /\ FileAgrees)
  BY LicenseInitType, LicenseStepType, FileAgreesInit, FileAgreesStep, PTL DEF LicenseSpec
<1> QED
  BY <1>1, RestartStep, PTL DEF LicenseSpec, RestartKeepsLicence

-----------------------------------------------------------------------------
(* The bound on devices *)

AlwaysLimited == (\A k \in Key : Guess[k].max # Unlimited) /\ Trial.max # Unlimited

(* The creations that may still store a device: those that were allowed to, and *)
(* those whose count is below the greatest limit and may yet be allowed.         *)
Pending ==
  {r \in Creation :
     \/ creating[r].stage = "allowed"
     \/ creating[r].stage = "counted" /\ creating[r].count < MaxLimit}

(* An installation that never guesses "no limit" never has it, and each pending *)
(* creation has a place below the bound reserved for it.                        *)
LimitKnown ==
  lic.max # Unlimited /\ (licFile # NoFile => licFile.max # Unlimited)

PlacesReserved == devices + Cardinality(Pending) <= MaxLimit + Cardinality(Creation) - 1

(* Pending creations can be counted; they are at most all creations.        *)
LEMMA PendingFinite ==
  ASSUME EdgeTypeOK
  PROVE  /\ IsFiniteSet(Pending)
         /\ Cardinality(Pending) \in Nat /\ Cardinality(Creation) \in Nat
         /\ Cardinality(Pending) <= Cardinality(Creation)
<1>1. IsFiniteSet(Creation)
  BY LicenseEdgeAssumption
<1>2. Pending \subseteq Creation
  BY DEF Pending
<1> QED
  BY <1>1, <1>2, FS_Subset, FS_CardinalityType

(* With no more devices and no more pending creations the places still suffice.  *)
LEMMA FewerPending ==
  ASSUME EdgeTypeOK, EdgeTypeOK', PlacesReserved, devices' <= devices, Pending' \subseteq Pending
  PROVE  PlacesReserved'
<1>1. IsFiniteSet(Pending) /\ Cardinality(Pending) \in Nat /\ Cardinality(Creation) \in Nat
  BY PendingFinite
<1>2. Cardinality(Pending') \in Nat /\ Cardinality(Pending') <= Cardinality(Pending)
  BY <1>1, FS_Subset, FS_CardinalityType
<1>3. devices \in Nat /\ devices' \in Nat /\ MaxLimit \in Nat
  BY LicenseEdgeAssumption, LicenseTermsAssumption DEF EdgeTypeOK
<1> QED
  BY <1>1, <1>2, <1>3 DEF PlacesReserved

(* One step for each of the steps that change devices or creations.             *)
LEMMA InstallationReserves ==
  ASSUME EdgeTypeOK, EdgeTypeOK', LimitKnown, PlacesReserved, EdgeNext
  PROVE  PlacesReserved'
<1>c. MaxLimit \in Nat \ {0} /\ MaxDevices \in Nat /\ IsFiniteSet(Creation)
  BY LicenseEdgeAssumption, LicenseTermsAssumption
<1>d. devices \in Nat /\ devices' \in Nat
  BY <1>c DEF EdgeTypeOK
<1>n. ASSUME NEW r \in Creation PROVE creating[r].count \in Nat
  BY <1>c DEF EdgeTypeOK
<1>f. /\ IsFiniteSet(Pending)
      /\ Cardinality(Pending) \in Nat /\ Cardinality(Creation) \in Nat
  BY PendingFinite
<1>1. CASE GetStatus
  BY <1>1, <1>d, FewerPending DEF GetStatus, Pending
<1>2. ASSUME NEW r \in Creation, CountDevices(r)
      PROVE  PlacesReserved'
  <2>1. devices' = devices
    BY <1>2 DEF CountDevices
  <2>2. /\ creating'[r] = [stage |-> "counted", count |-> devices]
        /\ \A q \in Creation \ {r} : creating'[q] = creating[q]
    BY <1>2 DEF CountDevices, EdgeTypeOK
  <2>3. CASE devices < MaxLimit
    <3>1. Pending' \subseteq Creation
      BY DEF Pending
    <3>2. Cardinality(Pending') \in Nat /\ Cardinality(Pending') <= Cardinality(Creation)
      BY <1>c, <3>1, FS_Subset, FS_CardinalityType
    <3> QED
      BY <1>c, <1>d, <1>f, <2>1, <2>3, <3>2 DEF PlacesReserved
  <2>4. CASE ~(devices < MaxLimit)
    <3>1. ~(creating'[r].stage = "allowed")
          /\ ~(creating'[r].stage = "counted" /\ creating'[r].count < MaxLimit)
      BY <2>2, <2>4
    <3>2. Pending' \subseteq Pending
      BY <2>2, <3>1 DEF Pending
    <3> QED
      BY <1>d, <2>1, <3>2, FewerPending
  <2> QED
    BY <2>3, <2>4
<1>3. ASSUME NEW r \in Creation, CheckCapacity(r)
      PROVE  PlacesReserved'
  <2>1. devices' = devices
    BY <1>3 DEF CheckCapacity
  <2>2. \A q \in Creation \ {r} : creating'[q] = creating[q]
    BY <1>3 DEF CheckCapacity, EdgeTypeOK
  <2>3. CASE CanAddDevice(creating[r].count)
    <3>1. lic.max \in Nat /\ lic.max <= MaxLimit
      BY <1>c DEF EdgeTypeOK, Entitlement, Limit
    <3>2. creating[r].count < MaxLimit
      BY <1>c, <1>n, <2>3, <3>1 DEF CanAddDevice, LimitKnown
    <3>3. r \in Pending
      BY <1>3, <3>2 DEF CheckCapacity, Pending
    <3>4. Pending' \subseteq Pending
      BY <2>2, <3>3 DEF Pending
    <3> QED
      BY <1>d, <2>1, <3>4, FewerPending
  <2>4. CASE ~CanAddDevice(creating[r].count)
    <3>1. creating'[r] = Idle
      BY <1>3, <2>4 DEF CheckCapacity, EdgeTypeOK
    <3>2. Pending' \subseteq Pending
      BY <2>2, <3>1 DEF Pending, Idle
    <3> QED
      BY <1>d, <2>1, <3>2, FewerPending
  <2> QED
    BY <2>3, <2>4
<1>4. ASSUME NEW r \in Creation, StoreDevice(r)
      PROVE  PlacesReserved'
  <2>1. r \in Pending
    BY <1>4 DEF StoreDevice, Pending
  <2>2. /\ creating'[r] = Idle
        /\ \A q \in Creation \ {r} : creating'[q] = creating[q]
    BY <1>4 DEF StoreDevice, EdgeTypeOK
  <2>3. Pending' \subseteq Pending \ {r}
    BY <2>2 DEF Pending, Idle
  <2>4. IsFiniteSet(Pending \ {r}) /\ Cardinality(Pending \ {r}) = Cardinality(Pending) - 1
    BY <1>f, <2>1, FS_RemoveElement
  <2>5. Cardinality(Pending') \in Nat /\ Cardinality(Pending') <= Cardinality(Pending) - 1
    BY <2>3, <2>4, FS_Subset, FS_CardinalityType
  <2>6. devices' = devices + 1
    BY <1>4 DEF StoreDevice
  <2> QED
    BY <1>c, <1>d, <1>f, <2>5, <2>6 DEF PlacesReserved
<1>5. CASE DeleteDevice
  BY <1>5, <1>d, FewerPending DEF DeleteDevice, Pending
<1> QED
  BY <1>1, <1>2, <1>3, <1>4, <1>5 DEF EdgeNext

(* Keeping or saving a limited licence keeps the installation limited.          *)
LEMMA LimitKept ==
  ASSUME LimitKnown, NEW l \in Entitlement, l.max # Unlimited, Keep(l) \/ SaveAs(l)
  PROVE  LimitKnown'
BY DEF LimitKnown, Keep, SaveAs, Save

(* What the edge works out of a limited licence, or guesses itself, is limited.  *)
LEMMA RecalculatedLimit ==
  ASSUME NEW l \in Entitlement
  PROVE  Recalculated(l).max = l.max
BY DEF Recalculated, Entitlement

(* An activated key has a limit when every guess has one.                   *)
LEMMA AppliedLimit ==
  ASSUME AlwaysLimited, NEW k \in Key
  PROVE  Applied(k).max # Unlimited
BY DEF Applied, AlwaysLimited, Recalculated

(* So has what an installation starts with.                                 *)
LEMMA FirstLimit ==
  ASSUME AlwaysLimited
  PROVE  FirstLicense.max # Unlimited
<1>1. TrialLicense.max # Unlimited
  BY DEF TrialLicense, AlwaysLimited, Recalculated
<1> QED
  BY <1>1, AppliedLimit, LicenseEdgeAssumption DEF FirstLicense

(* So has what is loaded at boot.                                           *)
LEMMA LoadedLimit ==
  ASSUME AlwaysLimited, EdgeTypeOK, LimitKnown
  PROVE  Loaded.max # Unlimited
BY FirstLimit, RecalculatedLimit DEF Loaded, LimitKnown, EdgeTypeOK

(* An answer of the master never takes the limit away: 0 leaves it.         *)
LEMMA GrantedLimit ==
  ASSUME LimitKnown, NEW m \in Reply, m.code = 200
  PROVE  Granted(m).max # Unlimited
<1>1. m.max \in Limit
  BY DEF Reply
<1> QED
  BY <1>1 DEF Granted, LimitKnown, Recalculated, Unlimited, Limit

(* What keeps the devices and the creations as they are keeps the places.       *)
LEMMA PlacesKept ==
  ASSUME PlacesReserved, UNCHANGED <<devices, creating>>
  PROVE  PlacesReserved'
BY DEF PlacesReserved, Pending

(* Every step of the system keeps the installation limited.                 *)
LEMMA LimitStep ==
  ASSUME LicenseTypeOK, AlwaysLimited, LimitKnown, [LicenseNext]_licenseVars
  PROVE  LimitKnown'
<1>d. today \in Day /\ lic \in Entitlement /\ EdgeTypeOK
  BY DEF LicenseTypeOK, MasterTypeOK, EdgeTypeOK
<1>k. ASSUME UNCHANGED <<lic, licFile>> PROVE LimitKnown'
  BY <1>k DEF LimitKnown
<1>r. ASSUME GetStatus PROVE LimitKnown'
  <2>1. Recalculated(lic) \in Entitlement /\ Recalculated(lic).max # Unlimited
    BY <1>d, RecalculatedType, RecalculatedLimit DEF LimitKnown
  <2> QED
    BY <1>r, <2>1, LimitKept DEF GetStatus
<1>1. CASE HeartbeatEnds
  <2>1. CASE SyncFailed
    BY <2>1, <1>r DEF SyncFailed
  <2>2. CASE hb.stage = "answered" /\ SyncApplies(hb.reply)
    <3>1. hb.reply \in Reply
      BY <2>2 DEF LicenseTypeOK, Heartbeat, NoHeartbeat
    <3>2. CASE hb.reply.code = 200
      BY <2>2, <3>1, <3>2, <1>d, GrantedType, GrantedLimit, LimitKept DEF SyncApplies
    <3>3. CASE hb.reply.code = 403
      <4>1. SuspendedLicense \in Entitlement /\ SuspendedLicense.max # Unlimited
        BY <1>d DEF SuspendedLicense, Entitlement, Status, LimitKnown
      <4> QED
        BY <2>2, <3>3, <4>1, LimitKept DEF SyncApplies
    <3>4. CASE hb.reply.code # 200 /\ hb.reply.code # 403
      BY <2>2, <3>4, <1>k DEF SyncApplies, Keep
    <3> QED
      BY <3>2, <3>3, <3>4
  <2> QED
    BY <1>1, <2>1, <2>2 DEF HeartbeatEnds
<1>2. CASE InstallationStep
  <2>1. CASE ~GetStatus
    BY <1>2, <1>k, <2>1
       DEF InstallationStep, EdgeNext, CountDevices, CheckCapacity, StoreDevice, DeleteDevice
  <2> QED
    BY <1>r, <2>1
<1>3. ASSUME NEW k \in Key, ActivateKey(k) PROVE LimitKnown'
  BY <1>3, <1>d, AppliedType, AppliedLimit, LimitKept DEF ActivateKey, Activate
<1>4. CASE Restart
  BY <1>4, <1>d, LoadedType, LoadedLimit, LimitKept DEF Restart, Boot
<1>5. CASE UNCHANGED edgeVars
  BY <1>5, <1>k DEF edgeVars
<1> QED
  BY <1>1, <1>2, <1>3, <1>4, <1>5
     DEF LicenseNext, Sync, SendHeartbeat, MasterAnswers, HeartbeatLost, NetworkFails,
         NetworkReturns, DayPasses, PanelStep, licenseVars

(* Every step of the system keeps the places reserved.                      *)
LEMMA PlacesStep ==
  ASSUME LicenseTypeOK, LicenseTypeOK', LimitKnown, PlacesReserved, [LicenseNext]_licenseVars
  PROVE  PlacesReserved'
<1>e. EdgeTypeOK /\ EdgeTypeOK'
  BY DEF LicenseTypeOK
<1>1. CASE HeartbeatEnds
  BY <1>1, PlacesKept DEF HeartbeatEnds, SyncFailed, GetStatus, SyncApplies
<1>2. CASE InstallationStep
  BY <1>2, <1>e, InstallationReserves DEF InstallationStep
<1>3. ASSUME NEW k \in Key, ActivateKey(k) PROVE PlacesReserved'
  BY <1>3, PlacesKept DEF ActivateKey, Activate
<1>4. CASE Restart
  <2>1. devices' = devices /\ creating' = [r \in Creation |-> Idle]
    BY <1>4 DEF Restart, Boot
  <2>2. Pending' \subseteq Pending
    BY <2>1 DEF Pending, Idle
  <2>3. devices' <= devices
    BY <2>1, <1>e, LicenseEdgeAssumption DEF EdgeTypeOK
  <2> QED
    BY <1>e, <2>2, <2>3, FewerPending
<1>5. CASE UNCHANGED edgeVars
  BY <1>5, PlacesKept DEF edgeVars
<1> QED
  BY <1>1, <1>2, <1>3, <1>4, <1>5
     DEF LicenseNext, Sync, SendHeartbeat, MasterAnswers, HeartbeatLost, NetworkFails,
         NetworkReturns, DayPasses, PanelStep, licenseVars

QuotaInv == AlwaysLimited => LimitKnown /\ PlacesReserved

(* The invariant of the bound holds at the first start.                     *)
LEMMA QuotaInit == LicenseInit => QuotaInv
<1> SUFFICES ASSUME LicenseInit, AlwaysLimited PROVE LimitKnown /\ PlacesReserved
  BY DEF QuotaInv
<1>1. LimitKnown
  BY FirstLimit DEF LicenseInit, EdgeInit, LimitKnown
<1>2. Pending = {}
  BY DEF LicenseInit, EdgeInit, Pending, Idle
<1>3. Cardinality(Pending) = 0 /\ Cardinality(Creation) \in Nat
  BY <1>2, FS_EmptySet, FS_CardinalityType, LicenseEdgeAssumption
<1>4. devices = 0 /\ MaxLimit \in Nat \ {0}
  BY LicenseTermsAssumption DEF LicenseInit, EdgeInit
<1> QED
  BY <1>1, <1>3, <1>4 DEF PlacesReserved

(* Every step keeps it.                                                     *)
LEMMA QuotaStep ==
  LicenseTypeOK /\ LicenseTypeOK' /\ QuotaInv /\ [LicenseNext]_licenseVars => QuotaInv'
<1> SUFFICES ASSUME LicenseTypeOK, LicenseTypeOK', QuotaInv, [LicenseNext]_licenseVars,
                    AlwaysLimited
             PROVE  LimitKnown' /\ PlacesReserved'
  BY DEF QuotaInv, AlwaysLimited
<1>1. LimitKnown /\ PlacesReserved
  BY DEF QuotaInv
<1> QED
  BY <1>1, LimitStep, PlacesStep

(* It implies the bound.                                                    *)
LEMMA QuotaBounds == LicenseTypeOK /\ QuotaInv => OvershootBounded
<1> SUFFICES ASSUME LicenseTypeOK, PlacesReserved
             PROVE  devices <= MaxLimit + Cardinality(Creation) - 1
  BY DEF QuotaInv, OvershootBounded, AlwaysLimited
<1>1. Cardinality(Pending) \in Nat /\ Cardinality(Creation) \in Nat
  BY PendingFinite DEF LicenseTypeOK
<1>2. devices \in Nat /\ MaxLimit \in Nat
  BY LicenseEdgeAssumption, LicenseTermsAssumption DEF LicenseTypeOK, EdgeTypeOK
<1> QED
  BY <1>1, <1>2 DEF PlacesReserved

(* However many creations run at the same time, and whatever happens to the      *)
(* licence in between, the devices exceed the greatest limit by fewer than the    *)
(* creations.                                                                  *)
THEOREM OvershootIsBounded == LicenseSpec => []OvershootBounded
<1>1. LicenseTypeOK /\ QuotaInv /\ [LicenseNext]_licenseVars => LicenseTypeOK' /\ QuotaInv'
  BY LicenseStepType, QuotaStep
<1> QED
  BY <1>1, LicenseInitType, QuotaInit, QuotaBounds, PTL DEF LicenseSpec

-----------------------------------------------------------------------------
(* What the servers agree on *)

(* The master's last word on a licence, as far as the edge keeps it.        *)
AnswersFor(k) ==
  /\ hb.stage = "answered" /\ hb.reply.code = 200 /\ hb.reply.status # "suspended"
  /\ hb.reply.exp = issued[k].exp /\ hb.reply.max = issued[k].max

(* The edge has the terms the master has of a licence in force, and no       *)
(* heartbeat on its way tells anything else.                                 *)
UpToDate ==
  /\ InForce(lic.key) /\ lic.status # "suspended"
  /\ lic.exp = issued[lic.key].exp
  /\ issued[lic.key].max > 0 => lic.max = issued[lic.key].max
  /\ hb.stage = "sent" => hb.key = lic.key
  /\ hb.stage = "answered" => AnswersFor(lic.key)

(* Grace is over for one of the servers and not for the other: each counts    *)
(* its own days, and the answer does not tell the master's.                  *)
GracesDiffer ==
  LET k == lic.key
  IN today > lic.exp /\ ((today - lic.exp < Grace) # (today - lic.exp < issued[k].grace))

(* When a licence with a limit is shown with one status by both servers: on   *)
(* every day but that of the expiry, which only the master counts as a day of *)
(* grace, and those on which one server's grace is over.                     *)
StatusesAgree ==
  LET k == lic.key
      same == EdgeStatus(lic.max, lic.exp, lic.status)
                = MasterStatus(issued[k].suspended, issued[k].exp, issued[k].grace)
  IN lic.max # Unlimited => (same <=> today # lic.exp /\ ~GracesDiffer)

(* Nobody touches the master's licences or the edge's key, and the process   *)
(* is not started from a file that could not be written.                     *)
Undisturbed ==
  /\ UNCHANGED issued /\ spent'.activations = spent.activations
  /\ spent'.restarts # spent.restarts => stored

(* An answer with the master's terms arrives, while they stand.              *)
TermsArrive == HeartbeatEnds /\ InForce(lic.key) /\ AnswersFor(lic.key)

(* Such an answer makes the edge agree, and then it agrees until somebody      *)
(* disturbs it; the statuses shown may still differ, on the days named above. *)
EdgeFollowsMaster ==
  [][Undisturbed /\ (UpToDate \/ TermsArrive) => UpToDate' /\ StatusesAgree']_licenseVars

(* The edge is blocked, and no heartbeat on its way tells anything else.     *)
BlockedHere ==
  /\ SuspendedFor(lic.key) /\ lic.status = "suspended"
  /\ lic.max # Unlimited /\ today <= lic.exp
  /\ hb.stage = "sent" => hb.key = lic.key
  /\ hb.stage = "answered" => hb.reply.code = 403

(* The answer that blocks arrives, while the master's word stands.           *)
SuspensionArrives ==
  /\ HeartbeatEnds /\ hb.stage = "answered" /\ hb.reply.code = 403
  /\ SuspendedFor(lic.key) /\ lic.max # Unlimited

(* A licence that the master suspends is blocked by that answer, and stays    *)
(* so until it expires or somebody disturbs it.                              *)
SuspensionStands ==
  [][Undisturbed /\ today' <= lic.exp /\ (BlockedHere \/ SuspensionArrives)
       => BlockedHere']_licenseVars

(* Working out the status again leaves the terms alone, lifts no suspension   *)
(* of a limited licence that has not expired, and makes none.                *)
LEMMA TermsRecalculated ==
  ASSUME NEW l \in Entitlement
  PROVE  LET r == Recalculated(l)
         IN  /\ r.key = l.key /\ r.max = l.max /\ r.exp = l.exp
             /\ l.status # "suspended" => r.status # "suspended"
             /\ l.status = "suspended" /\ l.max # Unlimited /\ today <= l.exp
                  => r.status = "suspended"
<1>1. /\ Recalculated(l).key = l.key /\ Recalculated(l).max = l.max
      /\ Recalculated(l).exp = l.exp
      /\ Recalculated(l).status = EdgeStatus(l.max, l.exp, l.status)
  BY DEF Recalculated, Entitlement
<1> QED
  BY <1>1 DEF EdgeStatus

(* A step of the edge alone: its licence is what it was, or has its status     *)
(* worked out again, on a day that has not changed.                          *)
LEMMA UndisturbedEdge ==
  ASSUME LicenseTypeOK, FileAgrees, [LicenseNext]_licenseVars, Undisturbed, ~HeartbeatEnds
  PROVE  lic' \in {lic, Recalculated(lic)}
<1>1. ASSUME NEW k \in Key, ActivateKey(k) PROVE FALSE
  BY <1>1 DEF ActivateKey, Undisturbed, LicenseTypeOK
<1>2. CASE Restart
  <2>1. spent'.restarts # spent.restarts
    BY <1>2 DEF Restart, LicenseTypeOK
  <2>2. stored
    BY <2>1 DEF Undisturbed
  <2> QED
    BY <2>1, <2>2, RestartStep
<1>3. CASE InstallationStep
  BY <1>3 DEF InstallationStep, EdgeNext, GetStatus, Keep, CountDevices, CheckCapacity,
     StoreDevice, DeleteDevice
<1>4. CASE UNCHANGED edgeVars
  BY <1>4 DEF edgeVars
<1> QED
  BY <1>1, <1>2, <1>3, <1>4
     DEF LicenseNext, Sync, SendHeartbeat, MasterAnswers, HeartbeatLost, NetworkFails,
         NetworkReturns, DayPasses, PanelStep, licenseVars

(* Meanwhile a heartbeat is sent with the edge's key, answered, lost, or as it *)
(* was.                                                                      *)
LEMMA UndisturbedHeartbeat ==
  ASSUME LicenseTypeOK, [LicenseNext]_licenseVars, Undisturbed, ~HeartbeatEnds
  PROVE  \/ hb' = hb
         \/ hb' = [stage |-> "sent", key |-> lic.key]
         \/ hb.stage = "sent" /\ hb' = [stage |-> "answered", reply |-> HeartbeatReply(hb.key)]
         \/ hb' \in {NoHeartbeat, [stage |-> "failed"]}
<1>1. ASSUME NEW k \in Key, ActivateKey(k) PROVE FALSE
  BY <1>1 DEF ActivateKey, Undisturbed, LicenseTypeOK
<1> QED
  BY <1>1 DEF LicenseNext, Sync, SendHeartbeat, MasterAnswers, HeartbeatLost, NetworkFails,
     NetworkReturns, DayPasses, PanelStep, InstallationStep, Restart, licenseVars

(* A licence that keeps its terms keeps them from an answer with these terms.  *)
LEMMA TermsGranted ==
  ASSUME LicenseTypeOK, InForce(lic.key), AnswersFor(lic.key), SyncApplies(hb.reply)
  PROVE  /\ lic'.key = lic.key /\ lic'.status # "suspended"
         /\ lic'.exp = issued[lic.key].exp
         /\ issued[lic.key].max > 0 => lic'.max = issued[lic.key].max
<1>1. hb.reply \in Reply /\ hb.reply.code = 200
  BY DEF LicenseTypeOK, Heartbeat, NoHeartbeat, AnswersFor
<1>2. hb.reply.max \in Limit /\ hb.reply.exp \in Day /\ hb.reply.status \in Status
  BY <1>1 DEF Reply
<1> DEFINE l == [key |-> lic.key, max |-> IF hb.reply.max > 0 THEN hb.reply.max ELSE lic.max,
                 exp |-> hb.reply.exp, status |-> hb.reply.status]
<1>3. l \in Entitlement
  BY <1>2 DEF LicenseTypeOK, EdgeTypeOK, Entitlement
<1>4. lic' = Recalculated(l)
  BY <1>1 DEF SyncApplies, SaveAs, Granted
<1>5. l.key = lic.key /\ l.status # "suspended" /\ l.exp = issued[lic.key].exp
      /\ (issued[lic.key].max > 0 => l.max = issued[lic.key].max)
  BY DEF AnswersFor
<1> HIDE DEF l
<1> QED
  BY <1>3, <1>4, <1>5, TermsRecalculated

(* One step of the agreement.                                               *)
LEMMA TermsStand ==
  ASSUME LicenseTypeOK, FileAgrees, [LicenseNext]_licenseVars, Undisturbed,
         UpToDate \/ TermsArrive
  PROVE  UpToDate'
<1>1. issued' = issued /\ InForce(lic.key)
  BY DEF Undisturbed, UpToDate, TermsArrive
<1>2. lic \in Entitlement
  BY DEF LicenseTypeOK, EdgeTypeOK
<1>3. CASE HeartbeatEnds
  <2>1. hb' = NoHeartbeat
    BY <1>3 DEF HeartbeatEnds
  <2>2. /\ lic'.key = lic.key /\ lic'.status # "suspended"
        /\ lic'.exp = issued[lic.key].exp
        /\ issued[lic.key].max > 0 => lic'.max = issued[lic.key].max
    <3>1. CASE hb.stage = "failed" /\ SyncFailed
      <4>1. lic' = Recalculated(lic)
        BY <3>1 DEF SyncFailed, GetStatus, Keep
      <4>2. UpToDate
        BY <3>1 DEF TermsArrive, AnswersFor
      <4> QED
        BY <1>2, <4>1, <4>2, TermsRecalculated DEF UpToDate
    <3>2. CASE hb.stage = "answered" /\ SyncApplies(hb.reply)
      <4>1. AnswersFor(lic.key)
        BY <3>2 DEF UpToDate, TermsArrive
      <4> QED
        BY <1>1, <3>2, <4>1, TermsGranted
    <3> QED
      BY <1>3, <3>1, <3>2 DEF HeartbeatEnds
  <2> QED
    BY <1>1, <2>1, <2>2 DEF UpToDate, InForce, Held, NoHeartbeat
<1>4. CASE ~HeartbeatEnds
  <2>1. UpToDate
    BY <1>4 DEF TermsArrive
  <2>2. /\ lic'.key = lic.key /\ lic'.status # "suspended"
        /\ lic'.exp = issued[lic.key].exp
        /\ issued[lic.key].max > 0 => lic'.max = issued[lic.key].max
    BY <1>2, <1>4, <2>1, UndisturbedEdge, TermsRecalculated DEF UpToDate
  <2>3. /\ hb'.stage = "sent" => hb'.key = lic.key
        /\ hb'.stage = "answered" => /\ hb'.reply.code = 200 /\ hb'.reply.status # "suspended"
                                     /\ hb'.reply.exp = issued[lic.key].exp
                                     /\ hb'.reply.max = issued[lic.key].max
    <3>1. CASE hb' = hb
      BY <2>1, <3>1 DEF UpToDate, AnswersFor
    <3>2. CASE hb' = [stage |-> "sent", key |-> lic.key]
      BY <3>2
    <3>3. CASE hb.stage = "sent" /\ hb' = [stage |-> "answered", reply |-> HeartbeatReply(hb.key)]
      <4>1. hb.key = lic.key
        BY <2>1, <3>3 DEF UpToDate
      <4>2. HeartbeatReply(lic.key) = [code |-> 200, status |-> MasterStatus(FALSE, issued[lic.key].exp, issued[lic.key].grace),
                                       exp |-> issued[lic.key].exp, max |-> issued[lic.key].max]
        BY <1>1 DEF HeartbeatReply, InForce
      <4>3. MasterStatus(FALSE, issued[lic.key].exp, issued[lic.key].grace) # "suspended"
        BY DEF MasterStatus
      <4>4. hb'.stage = "answered" /\ hb'.reply = HeartbeatReply(lic.key)
        BY <3>3, <4>1
      <4>5. /\ hb'.reply.code = 200 /\ hb'.reply.status = MasterStatus(FALSE, issued[lic.key].exp, issued[lic.key].grace)
            /\ hb'.reply.exp = issued[lic.key].exp /\ hb'.reply.max = issued[lic.key].max
        BY <4>2, <4>4
      <4> QED
        BY <4>3, <4>4, <4>5
    <3>4. CASE hb' \in {NoHeartbeat, [stage |-> "failed"]}
      BY <3>4 DEF NoHeartbeat
    <3> QED
      BY <1>4, <3>1, <3>2, <3>3, <3>4, UndisturbedHeartbeat
  <2> QED
    BY <1>1, <2>2, <2>3 DEF UpToDate, AnswersFor, InForce, Held
<1> QED
  BY <1>3, <1>4

(* One step of the suspension.                                              *)
LEMMA SuspensionKept ==
  ASSUME LicenseTypeOK, FileAgrees, [LicenseNext]_licenseVars, Undisturbed, today' <= lic.exp,
         BlockedHere \/ SuspensionArrives
  PROVE  BlockedHere'
<1>1. issued' = issued /\ SuspendedFor(lic.key) /\ lic.max # Unlimited
  BY DEF Undisturbed, BlockedHere, SuspensionArrives
<1>2. lic \in Entitlement
  BY DEF LicenseTypeOK, EdgeTypeOK
<1>3. CASE HeartbeatEnds
  <2>1. hb' = NoHeartbeat /\ today' = today
    BY <1>3 DEF HeartbeatEnds
  <2>2. lic'.key = lic.key /\ lic'.max = lic.max /\ lic'.exp = lic.exp /\ lic'.status = "suspended"
    <3>1. CASE hb.stage = "failed" /\ SyncFailed
      <4>1. lic' = Recalculated(lic)
        BY <3>1 DEF SyncFailed, GetStatus, Keep
      <4>2. BlockedHere
        BY <3>1 DEF SuspensionArrives
      <4> QED
        BY <1>2, <4>1, <4>2, TermsRecalculated DEF BlockedHere
    <3>2. CASE hb.stage = "answered" /\ SyncApplies(hb.reply)
      <4>1. hb.reply.code = 403
        BY <3>2 DEF BlockedHere, SuspensionArrives
      <4>2. lic' = SuspendedLicense
        BY <3>2, <4>1 DEF SyncApplies, SaveAs
      <4> QED
        BY <1>2, <4>2 DEF SuspendedLicense, Entitlement
    <3> QED
      BY <1>3, <3>1, <3>2 DEF HeartbeatEnds
  <2> QED
    BY <1>1, <2>1, <2>2 DEF BlockedHere, SuspendedFor, Held, NoHeartbeat
<1>4. CASE ~HeartbeatEnds
  <2>1. BlockedHere
    BY <1>4 DEF SuspensionArrives
  <2>2. lic'.key = lic.key /\ lic'.max = lic.max /\ lic'.exp = lic.exp /\ lic'.status = "suspended"
    BY <1>2, <1>4, <2>1, UndisturbedEdge, TermsRecalculated DEF BlockedHere
  <2>3. /\ hb'.stage = "sent" => hb'.key = lic.key
        /\ hb'.stage = "answered" => hb'.reply.code = 403
    <3>1. CASE hb' = hb
      BY <2>1, <3>1 DEF BlockedHere
    <3>2. CASE hb' = [stage |-> "sent", key |-> lic.key]
      BY <3>2
    <3>3. CASE hb.stage = "sent" /\ hb' = [stage |-> "answered", reply |-> HeartbeatReply(hb.key)]
      <4>1. hb.key = lic.key
        BY <2>1, <3>3 DEF BlockedHere
      <4>2. HeartbeatReply(lic.key) = [code |-> 403]
        BY <1>1 DEF HeartbeatReply, SuspendedFor
      <4> QED
        BY <3>3, <4>1, <4>2
    <3>4. CASE hb' \in {NoHeartbeat, [stage |-> "failed"]}
      BY <3>4 DEF NoHeartbeat
    <3> QED
      BY <1>4, <3>1, <3>2, <3>3, <3>4, UndisturbedHeartbeat
  <2> QED
    BY <1>1, <2>2, <2>3 DEF BlockedHere, SuspendedFor, Held
<1> QED
  BY <1>3, <1>4

(* With the same terms the two servers' statuses differ on these days only.    *)
LEMMA TermsDecideStatus == LicenseTypeOK /\ UpToDate => StatusesAgree
<1> SUFFICES ASSUME LicenseTypeOK, UpToDate, lic.max # Unlimited
             PROVE  LET k == lic.key
                        same == EdgeStatus(lic.max, lic.exp, lic.status)
                                  = MasterStatus(issued[k].suspended, issued[k].exp,
                                                 issued[k].grace)
                    IN same <=> today # lic.exp /\ ~GracesDiffer
  BY DEF StatusesAgree
<1>1. /\ today \in Int /\ lic.exp \in Int /\ lic.exp = issued[lic.key].exp
      /\ issued[lic.key].grace \in Nat /\ Grace \in Nat
  <2>1. issued[lic.key] \in Licence
    BY DEF LicenseTypeOK, MasterTypeOK, UpToDate, InForce, Held
  <2>2. issued[lic.key].grace \in Nat /\ Grace \in Nat
    BY <2>1, LicenseTermsAssumption, LicenseMasterAssumption DEF Licence
  <2>3. today \in Int /\ lic.exp \in Int
    BY DEF LicenseTypeOK, MasterTypeOK, EdgeTypeOK, Entitlement, Day
  <2> QED
    BY <2>2, <2>3 DEF UpToDate
<1>2. ~issued[lic.key].suspended /\ lic.status # "suspended"
  BY DEF UpToDate, InForce
<1> QED
  BY <1>1, <1>2 DEF EdgeStatus, MasterStatus, GracesDiffer

(* As long as nobody disturbs it, an edge that has had an answer with the      *)
(* master's terms keeps them, whatever heartbeats are lost, answered late or   *)
(* sent again, and through restarts; and the statuses that the two servers show *)
(* differ exactly on the day of the expiry and on the days on which one         *)
(* server's grace, but not the other's, is over.                              *)
THEOREM TermsOnceKnownStand == LicenseSpec => EdgeFollowsMaster
<1>1. LicenseSpec => [](LicenseTypeOK /\ FileAgrees)
  BY LicenseInitType, LicenseStepType, FileAgreesInit, FileAgreesStep, PTL DEF LicenseSpec
<1>2. LicenseTypeOK /\ FileAgrees /\ [LicenseNext]_licenseVars
        => (Undisturbed /\ (UpToDate \/ TermsArrive) => UpToDate')
  BY TermsStand
<1>3. (LicenseTypeOK /\ UpToDate => StatusesAgree)'
  BY TermsDecideStatus, PTL
<1> QED
  BY <1>1, <1>2, <1>3, TermsDecideStatus, PTL DEF LicenseSpec, EdgeFollowsMaster

(* A suspension that has reached the edge stands until the licence expires,    *)
(* through late answers, recalculations and restarts, unless somebody disturbs *)
(* it.                                                                       *)
THEOREM SuspensionsStand == LicenseSpec => SuspensionStands
<1>1. LicenseSpec => [](LicenseTypeOK /\ FileAgrees)
  BY LicenseInitType, LicenseStepType, FileAgreesInit, FileAgreesStep, PTL DEF LicenseSpec
<1>2. LicenseTypeOK /\ FileAgrees /\ [LicenseNext]_licenseVars
        => (Undisturbed /\ today' <= lic.exp /\ (BlockedHere \/ SuspensionArrives) => BlockedHere')
  BY SuspensionKept
<1> QED
  BY <1>1, <1>2, PTL DEF LicenseSpec, SuspensionStands

(* While it stands, the edge lets no device be created.                     *)
LEMMA SuspendedEdgeIsBlocked == LicenseSpec => [](BlockedHere => Blocked)
<1>1. BlockedHere => Blocked
  BY DEF BlockedHere, Blocked, CanAddDevice
<1> QED
  BY <1>1, PTL
=============================================================================
