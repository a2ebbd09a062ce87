----------------------------- MODULE LicenseEdge -----------------------------
(***************************************************************************)
(* The licence manager of a NetPulse installation                             *)
(* (backend/internal/license/manager.go) and the one handler it guards, the     *)
(* creation of a device (backend/internal/api/device_handlers.go).             *)
(*                                                                         *)
(* The manager's operations hold its mutex.  A creation is three steps: it     *)
(* counts the devices, asks CanAddDevice, and stores the device.               *)
(***************************************************************************)
EXTENDS LicenseTerms

CONSTANTS
  TrialKey,     \* the key of the local trial
  EnvKey,       \* NETPULSE_LICENSE_KEY, NoEnvKey when it is not set
  NoEnvKey,
  Guess,        \* what applyKey guesses of a key: its limit and its days
  Trial,        \* limit and days of the local trial
  Creation,     \* device creations that may be under way together
  MaxDevices,   \* bound: devices in the inventory
  DiskMayFail   \* whether a write of license.json may fail

VARIABLES
  lic,          \* LicenseManager.currentLicense
  licFile,      \* license.json, NoFile when it is missing or does not parse
  stored,       \* the last write of license.json succeeded
  devices,      \* how many devices the inventory has
  creating      \* per creation: its stage and the count it has read

edgeVars == <<lic, licFile, stored, devices, creating>>

NoFile == [key |-> NoEnvKey]

Idle == [stage |-> "idle", count |-> 0]

ASSUME LicenseEdgeAssumption ==
  /\ TrialKey \in Key /\ NoEnvKey \notin Key
  /\ EnvKey \in Key \cup {NoEnvKey}
  /\ Guess \in [Key -> [max : Limit, days : Day]]
  /\ Trial \in [max : Limit, days : Day]
  /\ IsFiniteSet(Creation)
  /\ MaxDevices \in Nat
  /\ DiskMayFail \in BOOLEAN

(* A day, or the last one that is counted.                                   *)
Until(days) == IF today + days <= MaxDay THEN today + days ELSE MaxDay

(* applyKey: the limit and the expiry are guessed from the key's letters.     *)
Applied(k) ==
  Recalculated([key |-> k, max |-> Guess[k].max,
                exp |-> Until(Guess[k].days), status |-> "active"])

TrialLicense ==
  Recalculated([key |-> TrialKey, max |-> Trial.max,
                exp |-> Until(Trial.days), status |-> "active"])

(* saveToDisk: its error is dropped everywhere.  A write that fails leaves the  *)
(* file as it was, cut short, or whole.                                       *)
Save(l) ==
  \/ licFile' = l /\ stored' = TRUE
  \/ /\ DiskMayFail
     /\ licFile' \in {licFile, NoFile, l}
     /\ stored' = FALSE

Keep(l) == lic' = l /\ UNCHANGED <<licFile, stored>>

SaveAs(l) == lic' = l /\ Save(l)

-----------------------------------------------------------------------------

(* loadInitialLicense: the file, else the environment's key, else a trial.    *)
FirstLicense == IF EnvKey # NoEnvKey THEN Applied(EnvKey) ELSE TrialLicense

Loaded == IF licFile # NoFile THEN Recalculated(licFile) ELSE FirstLicense

(* The first start, with an empty data directory.                            *)
EdgeInit ==
  /\ lic = FirstLicense
  /\ \/ licFile = lic /\ stored = TRUE
     \/ DiskMayFail /\ licFile \in {NoFile, lic} /\ stored = FALSE
  /\ devices = 0
  /\ creating = [r \in Creation |-> Idle]

(* The process starts again: the licence is loaded, and saved when the router  *)
(* of the API gives it the client's name.                                     *)
Boot ==
  /\ SaveAs(Loaded)
  /\ creating' = [r \in Creation |-> Idle]
  /\ UNCHANGED devices

(* GetStatus: the status is worked out again, and not saved.                  *)
GetStatus ==
  /\ Keep(Recalculated(lic))
  /\ UNCHANGED <<devices, creating>>

(* Activate.                                                                *)
Activate(k) ==
  /\ SaveAs(Applied(k))
  /\ UNCHANGED <<devices, creating>>

(* The second half of syncWithMaster when no answer came.                     *)
SyncFailed == GetStatus

(* The licence after the answer m in good standing; an answer without limit    *)
(* leaves the limit as it was.                                                *)
Granted(m) ==
  Recalculated(
    [key |-> lic.key, max |-> IF m.max > 0 THEN m.max ELSE lic.max,
     exp |-> m.exp, status |-> m.status])

SuspendedLicense == [lic EXCEPT !.status = "suspended"]

(* Mutants: a status of its own; a suspension that is not saved; an expiry     *)
(* that is only taken when it is later.                                       *)
SyncAppliesBlocked(m) ==
  /\ CASE m.code = 200 -> SaveAs(Granted(m))
       [] m.code = 403 -> SaveAs([lic EXCEPT !.status = "blocked"])
       [] OTHER -> Keep(lic)
  /\ UNCHANGED <<devices, creating>>

SyncAppliesUnsaved(m) ==
  /\ CASE m.code = 200 -> SaveAs(Granted(m))
       [] m.code = 403 -> Keep(SuspendedLicense)
       [] OTHER -> Keep(lic)
  /\ UNCHANGED <<devices, creating>>

SyncAppliesLater(m) ==
  /\ CASE m.code = 200 /\ m.exp >= lic.exp -> SaveAs(Granted(m))
       [] m.code = 403 -> SaveAs(SuspendedLicense)
       [] OTHER -> Keep(lic)
  /\ UNCHANGED <<devices, creating>>

(* The second half of syncWithMaster, by the answer's code.                   *)
SyncApplies(m) ==
  /\ CASE m.code = 200 -> SaveAs(Granted(m))
       [] m.code = 403 -> SaveAs(SuspendedLicense)
       [] OTHER -> Keep(lic)
  /\ UNCHANGED <<devices, creating>>

-----------------------------------------------------------------------------
(* Devices *)

(* Mutant: the count may be the limit itself.                               *)
CanAddDeviceAtLimit(count) ==
  \/ lic.max = Unlimited
  \/ /\ lic.status \notin {"suspended", "expired"}
     /\ count <= lic.max

(* CanAddDevice, on the status as it was last worked out.                     *)
CanAddDevice(count) ==
  \/ lic.max = Unlimited
  \/ /\ lic.status \notin {"suspended", "expired"}
     /\ count < lic.max

CountDevices(r) ==
  /\ creating[r].stage = "idle"
  /\ creating' = [creating EXCEPT ![r] = [stage |-> "counted", count |-> devices]]
  /\ UNCHANGED <<lic, licFile, stored, devices>>

CheckCapacity(r) ==
  /\ creating[r].stage = "counted"
  /\ creating' = [creating EXCEPT ![r] =
       IF CanAddDevice(@.count) THEN [stage |-> "allowed", count |-> @.count] ELSE Idle]
  /\ UNCHANGED <<lic, licFile, stored, devices>>

StoreDevice(r) ==
  /\ creating[r].stage = "allowed"
  /\ devices < MaxDevices
  /\ devices' = devices + 1
  /\ creating' = [creating EXCEPT ![r] = Idle]
  /\ UNCHANGED <<lic, licFile, stored>>

DeleteDevice ==
  /\ devices > 0
  /\ devices' = devices - 1
  /\ UNCHANGED <<lic, licFile, stored, creating>>

EdgeNext ==
  \/ GetStatus
  \/ \E r \in Creation : CountDevices(r) \/ CheckCapacity(r) \/ StoreDevice(r)
  \/ DeleteDevice

-----------------------------------------------------------------------------
(* Properties *)

Stage == {"idle", "counted", "allowed"}

EdgeTypeOK ==
  /\ lic \in Entitlement
  /\ licFile \in Entitlement \cup {NoFile}
  /\ stored \in BOOLEAN
  /\ devices \in 0..MaxDevices
  /\ creating \in [Creation -> [stage : Stage, count : 0..MaxDevices]]

=============================================================================
