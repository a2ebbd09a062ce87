----------------------------- MODULE AlertStore -----------------------------
(***************************************************************************)
(* The alert store of the telemetry engine                                 *)
(* (backend/internal/telemetry/alerts_store.go): the alerts held in memory  *)
(* under one mutex, and alerts.json, the copy that survives a restart.      *)
(*                                                                         *)
(* An operation holds the mutex from its first to its last line, the save   *)
(* included, so each one is a single step.  Alerts are numbered in the      *)
(* order of their StartedAt; the random ID of an alert is its number, which  *)
(* ResolveAlert and AcknowledgeAlert take as argument.  Names, messages,     *)
(* severities and timestamps other than that order are left out.            *)
(***************************************************************************)
EXTENDS Integers, FiniteSets

CONSTANTS
  Device,       \* values of Alert.DeviceID
  Target,       \* values of Alert.Target
  NoKey,        \* the key of an alert slot that holds no alert
  MaxAlerts,    \* bound: alerts ever created in one behaviour
  RetainLimit,  \* alerts.json keeps this many alerts (300 in the code)
  DiskMayFail   \* whether a write of alerts.json may fail

VARIABLES
  alerts,       \* AlertStore.alerts, by alert number
  lastId,       \* how many alerts have been created
  alertsFile,   \* content of alerts.json
  fileTorn,     \* alerts.json is truncated: it no longer parses
  unsaved       \* the last save() failed, an error every caller drops

storeVars == <<alerts, lastId, alertsFile, fileTorn, unsaved>>

-----------------------------------------------------------------------------

AlertId == 1..MaxAlerts

AlertType ==
  {"device_offline", "bgp_down", "bgp_prefix_drop", "ospf_down", "syslog_event"}

(* What FindActiveAlert compares: the device, the type and the target.      *)
Key == Device \X AlertType \X Target

Status == {"none", "active", "acknowledged", "resolved"}

Alert == [key : Key \cup {NoKey}, status : Status, acked : BOOLEAN]

NoAlert == [key |-> NoKey, status |-> "none", acked |-> FALSE]

AlertTable == [AlertId -> Alert]

ASSUME AlertStoreAssumption ==
  /\ NoKey \notin Key
  /\ MaxAlerts \in Nat
  /\ RetainLimit \in Nat \ {0}
  /\ DiskMayFail \in BOOLEAN

-----------------------------------------------------------------------------

IsOpen(a) == a.status \in {"active", "acknowledged"}

(* The alerts of table t that FindActiveAlert may return for key k.  The    *)
(* code walks a Go map, whose order is random: any of them can come first.  *)
OpenIn(t, k) == {i \in AlertId : t[i].key = k /\ IsOpen(t[i])}

(* Mutants: acknowledged alerts are not looked for; resolved ones are.      *)
FindUnacknowledged(k) == {i \in AlertId : alerts[i].key = k /\ alerts[i].status = "active"}

FindAnyAlert(k) == {i \in AlertId : alerts[i].key = k}

FindActiveAlert(k) == OpenIn(alerts, k)

Present(t) == {i \in AlertId : t[i].status # "none"}

(* The newest RetainLimit alerts of a table.                                *)
Newest(t) ==
  [i \in AlertId |->
     IF Cardinality({j \in Present(t) : j > i}) < RetainLimit
     THEN t[i]
     ELSE NoAlert]

SaveOk(t) ==
  /\ alertsFile' = Newest(t)
  /\ fileTorn' = FALSE
  /\ unsaved' = FALSE

(* os.WriteFile fails to open the file, or has truncated it when it fails   *)
(* or when the process dies.                                                *)
SaveFails ==
  /\ DiskMayFail
  /\ fileTorn' \in {fileTorn, TRUE}
  /\ unsaved' = TRUE
  /\ UNCHANGED alertsFile

(* Rewrite alerts.json from table t.  No caller looks at the error.         *)
Save(t) == SaveOk(t) \/ SaveFails

StoreInit ==
  /\ alerts = [i \in AlertId |-> NoAlert]
  /\ lastId = 0
  /\ alertsFile = [i \in AlertId |-> NoAlert]
  /\ fileTorn = FALSE
  /\ unsaved = FALSE

(* AddAlert: a new number, status "active", saved.  It looks for no other   *)
(* alert of the same key.                                                   *)
AddAlert(k) ==
  /\ lastId < MaxAlerts
  /\ lastId' = lastId + 1
  /\ alerts' = [alerts EXCEPT ![lastId + 1] =
                  [key |-> k, status |-> "active", acked |-> FALSE]]
  /\ Save(alerts')

(* Mutant: a resolved alert is removed from the map.                        *)
RemoveAlert(i) ==
  /\ alerts[i].status # "none"
  /\ alerts' = [alerts EXCEPT ![i] = NoAlert]
  /\ Save(alerts')
  /\ UNCHANGED lastId

(* ResolveAlert: whatever the status was, it is "resolved" now.             *)
ResolveAlert(i) ==
  /\ alerts[i].status # "none"
  /\ alerts' = [alerts EXCEPT ![i].status = "resolved"]
  /\ Save(alerts')
  /\ UNCHANGED lastId

(* Mutants: the status is overwritten, unsaved, or outside the known ones.  *)
AcknowledgeAnyStatus(i) ==
  /\ alerts[i].status # "none"
  /\ alerts' = [alerts EXCEPT ![i].acked = TRUE, ![i].status = "acknowledged"]
  /\ Save(alerts')
  /\ UNCHANGED lastId

AcknowledgeInMemory(i) ==
  /\ alerts[i].status # "none"
  /\ alerts' = [alerts EXCEPT ![i] =
                  [key |-> @.key,
                   status |-> IF @.status = "active" THEN "acknowledged" ELSE @.status,
                   acked |-> TRUE]]
  /\ UNCHANGED <<lastId, alertsFile, fileTorn, unsaved>>

AcknowledgeFlagAsStatus(i) ==
  /\ alerts[i].status # "none"
  /\ alerts' = [alerts EXCEPT ![i].status = "reconhecido"]
  /\ Save(alerts')
  /\ UNCHANGED lastId

(* AcknowledgeAlert: the flag always, the status only from "active".        *)
AcknowledgeAlert(i) ==
  /\ alerts[i].status # "none"
  /\ alerts' = [alerts EXCEPT ![i] =
                  [key |-> @.key,
                   status |-> IF @.status = "active" THEN "acknowledged" ELSE @.status,
                   acked |-> TRUE]]
  /\ Save(alerts')
  /\ UNCHANGED lastId

(* Mutant: the numbering starts again with the process.                     *)
LoadAlertsRenumbered ==
  /\ ~fileTorn
  /\ alerts' = alertsFile
  /\ lastId' = 0
  /\ unsaved' = FALSE
  /\ UNCHANGED <<alertsFile, fileTorn>>

(* A new process: NewAlertStore loads the file.  When it does not parse,    *)
(* main ends in log.Fatalf: there is no step.                               *)
LoadAlerts ==
  /\ ~fileTorn
  /\ alerts' = alertsFile
  /\ unsaved' = FALSE
  /\ UNCHANGED <<lastId, alertsFile, fileTorn>>

StoreTypeOK ==
  /\ alerts \in AlertTable
  /\ lastId \in 0..MaxAlerts
  /\ alertsFile \in AlertTable
  /\ fileTorn \in BOOLEAN
  /\ unsaved \in BOOLEAN

=============================================================================
