------------------------- MODULE AlertStore_proofs -------------------------
(***************************************************************************)
(* Facts about the alert store: what a save keeps, and an invariant that     *)
(* each of its operations preserves.                                        *)
(***************************************************************************)
EXTENDS AlertStore, FiniteSetTheorems, TLAPS

(* Alert numbers above lastId are unused, on disk too.                      *)
Fresh ==
  \A i \in AlertId : i > lastId => alerts[i] = NoAlert /\ alertsFile[i] = NoAlert

(* alerts.json holds no more than it may.                                   *)
FileIsTrimmed == alertsFile = Newest(alertsFile)

(* After a successful save the file is what a restart should bring back.    *)
FileIsCurrent == ~unsaved => alertsFile = Newest(alerts) /\ ~fileTorn

(* The file never runs ahead of memory: each alert on disk is at a stage of  *)
(* its life that the alert in memory has gone through.                       *)
Passed(s) ==
  CASE s = "none" -> {"none"}
    [] s = "active" -> {"none", "active"}
    [] s = "acknowledged" -> {"none", "active", "acknowledged"}
    [] s = "resolved" -> Status

FileIsEarlier == \A i \in AlertId : alertsFile[i].status \in Passed(alerts[i].status)

StoreInv ==
  /\ StoreTypeOK
  /\ Fresh
  /\ FileIsTrimmed
  /\ FileIsCurrent
  /\ FileIsEarlier

-----------------------------------------------------------------------------

(* An alert that is trimmed leaves an empty slot, the others stay.          *)
LEMMA NewestKeepsOrDrops ==
  ASSUME NEW t \in AlertTable
  PROVE  /\ Newest(t) \in AlertTable
         /\ \A i \in AlertId : Newest(t)[i] \in {t[i], NoAlert}
BY DEF Newest, AlertTable, Alert, NoAlert, Status

(* A save writes no alert that was not open as open.                        *)
LEMMA NewestOpensNothing ==
  ASSUME NEW t \in AlertTable, NEW k \in Key
  PROVE  OpenIn(Newest(t), k) \subseteq OpenIn(t, k)
BY NewestKeepsOrDrops DEF OpenIn, IsOpen, NoAlert

(* A key has finitely many open alerts in any table.                        *)
LEMMA OpenIsFinite ==
  ASSUME NEW t, NEW k
  PROVE  IsFiniteSet(OpenIn(t, k))
<1>1. IsFiniteSet(AlertId)
  BY AlertStoreAssumption, FS_Interval DEF AlertId
<1>2. OpenIn(t, k) \in SUBSET AlertId
  BY DEF OpenIn
<1> QED
  BY <1>1, <1>2, FS_Subset

(* Trimming twice trims no more than trimming once.                         *)
LEMMA NewestTwice ==
  ASSUME NEW t \in AlertTable
  PROVE  Newest(Newest(t)) = Newest(t)
<1> DEFINE u == Newest(t)
           Above(s, i) == {j \in Present(s) : j > i}
<1>1. u \in AlertTable /\ \A i \in AlertId : u[i] \in {t[i], NoAlert}
  BY NewestKeepsOrDrops
<1>2. IsFiniteSet(AlertId)
  BY AlertStoreAssumption, FS_Interval DEF AlertId
<1>3. Present(u) \subseteq Present(t)
  BY <1>1 DEF Present, NoAlert
<1>4. ASSUME NEW i \in AlertId
      PROVE  Newest(u)[i] = u[i]
  <2>1. Above(t, i) \in SUBSET AlertId
    BY DEF Present
  <2>2. IsFiniteSet(Above(t, i))
    BY <1>2, <2>1, FS_Subset
  <2>3. Above(u, i) \in SUBSET Above(t, i)
    BY <1>3
  <2>4. /\ IsFiniteSet(Above(u, i))
        /\ Cardinality(Above(u, i)) <= Cardinality(Above(t, i))
    BY <2>2, <2>3, FS_Subset
  <2>5. Cardinality(Above(u, i)) \in Nat /\ Cardinality(Above(t, i)) \in Nat
    BY <2>2, <2>4, FS_CardinalityType
  <2>6. u[i] = IF Cardinality(Above(t, i)) < RetainLimit THEN t[i] ELSE NoAlert
    BY DEF Newest
  <2>7. Newest(u)[i] = IF Cardinality(Above(u, i)) < RetainLimit THEN u[i] ELSE NoAlert
    BY DEF Newest
  <2> HIDE DEF u, Above
  <2> QED
    BY <2>4, <2>5, <2>6, <2>7, AlertStoreAssumption
<1>5. Newest(u) = [i \in AlertId |-> Newest(u)[i]] /\ u = [i \in AlertId |-> u[i]]
  BY <1>1 DEF Newest, AlertTable
<1> QED
  BY <1>4, <1>5

(* Saving the table in memory keeps the file within the invariant, whether   *)
(* the write succeeds or not, if each alert only moved on in its life.        *)
LEMMA SaveKeepsFile ==
  ASSUME StoreInv, alerts' \in AlertTable, lastId' \in 0..MaxAlerts, lastId <= lastId',
         \A i \in AlertId : i > lastId' => alerts'[i] = NoAlert,
         \A i \in AlertId : Passed(alerts[i].status) \subseteq Passed(alerts'[i].status),
         Save(alerts')
  PROVE  StoreInv'
<1> USE DEF StoreInv, StoreTypeOK
<1>1. \A i \in AlertId : alerts'[i].status \in Passed(alerts'[i].status)
                          /\ "none" \in Passed(alerts'[i].status)
  BY DEF AlertTable, Alert, Status, Passed
<1>2. CASE SaveOk(alerts')
  <2>1. alertsFile' \in AlertTable /\ \A i \in AlertId : alertsFile'[i] \in {alerts'[i], NoAlert}
    BY <1>2, NewestKeepsOrDrops DEF SaveOk
  <2>2. StoreTypeOK'
    BY <1>2, <2>1 DEF SaveOk
  <2>3. Fresh'
    BY <2>1 DEF Fresh
  <2>4. FileIsTrimmed'
    <3>1. alertsFile' = Newest(alerts')
      BY <1>2 DEF SaveOk
    <3>2. alertsFile' = Newest(alertsFile')
      BY <3>1, NewestTwice
    <3> QED
      BY <3>2 DEF FileIsTrimmed, Newest, Present
  <2>5. FileIsCurrent'
    BY <1>2 DEF SaveOk, FileIsCurrent, Newest, Present
  <2>6. FileIsEarlier'
    BY <1>1, <2>1 DEF FileIsEarlier, NoAlert
  <2> QED
    BY <2>2, <2>3, <2>4, <2>5, <2>6
<1>3. CASE SaveFails
  <2>1. StoreTypeOK'
    BY <1>3 DEF SaveFails
  <2>2. Fresh'
    BY <1>3 DEF Fresh, SaveFails, AlertId
  <2>3. FileIsTrimmed'
    BY <1>3 DEF FileIsTrimmed, SaveFails, Newest, Present
  <2>4. FileIsCurrent'
    BY <1>3 DEF FileIsCurrent, SaveFails
  <2>5. FileIsEarlier'
    BY <1>3 DEF FileIsEarlier, SaveFails
  <2> QED
    BY <2>1, <2>2, <2>3, <2>4, <2>5
<1> QED
  BY <1>2, <1>3 DEF Save

(* An empty store satisfies the store's invariant.                          *)
LEMMA StoreInitInv ==
  ASSUME StoreInit
  PROVE  StoreInv
<1>1. alerts = Newest(alerts)
  BY DEF StoreInit, Newest
<1>2. StoreTypeOK
  <2>1. NoAlert \in Alert
    BY DEF Alert, NoAlert, Status
  <2>2. 0 \in 0..MaxAlerts
    BY AlertStoreAssumption
  <2> QED
    BY <2>1, <2>2 DEF StoreInit, StoreTypeOK, AlertTable
<1> QED
  BY <1>1, <1>2 DEF StoreInit, StoreInv, Fresh, FileIsTrimmed, FileIsCurrent, FileIsEarlier,
    Passed, NoAlert

(* AddAlert keeps the store's invariant.                                    *)
LEMMA AddAlertInv ==
  ASSUME StoreInv, NEW k \in Key, AddAlert(k)
  PROVE  /\ StoreInv'
         /\ lastId + 1 \in AlertId
         /\ alerts[lastId + 1] = NoAlert
<1>1. lastId + 1 \in AlertId /\ lastId' = lastId + 1
  BY AlertStoreAssumption DEF AddAlert, StoreInv, StoreTypeOK, AlertId
<1>2. alerts[lastId + 1] = NoAlert
  BY <1>1 DEF StoreInv, Fresh, AlertId, StoreTypeOK
<1>3. alerts' \in AlertTable
  BY DEF AddAlert, StoreInv, StoreTypeOK, AlertTable, Alert, Status
<1>4. \A i \in AlertId : i > lastId' => alerts'[i] = NoAlert
  BY <1>1 DEF AddAlert, StoreInv, StoreTypeOK, Fresh, AlertTable, AlertId
<1>5. \A i \in AlertId : Passed(alerts[i].status) \subseteq Passed(alerts'[i].status)
  <2>1. \A i \in AlertId \ {lastId + 1} : alerts'[i] = alerts[i]
    BY DEF AddAlert, StoreInv, StoreTypeOK, AlertTable
  <2>2. alerts[lastId + 1].status = "none" /\ alerts'[lastId + 1].status = "active"
    BY <1>1, <1>2 DEF AddAlert, StoreInv, StoreTypeOK, AlertTable, NoAlert
  <2>3. Passed("none") \subseteq Passed("active")
    BY DEF Passed
  <2> QED
    BY <2>1, <2>2, <2>3
<1>6. lastId' \in 0..MaxAlerts /\ lastId <= lastId'
  BY <1>1, AlertStoreAssumption DEF AlertId, StoreInv, StoreTypeOK
<1> QED
  BY <1>1, <1>2, <1>3, <1>4, <1>5, <1>6, SaveKeepsFile DEF AddAlert

(* ResolveAlert keeps the store's invariant.                                *)
LEMMA ResolveAlertInv ==
  ASSUME StoreInv, NEW i \in AlertId, ResolveAlert(i)
  PROVE  StoreInv'
<1>1. alerts' \in AlertTable
  BY DEF ResolveAlert, StoreInv, StoreTypeOK, AlertTable, Alert, Status
<1>2. \A j \in AlertId : j > lastId' => alerts'[j] = NoAlert
  <2>1. i <= lastId
    BY AlertStoreAssumption DEF ResolveAlert, StoreInv, StoreTypeOK, Fresh, AlertId, NoAlert
  <2> QED
    BY <2>1 DEF ResolveAlert, StoreInv, StoreTypeOK, Fresh, AlertTable, AlertId
<1>3. \A j \in AlertId : Passed(alerts[j].status) \subseteq Passed(alerts'[j].status)
  BY DEF ResolveAlert, StoreInv, StoreTypeOK, AlertTable, Alert, Status, Passed
<1>4. lastId' \in 0..MaxAlerts /\ lastId <= lastId'
  BY DEF ResolveAlert, StoreInv, StoreTypeOK
<1> QED
  BY <1>1, <1>2, <1>3, <1>4, SaveKeepsFile DEF ResolveAlert

(* AcknowledgeAlert keeps the store's invariant.                            *)
LEMMA AcknowledgeAlertInv ==
  ASSUME StoreInv, NEW i \in AlertId, AcknowledgeAlert(i)
  PROVE  StoreInv'
<1>1. alerts' \in AlertTable
  BY DEF AcknowledgeAlert, StoreInv, StoreTypeOK, AlertTable, Alert, Status
<1>2. \A j \in AlertId : j > lastId' => alerts'[j] = NoAlert
  <2>1. i <= lastId
    BY AlertStoreAssumption DEF AcknowledgeAlert, StoreInv, StoreTypeOK, Fresh, AlertId, NoAlert
  <2> QED
    BY <2>1 DEF AcknowledgeAlert, StoreInv, StoreTypeOK, Fresh, AlertTable, AlertId
<1>3. \A j \in AlertId : Passed(alerts[j].status) \subseteq Passed(alerts'[j].status)
  BY DEF AcknowledgeAlert, StoreInv, StoreTypeOK, AlertTable, Alert, Status, Passed
<1>4. lastId' \in 0..MaxAlerts /\ lastId <= lastId'
  BY DEF AcknowledgeAlert, StoreInv, StoreTypeOK
<1> QED
  BY <1>1, <1>2, <1>3, <1>4, SaveKeepsFile DEF AcknowledgeAlert

(* Loading alerts.json keeps the store's invariant.                         *)
LEMMA LoadAlertsInv ==
  ASSUME StoreInv, LoadAlerts
  PROVE  StoreInv'
<1>1. StoreTypeOK' /\ Fresh'
  BY DEF StoreInv, StoreTypeOK, Fresh, LoadAlerts
<1>2. FileIsTrimmed' /\ FileIsCurrent'
  BY DEF StoreInv, LoadAlerts, FileIsTrimmed, FileIsCurrent, Newest, Present
<1>3. FileIsEarlier'
  BY DEF StoreInv, StoreTypeOK, LoadAlerts, FileIsEarlier, Passed, AlertTable, Alert, Status
<1> QED
  BY <1>1, <1>2, <1>3 DEF StoreInv

(* So does a step that leaves the store alone.                              *)
LEMMA StoreUnchangedInv ==
  ASSUME StoreInv, UNCHANGED storeVars
  PROVE  StoreInv'
BY DEF storeVars, StoreInv, StoreTypeOK, Fresh, FileIsTrimmed, FileIsCurrent, FileIsEarlier,
  Newest, Present

=============================================================================
