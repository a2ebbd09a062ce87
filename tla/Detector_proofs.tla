-------------------------- MODULE Detector_proofs --------------------------
(***************************************************************************)
(* The safety properties of the detector, for any number of devices,         *)
(* targets, writers and alerts.                                             *)
(***************************************************************************)
EXTENDS Detector, AlertStore_proofs, SequenceTheorems

(* The writers that have looked, found no open alert of key k, and are about *)
(* to raise one.                                                            *)
RaisersIn(a, wk, k) == {w \in Writer : a[w] = "raise" /\ Head(wk[w]).key = k}

RaisersOf(k) == RaisersIn(act, work, k)

(* What a writer has to evaluate is its own, and a decision is about the     *)
(* check at the head.                                                       *)
WorkOK ==
  \A w \in Writer :
    /\ work[w] \in Seq(ChecksFor(w))
    /\ act[w] # "none" => work[w] # <<>>

(* OpenBoundedByWriters is not inductive: a writer that has looked before     *)
(* another one raised still raises.  Open alerts and raisers together never   *)
(* exceed the writers, as a writer becomes a raiser only when no alert is      *)
(* open.  The file obeys the same bound, for it is what a restart brings back. *)
OpenAndRaisers ==
  \A k \in Key \ SyslogKey :
    /\ Cardinality(OpenIn(alerts, k)) + Cardinality(RaisersOf(k))
         <= Cardinality(WritersOf(k))
    /\ Cardinality(OpenIn(alertsFile, k)) <= Cardinality(WritersOf(k))

DetectorInv ==
  /\ DetectorTypeOK
  /\ StoreInv
  /\ WorkOK
  /\ HitStaysValid
  /\ OpenAndRaisers

-----------------------------------------------------------------------------
(* Cardinalities *)

(* The writers of a key, and those about to raise it, can be counted.       *)
LEMMA WritersAreFinite ==
  ASSUME NEW a, NEW wk, NEW k
  PROVE  /\ IsFiniteSet(RaisersIn(a, wk, k)) /\ IsFiniteSet(WritersOf(k))
         /\ Cardinality(RaisersIn(a, wk, k)) \in Nat
         /\ Cardinality(WritersOf(k)) \in Nat
<1>1. RaisersIn(a, wk, k) \in SUBSET Writer /\ WritersOf(k) \in SUBSET Writer
  BY DEF RaisersIn, WritersOf
<1> QED
  BY <1>1, FS_Subset, FS_CardinalityType, DetectorAssumption

(* So can the open alerts of a key.                                         *)
LEMMA OpenHasCardinality ==
  ASSUME NEW t, NEW k
  PROVE  Cardinality(OpenIn(t, k)) \in Nat
BY OpenIsFinite, FS_CardinalityType

(* A table with no more open alerts of key k has no greater number of them.  *)
LEMMA FewerOpen ==
  ASSUME NEW t, NEW u, NEW k, OpenIn(u, k) \subseteq OpenIn(t, k)
  PROVE  Cardinality(OpenIn(u, k)) <= Cardinality(OpenIn(t, k))
BY OpenIsFinite, FS_Subset

(* What a save leaves in the file is bounded if memory and the file were.    *)
LEMMA SaveKeepsBound ==
  ASSUME NEW k \in Key, alerts' \in AlertTable, Save(alerts'),
         NEW n \in Nat,
         Cardinality(OpenIn(alerts', k)) <= n,
         Cardinality(OpenIn(alertsFile, k)) <= n
  PROVE  Cardinality(OpenIn(alertsFile', k)) <= n
<1>1. CASE SaveOk(alerts')
  <2>1. OpenIn(alertsFile', k) \subseteq OpenIn(alerts', k)
    BY <1>1, NewestOpensNothing DEF SaveOk
  <2> QED
    BY <2>1, FewerOpen, OpenHasCardinality
<1>2. CASE SaveFails
  BY <1>2 DEF SaveFails
<1> QED
  BY <1>1, <1>2 DEF Save

(* A writer about to raise key k is one of those that evaluate it.           *)
LEMMA RaisersAreWriters ==
  ASSUME WorkOK, DetectorTypeOK, NEW k
  PROVE  Cardinality(RaisersOf(k)) <= Cardinality(WritersOf(k))
<1>1. RaisersOf(k) \subseteq WritersOf(k)
  <2> SUFFICES ASSUME NEW w \in Writer, act[w] = "raise", Head(work[w]).key = k
               PROVE  k \in KeysOf[w]
    BY DEF RaisersOf, RaisersIn, WritersOf
  <2>1. work[w] \in Seq(ChecksFor(w)) /\ work[w] # <<>>
    BY DEF WorkOK
  <2>2. Head(work[w]) \in ChecksFor(w)
    BY <2>1, HeadTailProperties
  <2> QED
    BY <2>2 DEF ChecksFor
<1> QED
  BY <1>1, WritersAreFinite, FS_Subset

(* A step that leaves the decisions alone, opens no alert of a rule's key and  *)
(* saves or leaves the file keeps the bound.                                  *)
LEMMA NothingOpened ==
  ASSUME OpenAndRaisers, alerts' \in AlertTable,
         Save(alerts') \/ UNCHANGED alertsFile,
         \A k \in Key \ SyslogKey : OpenIn(alerts', k) \subseteq OpenIn(alerts, k),
         \A k \in Key : RaisersIn(act', work', k) \subseteq RaisersIn(act, work, k)
  PROVE  OpenAndRaisers'
<1> SUFFICES ASSUME NEW k \in Key \ SyslogKey
             PROVE  /\ Cardinality(OpenIn(alerts', k)) + Cardinality(RaisersIn(act', work', k))
                         <= Cardinality(WritersOf(k))
                    /\ Cardinality(OpenIn(alertsFile', k)) <= Cardinality(WritersOf(k))
  BY DEF OpenAndRaisers, RaisersOf, OpenIn, IsOpen, RaisersIn
<1>1. Cardinality(OpenIn(alerts', k)) <= Cardinality(OpenIn(alerts, k))
  BY FewerOpen
<1>2. Cardinality(RaisersIn(act', work', k)) <= Cardinality(RaisersIn(act, work, k))
  BY WritersAreFinite, FS_Subset
<1>3. /\ Cardinality(OpenIn(alerts, k)) + Cardinality(RaisersIn(act, work, k))
           <= Cardinality(WritersOf(k))
      /\ Cardinality(OpenIn(alertsFile, k)) <= Cardinality(WritersOf(k))
  BY DEF OpenAndRaisers, RaisersOf
<1>4. /\ Cardinality(OpenIn(alerts, k)) \in Nat
      /\ Cardinality(OpenIn(alerts', k)) \in Nat
      /\ Cardinality(RaisersIn(act, work, k)) \in Nat
      /\ Cardinality(RaisersIn(act', work', k)) \in Nat
      /\ Cardinality(WritersOf(k)) \in Nat
  BY OpenHasCardinality, WritersAreFinite
<1>5. Cardinality(OpenIn(alertsFile', k)) <= Cardinality(WritersOf(k))
  BY <1>1, <1>3, <1>4, SaveKeepsBound
<1> QED
  BY <1>1, <1>2, <1>3, <1>4, <1>5

-----------------------------------------------------------------------------
(* Every action preserves the invariant *)

(* The detector's invariant holds when the process first starts.            *)
LEMMA DetectorInitInv ==
  ASSUME DetectorInit
  PROVE  DetectorInv
<1> USE DEF DetectorInit, NoWork, Idle, NoHit
<1>1. StoreInv /\ StoreTypeOK
  BY StoreInitInv DEF StoreInv
<1>2. DetectorTypeOK
  <2>1. work \in [Writer -> Seq(Check)]
    BY EmptySeq
  <2>2. 0 \in 0..MaxAlerts /\ 0 \in 0..MaxSyslog /\ 0 \in 0..MaxAcks /\ 0 \in 0..MaxBoots
    BY AlertStoreAssumption, DetectorAssumption
  <2> QED
    BY <1>1, <2>1, <2>2 DEF DetectorTypeOK
<1>3. WorkOK
  BY EmptySeq DEF WorkOK
<1>4. HitStaysValid
  BY DEF HitStaysValid
<1>5. OpenAndRaisers
  <2> SUFFICES ASSUME NEW k \in Key \ SyslogKey
               PROVE  /\ Cardinality(OpenIn(alerts, k)) + Cardinality(RaisersOf(k))
                           <= Cardinality(WritersOf(k))
                      /\ Cardinality(OpenIn(alertsFile, k)) <= Cardinality(WritersOf(k))
    BY DEF OpenAndRaisers
  <2>1. OpenIn(alerts, k) = {} /\ OpenIn(alertsFile, k) = {} /\ RaisersOf(k) = {}
    BY DEF OpenIn, IsOpen, StoreInit, NoAlert, RaisersOf, RaisersIn
  <2> QED
    BY <2>1, FS_EmptySet, WritersAreFinite
<1> QED
  BY <1>1, <1>2, <1>3, <1>4, <1>5 DEF DetectorInv

(* Handing over an evaluation: the writer has nothing to do, and no decision. *)
LEMMA EvaluateInv ==
  ASSUME DetectorInv, NEW w \in Writer, NEW s \in Seq(ChecksFor(w)), Evaluate(w, s)
  PROVE  DetectorInv'
<1> USE DEF DetectorInv
<1>1. act[w] = "none"
  BY DEF WorkOK, Evaluate, DetectorTypeOK
<1>2. StoreInv'
  BY StoreUnchangedInv DEF Evaluate
<1>3. DetectorTypeOK'
  <2>1. s \in Seq(Check)
    BY SeqMonotonic DEF ChecksFor
  <2> QED
    BY <1>2, <2>1 DEF DetectorTypeOK, StoreInv, Evaluate
<1>4. WorkOK'
  BY <1>1 DEF WorkOK, Evaluate, DetectorTypeOK
<1>5. HitStaysValid'
  BY <1>1 DEF HitStaysValid, Evaluate, DetectorTypeOK, storeVars
<1>6. OpenAndRaisers'
  BY <1>1, NothingOpened DEF Evaluate, storeVars, DetectorTypeOK, StoreTypeOK, RaisersIn
<1> QED
  BY <1>2, <1>3, <1>4, <1>5, <1>6

(* The look-up.  A writer that decides to raise saw no open alert of the key,  *)
(* so the bound is the number of writers alone.                               *)
LEMMA LookInv ==
  ASSUME DetectorInv, NEW w \in Writer, Look(w)
  PROVE  DetectorInv'
<1> DEFINE c == Head(work[w])
<1> USE DEF DetectorInv
<1>1. /\ UNCHANGED storeVars
      /\ UNCHANGED <<running, syslogs, acks, boots>>
      /\ work[w] # <<>>
      /\ act[w] = "none"
  BY DEF Look
<1>2. c \in ChecksFor(w) /\ Tail(work[w]) \in Seq(ChecksFor(w))
  BY <1>1, HeadTailProperties DEF WorkOK
<1>3. c.key \in Key \ SyslogKey /\ Tail(work[w]) \in Seq(Check)
  <2>1. ChecksFor(w) \subseteq Check
    BY DEF ChecksFor
  <2>2. c.key \in Key \ SyslogKey
    BY <1>2, DetectorAssumption DEF ChecksFor
  <2> QED
    BY <1>2, <2>1, <2>2, SeqMonotonic
<1>4. StoreInv' /\ StoreTypeOK'
  BY <1>1, StoreUnchangedInv DEF StoreInv
<1>5. CASE /\ c.bad /\ FindActiveAlert(c.key) = {}
           /\ act' = [act EXCEPT ![w] = "raise"]
           /\ UNCHANGED <<hit, work>>
  <2>1. DetectorTypeOK' /\ WorkOK' /\ HitStaysValid'
    BY <1>1, <1>4, <1>5 DEF DetectorTypeOK, WorkOK, HitStaysValid, storeVars
  <2>2. OpenAndRaisers'
    <3> SUFFICES ASSUME NEW k \in Key \ SyslogKey
                 PROVE  /\ Cardinality(OpenIn(alerts, k)) + Cardinality(RaisersOf(k)')
                             <= Cardinality(WritersOf(k))
                        /\ Cardinality(OpenIn(alertsFile, k)) <= Cardinality(WritersOf(k))
      BY <1>1 DEF OpenAndRaisers, storeVars, OpenIn
    <3>1. CASE k = c.key
      <4>1. OpenIn(alerts, k) = {}
        BY <1>5, <3>1 DEF FindActiveAlert
      <4>2. RaisersOf(k)' \subseteq WritersOf(k)
        <5> SUFFICES ASSUME NEW v \in Writer, act'[v] = "raise", Head(work[v]).key = k
                     PROVE  k \in KeysOf[v]
          BY <1>5 DEF RaisersOf, RaisersIn, WritersOf
        <5>1. work[v] # <<>> /\ work[v] \in Seq(ChecksFor(v))
          BY <1>1, <1>5 DEF WorkOK, DetectorTypeOK
        <5>2. Head(work[v]) \in ChecksFor(v)
          BY <5>1, HeadTailProperties
        <5> QED
          BY <5>2 DEF ChecksFor
      <4>3. Cardinality(RaisersOf(k)') <= Cardinality(WritersOf(k))
        BY <4>2, WritersAreFinite, FS_Subset
      <4> QED
        BY <4>1, <4>3, FS_EmptySet, WritersAreFinite DEF OpenAndRaisers, RaisersOf
    <3>2. CASE k # c.key
      <4>1. RaisersOf(k)' = RaisersOf(k)
        BY <1>1, <1>5, <3>2 DEF RaisersOf, RaisersIn, DetectorTypeOK
      <4> QED
        BY <4>1 DEF OpenAndRaisers
    <3> QED
      BY <3>1, <3>2
  <2> QED
    BY <1>4, <2>1, <2>2
<1>6. CASE /\ ~c.bad
           /\ \E i \in FindActiveAlert(c.key) : hit' = [hit EXCEPT ![w] = i]
           /\ act' = [act EXCEPT ![w] = "resolve"]
           /\ UNCHANGED work
  <2>1. PICK i \in FindActiveAlert(c.key) : hit' = [hit EXCEPT ![w] = i]
    BY <1>6
  <2>2. i \in AlertId /\ i \in 0..MaxAlerts /\ alerts[i].key = c.key /\ alerts[i].status # "none"
    BY <2>1, AlertStoreAssumption DEF FindActiveAlert, OpenIn, IsOpen, AlertId
  <2>3. DetectorTypeOK'
    BY <1>1, <1>4, <1>6, <2>1, <2>2 DEF DetectorTypeOK
  <2>4. WorkOK'
    BY <1>1, <1>6 DEF DetectorTypeOK, WorkOK
  <2>5. HitStaysValid'
    BY <1>1, <1>6, <2>1, <2>2 DEF DetectorTypeOK, HitStaysValid, storeVars
  <2>6. \A k \in Key : RaisersIn(act', work', k) \subseteq RaisersIn(act, work, k)
    BY <1>6 DEF RaisersIn, DetectorTypeOK
  <2>7. OpenAndRaisers'
    BY <1>1, <1>4, <2>6, NothingOpened DEF storeVars, StoreTypeOK
  <2> QED
    BY <1>4, <2>3, <2>4, <2>5, <2>7
<1>7. CASE /\ work' = [work EXCEPT ![w] = Tail(@)]
           /\ UNCHANGED <<act, hit>>
  <2>1. DetectorTypeOK'
    BY <1>1, <1>3, <1>4, <1>7 DEF DetectorTypeOK
  <2>2. WorkOK'
    BY <1>1, <1>2, <1>7 DEF DetectorTypeOK, WorkOK
  <2>3. HitStaysValid'
    BY <1>1, <1>7 DEF DetectorTypeOK, HitStaysValid, storeVars
  <2>4. \A k \in Key : RaisersIn(act', work', k) \subseteq RaisersIn(act, work, k)
    BY <1>1, <1>7 DEF RaisersIn, DetectorTypeOK
  <2>5. OpenAndRaisers'
    BY <1>1, <1>4, <2>4, NothingOpened DEF storeVars, StoreTypeOK
  <2> QED
    BY <1>4, <2>1, <2>2, <2>3, <2>5
<1> QED
  BY <1>5, <1>6, <1>7 DEF Look

(* Raising: the raiser becomes an open alert, so the sum stays the same.     *)
LEMMA RaiseInv ==
  ASSUME DetectorInv, NEW w \in Writer, Raise(w)
  PROVE  DetectorInv'
<1> DEFINE key == Head(work[w]).key
           id == lastId + 1
<1> USE DEF DetectorInv
<1>1. /\ AddAlert(key)
      /\ act[w] = "raise"
      /\ act' = [act EXCEPT ![w] = "none"]
      /\ hit' = [hit EXCEPT ![w] = 0]
      /\ work' = [work EXCEPT ![w] = Tail(@)]
      /\ UNCHANGED <<running, syslogs, acks, boots>>
  BY DEF Raise, RuleDone
<1>2. work[w] # <<>> /\ work[w] \in Seq(ChecksFor(w))
  BY <1>1 DEF WorkOK
<1>3. Head(work[w]) \in ChecksFor(w) /\ Tail(work[w]) \in Seq(ChecksFor(w))
  BY <1>2, HeadTailProperties
<1>4. key \in Key \ SyslogKey /\ Tail(work[w]) \in Seq(Check)
  <2>1. ChecksFor(w) \subseteq Check
    BY DEF ChecksFor
  <2>2. key \in Key \ SyslogKey
    BY <1>3, DetectorAssumption DEF ChecksFor
  <2> QED
    BY <1>3, <2>1, <2>2, SeqMonotonic
<1>5. StoreInv' /\ id \in AlertId /\ alerts[id] = NoAlert
  BY <1>1, <1>4, AddAlertInv
<1>6. /\ alerts' = [alerts EXCEPT ![id] = [key |-> key, status |-> "active", acked |-> FALSE]]
      /\ Save(alerts')
      /\ alerts \in AlertTable /\ alerts' \in AlertTable
  BY <1>1, <1>5 DEF AddAlert, StoreInv, StoreTypeOK
<1>7. DetectorTypeOK'
  <2>1. 0 \in 0..MaxAlerts
    BY AlertStoreAssumption
  <2> QED
    BY <1>1, <1>4, <1>5, <2>1 DEF DetectorTypeOK, StoreInv
<1>8. WorkOK'
  BY <1>1, <1>3 DEF DetectorTypeOK, WorkOK
<1>9. HitStaysValid'
  <2> SUFFICES ASSUME NEW v \in Writer, act'[v] = "resolve"
               PROVE  /\ hit'[v] \in AlertId
                      /\ alerts'[hit'[v]].key = Head(work'[v]).key
                      /\ alerts'[hit'[v]].status # "none"
    BY DEF HitStaysValid
  <2>1. v # w /\ act[v] = "resolve" /\ hit'[v] = hit[v] /\ work'[v] = work[v]
    BY <1>1 DEF DetectorTypeOK
  <2>2. hit[v] \in AlertId /\ alerts[hit[v]].status # "none"
        /\ alerts[hit[v]].key = Head(work[v]).key
    BY <2>1 DEF HitStaysValid
  <2>3. hit[v] # id
    BY <1>5, <2>2 DEF NoAlert
  <2> QED
    BY <1>6, <2>1, <2>2, <2>3 DEF AlertTable
<1>10. OpenAndRaisers'
  <2> SUFFICES ASSUME NEW k \in Key \ SyslogKey
               PROVE  /\ Cardinality(OpenIn(alerts', k)) + Cardinality(RaisersIn(act', work', k))
                           <= Cardinality(WritersOf(k))
                      /\ Cardinality(OpenIn(alertsFile', k)) <= Cardinality(WritersOf(k))
    BY DEF OpenAndRaisers, RaisersOf, OpenIn, IsOpen, RaisersIn
  <2>1. /\ Cardinality(OpenIn(alerts, k)) + Cardinality(RaisersIn(act, work, k))
             <= Cardinality(WritersOf(k))
        /\ Cardinality(OpenIn(alertsFile, k)) <= Cardinality(WritersOf(k))
    BY DEF OpenAndRaisers, RaisersOf
  <2>2. /\ Cardinality(OpenIn(alerts, k)) \in Nat
        /\ Cardinality(OpenIn(alerts', k)) \in Nat
        /\ Cardinality(RaisersIn(act, work, k)) \in Nat
        /\ Cardinality(RaisersIn(act', work', k)) \in Nat
        /\ Cardinality(WritersOf(k)) \in Nat
    BY OpenHasCardinality, WritersAreFinite
  <2>3. Cardinality(OpenIn(alerts', k)) + Cardinality(RaisersIn(act', work', k))
          <= Cardinality(WritersOf(k))
    <3>1. CASE k = key
      <4>1. OpenIn(alerts', k) = OpenIn(alerts, k) \cup {id} /\ id \notin OpenIn(alerts, k)
        BY <1>5, <1>6, <3>1 DEF OpenIn, IsOpen, AlertTable, NoAlert
      <4>2. RaisersIn(act', work', k) = RaisersIn(act, work, k) \ {w}
            /\ w \in RaisersIn(act, work, k)
        BY <1>1, <3>1 DEF RaisersIn, DetectorTypeOK
      <4>3. Cardinality(OpenIn(alerts', k)) = Cardinality(OpenIn(alerts, k)) + 1
        BY <4>1, OpenIsFinite, FS_AddElement
      <4>4. Cardinality(RaisersIn(act', work', k)) = Cardinality(RaisersIn(act, work, k)) - 1
        BY <4>2, WritersAreFinite, FS_RemoveElement
      <4> QED
        BY <2>1, <2>2, <4>3, <4>4
    <3>2. CASE k # key
      <4>1. OpenIn(alerts', k) = OpenIn(alerts, k)
        BY <1>5, <1>6, <3>2 DEF OpenIn, IsOpen, AlertTable, NoAlert
      <4>2. RaisersIn(act', work', k) = RaisersIn(act, work, k)
        BY <1>1, <3>2 DEF RaisersIn, DetectorTypeOK
      <4> QED
        BY <2>1, <4>1, <4>2
    <3> QED
      BY <3>1, <3>2
  <2>4. Cardinality(OpenIn(alertsFile', k)) <= Cardinality(WritersOf(k))
    <3>1. Cardinality(OpenIn(alerts', k)) <= Cardinality(WritersOf(k))
      BY <2>2, <2>3
    <3> QED
      BY <1>6, <2>1, <2>2, <3>1, SaveKeepsBound
  <2> QED
    BY <2>3, <2>4
<1> QED
  BY <1>5, <1>7, <1>8, <1>9, <1>10

(* Resolving what was found: whoever else resolved it meanwhile.             *)
LEMMA CloseInv ==
  ASSUME DetectorInv, NEW w \in Writer, Close(w)
  PROVE  DetectorInv'
<1> USE DEF DetectorInv
<1>1. /\ ResolveAlert(hit[w])
      /\ act[w] = "resolve"
      /\ act' = [act EXCEPT ![w] = "none"]
      /\ hit' = [hit EXCEPT ![w] = 0]
      /\ work' = [work EXCEPT ![w] = Tail(@)]
      /\ UNCHANGED <<running, syslogs, acks, boots>>
  BY DEF Close, RuleDone
<1>2. work[w] # <<>> /\ work[w] \in Seq(ChecksFor(w))
  BY <1>1 DEF WorkOK
<1>3. Tail(work[w]) \in Seq(ChecksFor(w))
  BY <1>2, HeadTailProperties
<1>4. Tail(work[w]) \in Seq(Check)
  BY <1>3, SeqMonotonic DEF ChecksFor
<1>5. hit[w] \in AlertId
  BY <1>1 DEF HitStaysValid
<1>6. StoreInv'
  BY <1>1, <1>5, ResolveAlertInv
<1>7. /\ alerts' = [alerts EXCEPT ![hit[w]].status = "resolved"]
      /\ Save(alerts')
      /\ alerts \in AlertTable /\ alerts' \in AlertTable
  BY <1>1, <1>6 DEF ResolveAlert, StoreInv, StoreTypeOK
<1>8. DetectorTypeOK'
  <2>1. 0 \in 0..MaxAlerts
    BY AlertStoreAssumption
  <2> QED
    BY <1>1, <1>4, <1>6, <2>1 DEF DetectorTypeOK, StoreInv
<1>9. WorkOK'
  BY <1>1, <1>3 DEF DetectorTypeOK, WorkOK
<1>10. HitStaysValid'
  BY <1>1, <1>5, <1>7 DEF HitStaysValid, DetectorTypeOK, AlertTable, Alert
<1>11. OpenAndRaisers'
  <2>1. \A k \in Key : OpenIn(alerts', k) \subseteq OpenIn(alerts, k)
    BY <1>5, <1>7 DEF OpenIn, IsOpen, AlertTable, Alert
  <2>2. \A k \in Key : RaisersIn(act', work', k) \subseteq RaisersIn(act, work, k)
    BY <1>1 DEF RaisersIn, DetectorTypeOK
  <2> QED
    BY <1>7, <2>1, <2>2, NothingOpened
<1> QED
  BY <1>6, <1>8, <1>9, <1>10, <1>11

(* A syslog alert keeps the detector's invariant.                           *)
LEMMA RecordSyslogAlertInv ==
  ASSUME DetectorInv, NEW key \in SyslogKey, RecordSyslogAlert(key)
  PROVE  DetectorInv'
<1> DEFINE id == lastId + 1
<1> USE DEF DetectorInv
<1>1. /\ AddAlert(key)
      /\ syslogs < MaxSyslog
      /\ syslogs' = syslogs + 1
      /\ UNCHANGED <<work, act, hit, running, acks, boots>>
  BY DEF RecordSyslogAlert
<1>2. StoreInv' /\ id \in AlertId /\ alerts[id] = NoAlert
  BY <1>1, AddAlertInv DEF SyslogKey
<1>3. /\ alerts' = [alerts EXCEPT ![id] = [key |-> key, status |-> "active", acked |-> FALSE]]
      /\ Save(alerts')
      /\ alerts \in AlertTable /\ alerts' \in AlertTable
  BY <1>1, <1>2 DEF AddAlert, StoreInv, StoreTypeOK
<1>4. DetectorTypeOK'
  <2>1. syslogs' \in 0..MaxSyslog
    BY <1>1, DetectorAssumption DEF DetectorTypeOK
  <2> QED
    BY <1>1, <1>2, <2>1 DEF DetectorTypeOK, StoreInv
<1>5. WorkOK'
  BY <1>1 DEF WorkOK
<1>6. HitStaysValid'
  BY <1>1, <1>2, <1>3 DEF HitStaysValid, AlertTable, NoAlert
<1>7. OpenAndRaisers'
  <2>1. \A k \in Key \ SyslogKey : OpenIn(alerts', k) \subseteq OpenIn(alerts, k)
    BY <1>2, <1>3 DEF OpenIn, IsOpen, AlertTable, NoAlert
  <2>2. \A k \in Key : RaisersIn(act', work', k) \subseteq RaisersIn(act, work, k)
    BY <1>1 DEF RaisersIn
  <2> QED
    BY <1>3, <2>1, <2>2, NothingOpened
<1> QED
  BY <1>2, <1>4, <1>5, <1>6, <1>7

(* An acknowledgement keeps the detector's invariant.                       *)
LEMMA AcknowledgeInv ==
  ASSUME DetectorInv, NEW i \in AlertId, Acknowledge(i)
  PROVE  DetectorInv'
<1> USE DEF DetectorInv
<1>1. /\ AcknowledgeAlert(i)
      /\ acks < MaxAcks
      /\ acks' = acks + 1
      /\ UNCHANGED <<work, act, hit, running, syslogs, boots>>
  BY DEF Acknowledge
<1>2. StoreInv'
  BY <1>1, AcknowledgeAlertInv
<1>3. /\ Save(alerts')
      /\ alerts \in AlertTable /\ alerts' \in AlertTable
  BY <1>1, <1>2 DEF AcknowledgeAlert, StoreInv, StoreTypeOK
<1>4. ASSUME NEW j \in AlertId
      PROVE  /\ alerts'[j].key = alerts[j].key
             /\ alerts'[j].status \in {"active", "acknowledged"}
                  => alerts[j].status \in {"active", "acknowledged"}
             /\ alerts[j].status # "none" => alerts'[j].status # "none"
  BY <1>1, <1>3 DEF AcknowledgeAlert, AlertTable
<1>5. DetectorTypeOK'
  <2>1. acks' \in 0..MaxAcks
    BY <1>1, DetectorAssumption DEF DetectorTypeOK
  <2> QED
    BY <1>1, <1>2, <2>1 DEF DetectorTypeOK, StoreInv
<1>6. WorkOK'
  BY <1>1 DEF WorkOK
<1>7. HitStaysValid'
  <2> SUFFICES ASSUME NEW v \in Writer, act[v] = "resolve"
               PROVE  /\ hit[v] \in AlertId
                      /\ alerts'[hit[v]].key = Head(work[v]).key
                      /\ alerts'[hit[v]].status # "none"
    BY <1>1 DEF HitStaysValid
  <2> QED
    BY <1>4 DEF HitStaysValid
<1>8. OpenAndRaisers'
  <2>1. \A k \in Key : OpenIn(alerts', k) \subseteq OpenIn(alerts, k)
    BY <1>4 DEF OpenIn, IsOpen
  <2>2. \A k \in Key : RaisersIn(act', work', k) \subseteq RaisersIn(act, work, k)
    BY <1>1 DEF RaisersIn
  <2> QED
    BY <1>3, <2>1, <2>2, NothingOpened
<1> QED
  BY <1>2, <1>5, <1>6, <1>7, <1>8

(* A new process has no writer at work: its bound is that of the file, or of   *)
(* the memory it never replaced.                                             *)
LEMMA RestartInv ==
  ASSUME DetectorInv, Restart \/ FailedBoot
  PROVE  DetectorInv'
<1> USE DEF DetectorInv
<1>1. /\ boots < MaxBoots /\ boots' = boots + 1
      /\ work' = NoWork /\ act' = Idle /\ hit' = NoHit
      /\ UNCHANGED <<syslogs, acks>>
      /\ running' \in BOOLEAN
      /\ LoadAlerts \/ UNCHANGED storeVars
  BY DEF Restart, FailedBoot, DetectorTypeOK
<1>2. StoreInv'
  BY <1>1, LoadAlertsInv, StoreUnchangedInv
<1>3. DetectorTypeOK'
  <2>1. work' \in [Writer -> Seq(Check)]
    BY <1>1, EmptySeq DEF NoWork
  <2>2. 0 \in 0..MaxAlerts /\ boots' \in 0..MaxBoots
    BY <1>1, AlertStoreAssumption, DetectorAssumption DEF DetectorTypeOK
  <2> QED
    BY <1>1, <1>2, <2>1, <2>2 DEF DetectorTypeOK, StoreInv, Idle, NoHit
<1>4. WorkOK'
  BY <1>1, EmptySeq DEF WorkOK, NoWork, Idle
<1>5. HitStaysValid'
  BY <1>1 DEF HitStaysValid, Idle
<1>6. OpenAndRaisers'
  <2> SUFFICES ASSUME NEW k \in Key \ SyslogKey
               PROVE  /\ Cardinality(OpenIn(alerts', k)) + Cardinality(RaisersIn(act', work', k))
                           <= Cardinality(WritersOf(k))
                      /\ Cardinality(OpenIn(alertsFile', k)) <= Cardinality(WritersOf(k))
    BY DEF OpenAndRaisers, RaisersOf, OpenIn, IsOpen, RaisersIn
  <2>1. Cardinality(RaisersIn(act', work', k)) = 0
    <3>1. RaisersIn(act', work', k) = {}
      BY <1>1 DEF RaisersIn, Idle
    <3> QED
      BY <3>1, FS_EmptySet
  <2>2. /\ Cardinality(OpenIn(alerts, k)) <= Cardinality(WritersOf(k))
        /\ Cardinality(OpenIn(alertsFile, k)) <= Cardinality(WritersOf(k))
    BY OpenHasCardinality, WritersAreFinite DEF OpenAndRaisers, RaisersOf
  <2>3. alertsFile' = alertsFile /\ alerts' \in {alerts, alertsFile}
    BY <1>1 DEF LoadAlerts, storeVars
  <2>4. Cardinality(OpenIn(alerts', k)) \in Nat
    BY OpenHasCardinality
  <2> QED
    BY <2>1, <2>2, <2>3, <2>4
<1> QED
  BY <1>2, <1>3, <1>4, <1>5, <1>6

(* So does a step that leaves the detector alone.                           *)
LEMMA DetectorUnchangedInv ==
  ASSUME DetectorInv, UNCHANGED detectorVars
  PROVE  DetectorInv'
<1> USE DEF DetectorInv, detectorVars
<1>1. StoreInv'
  BY StoreUnchangedInv DEF storeVars
<1>2. DetectorTypeOK' /\ WorkOK' /\ HitStaysValid'
  BY <1>1 DEF DetectorTypeOK, StoreInv, WorkOK, HitStaysValid
<1>3. OpenAndRaisers'
  BY DEF OpenAndRaisers, OpenIn, IsOpen, RaisersOf, RaisersIn
<1> QED
  BY <1>1, <1>2, <1>3

(* Every step of the detector keeps its invariant.                          *)
LEMMA DetectorStepInv ==
  ASSUME DetectorInv, [DetectorNext]_detectorVars
  PROVE  DetectorInv'
<1>1. ASSUME NEW w \in Writer, NEW n \in 1..MaxChecks, NEW s \in ChecksOf(w, n), Evaluate(w, s)
      PROVE  DetectorInv'
  <2>1. n \in Nat
    BY DetectorAssumption
  <2>2. s \in Seq(ChecksFor(w))
    BY <2>1, SeqDef DEF ChecksOf
  <2> QED
    BY <1>1, <2>2, EvaluateInv
<1> QED
  BY <1>1, LookInv, RaiseInv, CloseInv, RecordSyslogAlertInv, AcknowledgeInv, RestartInv,
    DetectorUnchangedInv DEF DetectorNext

-----------------------------------------------------------------------------
(* Theorems *)

(* The invariant, and with it the types of every variable of the detector and  *)
(* of the store, holds in every reachable state.                              *)
THEOREM DetectorInvariant == DetectorSpec => []DetectorInv
<1>1. DetectorInit => DetectorInv
  BY DetectorInitInv
<1>2. DetectorInv /\ [DetectorNext]_detectorVars => DetectorInv'
  BY DetectorStepInv
<1> QED
  BY <1>1, <1>2, PTL DEF DetectorSpec

(* Every variable keeps its type, whatever the disk, the operator and the      *)
(* goroutines do.                                                            *)
THEOREM DetectorTypeCorrect == DetectorSpec => []DetectorTypeOK
<1>1. DetectorInv => DetectorTypeOK
  BY DEF DetectorInv
<1> QED
  BY <1>1, DetectorInvariant, PTL

(* A condition that n goroutines evaluate never has more than n open alerts:    *)
(* one that only the collector evaluates is never alerted twice at a time.      *)
THEOREM OpenIsBounded == DetectorSpec => []OpenBoundedByWriters
<1>1. DetectorInv => OpenBoundedByWriters
  BY OpenHasCardinality, WritersAreFinite
    DEF DetectorInv, OpenAndRaisers, OpenBoundedByWriters, RaisersOf
<1> QED
  BY <1>1, DetectorInvariant, PTL

(* The alert that a look-up found is still there, and still of the condition    *)
(* that has recovered, when it is resolved.                                   *)
THEOREM HitsAreValid == DetectorSpec => []HitStaysValid
<1>1. DetectorInv => HitStaysValid
  BY DEF DetectorInv
<1> QED
  BY <1>1, DetectorInvariant, PTL

-----------------------------------------------------------------------------
(* The life of one alert *)

(* What a step of the detector does to the table: nothing, one of the store's   *)
(* three operations, or a restart.                                             *)
LEMMA StoreSteps ==
  ASSUME DetectorInv, [DetectorNext]_detectorVars
  PROVE  \/ UNCHANGED <<alerts, boots>>
         \/ UNCHANGED boots /\ \E k \in Key : AddAlert(k)
         \/ UNCHANGED boots /\ \E i \in AlertId : ResolveAlert(i)
         \/ UNCHANGED boots /\ \E i \in AlertId : AcknowledgeAlert(i)
         \/ boots' # boots /\ LoadAlerts
         \/ boots' # boots /\ ~running' /\ fileTorn /\ UNCHANGED storeVars
<1> USE DEF DetectorInv
<1>0. boots \in Nat
  BY DetectorAssumption DEF DetectorTypeOK
<1>1. ASSUME NEW w \in Writer, Raise(w) PROVE UNCHANGED boots /\ \E k \in Key : AddAlert(k)
  <2>1. work[w] # <<>> /\ work[w] \in Seq(Check)
    BY <1>1 DEF WorkOK, Raise, DetectorTypeOK
  <2>2. Head(work[w]) \in Check
    BY <2>1, HeadTailProperties
  <2> QED
    BY <1>1, <2>2 DEF Raise, Check
<1>2. ASSUME NEW w \in Writer, Close(w)
      PROVE  UNCHANGED boots /\ \E i \in AlertId : ResolveAlert(i)
  BY <1>2 DEF Close, HitStaysValid
<1>3. ASSUME NEW w \in Writer, Look(w) PROVE UNCHANGED <<alerts, boots>>
  BY <1>3 DEF Look, storeVars
<1>4. ASSUME NEW w \in Writer, NEW s, Evaluate(w, s) PROVE UNCHANGED <<alerts, boots>>
  BY <1>4 DEF Evaluate, storeVars
<1>5. ASSUME NEW k \in SyslogKey, RecordSyslogAlert(k)
      PROVE  UNCHANGED boots /\ \E j \in Key : AddAlert(j)
  BY <1>5 DEF RecordSyslogAlert, SyslogKey
<1>6. ASSUME NEW i \in AlertId, Acknowledge(i)
      PROVE  UNCHANGED boots /\ \E j \in AlertId : AcknowledgeAlert(j)
  BY <1>6 DEF Acknowledge
<1>7. ASSUME Restart PROVE boots' # boots /\ LoadAlerts
  BY <1>0, <1>7 DEF Restart
<1>8. ASSUME FailedBoot PROVE boots' # boots /\ ~running' /\ fileTorn /\ UNCHANGED storeVars
  BY <1>0, <1>8 DEF FailedBoot
<1>9. ASSUME UNCHANGED detectorVars PROVE UNCHANGED <<alerts, boots>>
  BY <1>9 DEF detectorVars
<1> QED
  BY <1>1, <1>2, <1>3, <1>4, <1>5, <1>6, <1>7, <1>8, <1>9 DEF DetectorNext

(* A resolved alert stays resolved until the process restarts.                  *)
THEOREM ResolvedStays == DetectorSpec => ResolvedIsFinal
<1>1. ASSUME DetectorInv, [DetectorNext]_detectorVars, boots' = boots,
             NEW j \in AlertId, alerts[j].status = "resolved"
      PROVE  alerts'[j].status = "resolved"
  <2>1. alerts \in AlertTable
    BY <1>1 DEF DetectorInv, StoreInv, StoreTypeOK
  <2>2. ASSUME NEW k \in Key, AddAlert(k) PROVE alerts'[j].status = "resolved"
    <3>1. alerts[lastId + 1] = NoAlert
      BY <1>1, <2>2, AddAlertInv DEF DetectorInv
    <3>2. j # lastId + 1
      BY <1>1, <3>1 DEF NoAlert
    <3> QED
      BY <1>1, <2>1, <2>2, <3>2 DEF AddAlert, AlertTable
  <2>3. ASSUME NEW i \in AlertId, ResolveAlert(i) PROVE alerts'[j].status = "resolved"
    BY <1>1, <2>1, <2>3 DEF ResolveAlert, AlertTable, Alert
  <2>4. ASSUME NEW i \in AlertId, AcknowledgeAlert(i) PROVE alerts'[j].status = "resolved"
    BY <1>1, <2>1, <2>4 DEF AcknowledgeAlert, AlertTable
  <2> QED
    BY <1>1, <2>2, <2>3, <2>4, StoreSteps
<1>2. DetectorInv /\ [DetectorNext]_detectorVars
        => [boots' = boots =>
             \A i \in AlertId : alerts[i].status = "resolved" => alerts'[i].status = "resolved"
           ]_detectorVars
  BY <1>1
<1> QED
  BY <1>2, DetectorInvariant, PTL DEF DetectorSpec, ResolvedIsFinal

(* A restart after a successful save loses nothing but the oldest alerts.       *)
THEOREM RestartIsLossless == DetectorSpec => RestartKeepsNewest
<1>1. ASSUME DetectorInv, [DetectorNext]_detectorVars, boots' # boots, running', ~unsaved
      PROVE  alerts' = Newest(alerts)
  <2>1. alertsFile = Newest(alerts)
    BY <1>1 DEF DetectorInv, StoreInv, FileIsCurrent
  <2>2. LoadAlerts
    BY <1>1, StoreSteps
  <2> QED
    BY <2>1, <2>2 DEF LoadAlerts
<1>2. DetectorInv /\ [DetectorNext]_detectorVars
        => [(boots' # boots /\ running' /\ ~unsaved) => alerts' = Newest(alerts)]_detectorVars
  BY <1>1
<1> QED
  BY <1>2, DetectorInvariant, PTL DEF DetectorSpec, RestartKeepsNewest

(* The detector, its store and the file refine the life cycle of an alert: each  *)
(* step is a step of it or leaves it as it is.                                 *)
THEOREM DetectorRefinesLifecycle == DetectorSpec => LifecycleHolds
<1> DEFINE ph == [i \in AlertId |-> alerts[i].status]
<1>1. DetectorInit => Lifecycle!LifecycleInit
  BY DEF DetectorInit, StoreInit, NoAlert, Lifecycle!LifecycleInit
<1>2. ASSUME DetectorInv, [DetectorNext]_detectorVars
      PROVE  [Lifecycle!LifecycleNext]_(Lifecycle!lifecycleVars)
  <2> USE DEF DetectorInv
  <2>0. alerts \in AlertTable /\ alerts' \in AlertTable
    BY <1>2, DetectorStepInv DEF StoreInv, StoreTypeOK
  <2>1. CASE UNCHANGED <<alerts, boots>>
    BY <2>1 DEF Lifecycle!lifecycleVars
  <2>2. ASSUME UNCHANGED boots, NEW k \in Key, AddAlert(k)
        PROVE  \E i \in AlertId : Lifecycle!Raised(i)
    <3>1. lastId + 1 \in AlertId /\ alerts[lastId + 1] = NoAlert
      BY <1>2, <2>2, AddAlertInv
    <3>2. ASSUME NEW i \in AlertId
          PROVE  alerts'[i].status = IF i = lastId + 1 THEN "active" ELSE alerts[i].status
      BY <2>0, <2>2, <3>1 DEF AddAlert, AlertTable
    <3>3. ph' = [ph EXCEPT ![lastId + 1] = "active"]
      BY <3>2
    <3>4. ph[lastId + 1] = "none"
      BY <3>1 DEF NoAlert
    <3> QED
      BY <3>1, <3>3, <3>4 DEF Lifecycle!Raised
  <2>3. ASSUME UNCHANGED boots, NEW i \in AlertId, ResolveAlert(i)
        PROVE  Lifecycle!Resolved(i) \/ ph' = ph
    <3>1. ph' = [ph EXCEPT ![i] = "resolved"]
      BY <2>0, <2>3 DEF ResolveAlert, AlertTable, Alert
    <3>2. ph[i] \in {"active", "acknowledged", "resolved"}
      BY <2>0, <2>3 DEF ResolveAlert, AlertTable, Alert, Status
    <3> QED
      BY <3>1, <3>2 DEF Lifecycle!Resolved
  <2>4. ASSUME UNCHANGED boots, NEW i \in AlertId, AcknowledgeAlert(i)
        PROVE  Lifecycle!Acknowledged(i) \/ ph' = ph
    <3>1. ph' = [ph EXCEPT ![i] = IF @ = "active" THEN "acknowledged" ELSE @]
      BY <2>0, <2>4 DEF AcknowledgeAlert, AlertTable
    <3> QED
      BY <3>1 DEF Lifecycle!Acknowledged
  <2>5. ASSUME boots' # boots, \A i \in AlertId : alerts'[i].status \in Passed(alerts[i].status)
        PROVE  Lifecycle!RolledBack
    <3>1. \A i \in AlertId : ph'[i] \in Lifecycle!Earlier(ph[i])
      BY <2>0, <2>5 DEF Passed, Status, Lifecycle!Earlier, Lifecycle!Phase, AlertTable, Alert
    <3>2. ph' \in [AlertId -> Lifecycle!Phase]
      BY <2>0 DEF Lifecycle!Phase, Status, AlertTable, Alert
    <3> QED
      BY <2>5, <3>1, <3>2 DEF Lifecycle!RolledBack
  <2>6. CASE boots' # boots /\ LoadAlerts
    BY <1>2, <2>5, <2>6 DEF LoadAlerts, StoreInv, FileIsEarlier, Lifecycle!LifecycleNext
  <2>7. CASE boots' # boots /\ UNCHANGED storeVars
    <3>1. \A i \in AlertId : alerts'[i].status \in Passed(alerts[i].status)
      BY <2>0, <2>7 DEF storeVars, Passed, Status, AlertTable, Alert
    <3> QED
      BY <2>5, <2>7, <3>1 DEF Lifecycle!LifecycleNext
  <2> QED
    BY <1>2, <2>1, <2>2, <2>3, <2>4, <2>6, <2>7, StoreSteps
      DEF Lifecycle!LifecycleNext, Lifecycle!lifecycleVars
<1> QED
  BY <1>1, <1>2, DetectorInvariant, PTL DEF DetectorSpec, LifecycleHolds, Lifecycle!LifecycleSpec

=============================================================================
