------------------------------ MODULE Detector ------------------------------
(***************************************************************************)
(* The anomaly detector (backend/internal/telemetry/detector.go) over the   *)
(* alert store, with the goroutines that call it at the same time: the       *)
(* collector's goroutine of each device and the BMP server's goroutine of    *)
(* each connected router.                                                   *)
(*                                                                         *)
(* Every rule of the detector has the same two halves.  It asks the store    *)
(* for an open alert of a key (FindActiveAlert, under the read lock), lets    *)
(* go of the lock, and then raises an alert when the condition is bad and     *)
(* none was found, or resolves the one it found when the condition is good.  *)
(* The halves are two steps here, as any other goroutine may run between      *)
(* them.  What a writer still has to evaluate is a sequence of checks, in the *)
(* order of the code's loops.  Broadcasts to the browsers are left out.       *)
(***************************************************************************)
EXTENDS AlertStore, Sequences

CONSTANTS
  Writer,       \* goroutines that call the detector
  KeysOf,       \* the keys each writer evaluates
  MaxChecks,    \* bound: checks in one evaluation
  MaxSyslog,    \* bound: syslog alerts in one behaviour
  MaxAcks,      \* bound: acknowledgements in one behaviour
  MaxBoots      \* bound: restarts in one behaviour

VARIABLES
  work,         \* per writer: the checks still to run
  act,          \* per writer: what the last look-up decided
  hit,          \* per writer: the alert the look-up found, 0 for none
  running,      \* the process has not died for good
  syslogs,      \* syslog alerts so far
  acks,         \* acknowledgements so far
  boots         \* restarts so far

detectorVars ==
  <<alerts, lastId, alertsFile, fileTorn, unsaved,
    work, act, hit, running, syslogs, acks, boots>>

(* One evaluation of one rule: the key and whether the condition is bad.    *)
Check == [key : Key, bad : BOOLEAN]

SyslogKey == {k \in Key : k[2] = "syslog_event"}

ASSUME DetectorAssumption ==
  /\ IsFiniteSet(Writer)
  /\ KeysOf \in [Writer -> SUBSET (Key \ SyslogKey)]
  /\ MaxChecks \in Nat /\ MaxSyslog \in Nat
  /\ MaxAcks \in Nat /\ MaxBoots \in Nat

(* The writers that evaluate key k.                                         *)
WritersOf(k) == {w \in Writer : k \in KeysOf[w]}

(* The checks writer w can be given, and its evaluations of n of them.       *)
ChecksFor(w) == {c \in Check : c.key \in KeysOf[w]}

ChecksOf(w, n) == [1..n -> ChecksFor(w)]

-----------------------------------------------------------------------------

Idle == [w \in Writer |-> "none"]
NoHit == [w \in Writer |-> 0]
NoWork == [w \in Writer |-> <<>>]

DetectorInit ==
  /\ StoreInit
  /\ work = NoWork
  /\ act = Idle
  /\ hit = NoHit
  /\ running = TRUE
  /\ syslogs = 0
  /\ acks = 0
  /\ boots = 0

(* A caller hands over an evaluation; what it observed is its own matter.   *)
Evaluate(w, s) ==
  /\ running
  /\ work[w] = <<>>
  /\ work' = [work EXCEPT ![w] = s]
  /\ UNCHANGED <<storeVars, act, hit, running, syslogs, acks, boots>>

(* The first half of a rule: the look-up, and what follows from it.         *)
Look(w) ==
  /\ running
  /\ work[w] # <<>>
  /\ act[w] = "none"
  /\ LET c == Head(work[w])
         found == FindActiveAlert(c.key)
     IN \/ /\ c.bad /\ found = {}
           /\ act' = [act EXCEPT ![w] = "raise"]
           /\ UNCHANGED <<hit, work>>
        \/ /\ ~c.bad
           /\ \E i \in found : hit' = [hit EXCEPT ![w] = i]
           /\ act' = [act EXCEPT ![w] = "resolve"]
           /\ UNCHANGED work
        \/ /\ c.bad <=> found # {}
           /\ work' = [work EXCEPT ![w] = Tail(@)]
           /\ UNCHANGED <<act, hit>>
  /\ UNCHANGED <<storeVars, running, syslogs, acks, boots>>

RuleDone(w) ==
  /\ act' = [act EXCEPT ![w] = "none"]
  /\ hit' = [hit EXCEPT ![w] = 0]
  /\ work' = [work EXCEPT ![w] = Tail(@)]

(* The second half when nothing was found: a new alert.                     *)
Raise(w) ==
  /\ running
  /\ act[w] = "raise"
  /\ AddAlert(Head(work[w]).key)
  /\ RuleDone(w)
  /\ UNCHANGED <<running, syslogs, acks, boots>>

(* The second half when an alert was found: resolve that one.               *)
Close(w) ==
  /\ running
  /\ act[w] = "resolve"
  /\ ResolveAlert(hit[w])
  /\ RuleDone(w)
  /\ UNCHANGED <<running, syslogs, acks, boots>>

(* A syslog line of a device: always one more alert.                        *)
RecordSyslogAlert(k) ==
  /\ running
  /\ syslogs < MaxSyslog
  /\ AddAlert(k)
  /\ syslogs' = syslogs + 1
  /\ UNCHANGED <<work, act, hit, running, acks, boots>>

(* The operator's "Reconhecer" button.                                      *)
Acknowledge(i) ==
  /\ running
  /\ acks < MaxAcks
  /\ AcknowledgeAlert(i)
  /\ acks' = acks + 1
  /\ UNCHANGED <<work, act, hit, running, syslogs, boots>>

(* The process dies and starts again: its goroutines are gone, and the      *)
(* alerts are those of the file.                                            *)
Restart ==
  /\ running
  /\ boots < MaxBoots
  /\ LoadAlerts
  /\ work' = NoWork
  /\ act' = Idle
  /\ hit' = NoHit
  /\ boots' = boots + 1
  /\ UNCHANGED <<running, syslogs, acks>>

(* The process dies and alerts.json does not parse: no start succeeds.      *)
FailedBoot ==
  /\ running
  /\ boots < MaxBoots
  /\ fileTorn
  /\ running' = FALSE
  /\ work' = NoWork
  /\ act' = Idle
  /\ hit' = NoHit
  /\ boots' = boots + 1
  /\ UNCHANGED <<storeVars, syslogs, acks>>

DetectorNext ==
  \/ \E w \in Writer, n \in 1..MaxChecks :
       \E s \in ChecksOf(w, n) : Evaluate(w, s)
  \/ \E w \in Writer : Look(w) \/ Raise(w) \/ Close(w)
  \/ \E k \in SyslogKey : RecordSyslogAlert(k)
  \/ \E i \in AlertId : Acknowledge(i)
  \/ Restart
  \/ FailedBoot

DetectorSpec == DetectorInit /\ [][DetectorNext]_detectorVars

-----------------------------------------------------------------------------
(* Properties *)

(* Every variable keeps the shape the code gives it: a look-up that decided  *)
(* to resolve names an alert number, one that decided to raise names none.   *)
DetectorTypeOK ==
  /\ StoreTypeOK
  /\ work \in [Writer -> Seq(Check)]
  /\ act \in [Writer -> {"none", "raise", "resolve"}]
  /\ hit \in [Writer -> 0..MaxAlerts]
  /\ running \in BOOLEAN
  /\ syslogs \in 0..MaxSyslog
  /\ acks \in 0..MaxAcks
  /\ boots \in 0..MaxBoots

(* Find-then-add is not atomic, so duplicates are possible; but a key never  *)
(* has more open alerts than goroutines that evaluate it.  A key of a single  *)
(* goroutine (device offline, prefix drop, OSPF) is therefore never           *)
(* duplicated, however acknowledgements, restarts and lost saves fall.        *)
OpenBoundedByWriters ==
  \A k \in Key \ SyslogKey :
    Cardinality(OpenIn(alerts, k)) <= Cardinality(WritersOf(k))

(* Between the look-up and ResolveAlert the alert that was found cannot go    *)
(* away or become another condition's: ErrAlertNotFound is never returned to  *)
(* the detector, and a recovery never resolves some other alert.              *)
HitStaysValid ==
  \A w \in Writer :
    act[w] = "resolve" =>
      /\ hit[w] \in AlertId
      /\ alerts[hit[w]].key = Head(work[w]).key
      /\ alerts[hit[w]].status # "none"

(* A resolved alert is never active or acknowledged again within one run of   *)
(* the process: not by a late acknowledgement, nor by a writer that looked     *)
(* before another one resolved it.                                            *)
ResolvedIsFinal ==
  [][boots' = boots =>
       \A i \in AlertId : alerts[i].status = "resolved" => alerts'[i].status = "resolved"
    ]_detectorVars

(* As long as the last write succeeded, a restart brings back exactly the      *)
(* newest RetainLimit alerts, acknowledgements and resolutions included:       *)
(* every operation that changes an alert has saved it.                         *)
RestartKeepsNewest ==
  [][(boots' # boots /\ running' /\ ~unsaved) => alerts' = Newest(alerts)]_detectorVars

(* The store, file and goroutines together implement the promise made of each  *)
(* alert, restarts and failed saves included.                                  *)
Lifecycle == INSTANCE AlertLifecycle WITH
  phase <- [i \in AlertId |-> alerts[i].status],
  restarts <- boots

LifecycleHolds == Lifecycle!LifecycleSpec

(* What detector_test.go expects of a BGP drop: one open alert.                *)
OneAlertPerCondition ==
  \A k \in Key \ SyslogKey : Cardinality(OpenIn(alerts, k)) <= 1

=============================================================================
