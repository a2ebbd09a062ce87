--------------------------- MODULE AlertLifecycle ---------------------------
(***************************************************************************)
(* What the alert subsystem promises of every single alert, without stores, *)
(* files or goroutines: it is raised once, it may be acknowledged while it   *)
(* is open, it is resolved at most once, and what is resolved stays so.       *)
(* Only a restart can take an alert back: to an earlier phase of its own     *)
(* life, or out of the list when it is too old to be retained.               *)
(***************************************************************************)
CONSTANT AlertId

VARIABLES phase, restarts

lifecycleVars == <<phase, restarts>>

Phase == {"none", "active", "acknowledged", "resolved"}

(* The phases an alert in phase p may have gone through.                    *)
Earlier(p) ==
  CASE p = "none" -> {"none"}
    [] p = "active" -> {"none", "active"}
    [] p = "acknowledged" -> {"none", "active", "acknowledged"}
    [] p = "resolved" -> Phase

LifecycleInit ==
  /\ phase = [i \in AlertId |-> "none"]
  /\ restarts = 0

Raised(i) == phase[i] = "none" /\ phase' = [phase EXCEPT ![i] = "active"]

Acknowledged(i) ==
  phase[i] = "active" /\ phase' = [phase EXCEPT ![i] = "acknowledged"]

Resolved(i) ==
  /\ phase[i] \in {"active", "acknowledged"}
  /\ phase' = [phase EXCEPT ![i] = "resolved"]

RolledBack ==
  /\ \A i \in AlertId : phase'[i] \in Earlier(phase[i])
  /\ phase' \in [AlertId -> Phase]
  /\ restarts' # restarts

LifecycleNext ==
  \/ /\ \E i \in AlertId : Raised(i) \/ Acknowledged(i) \/ Resolved(i)
     /\ UNCHANGED restarts
  \/ RolledBack

LifecycleSpec == LifecycleInit /\ [][LifecycleNext]_lifecycleVars

=============================================================================
