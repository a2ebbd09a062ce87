---------------------------- MODULE LicenseTerms ----------------------------
(***************************************************************************)
(* What both licence servers know of a licence: its key, its limit of        *)
(* devices, its expiry, its grace period, and the status that each server    *)
(* works out from them (backend/internal/license/manager.go on the edge,      *)
(* master-server/internal/models/license.go on the master).                   *)
(*                                                                         *)
(* Time goes by in days.  Expiries are set at the first hour of a day and      *)
(* statuses are worked out at noon: on the day `exp' the instant of expiry is   *)
(* twelve hours old.                                                          *)
(***************************************************************************)
EXTENDS Integers, FiniteSets

CONSTANTS
  Key,       \* licence keys
  MaxLimit,  \* bound: the greatest limit of devices in use
  Grace,     \* days of grace of the edge, and of a licence issued without any
  MaxDay     \* bound: the last day, and the last day of any licence

VARIABLE today

ASSUME LicenseTermsAssumption ==
  /\ MaxLimit \in Nat \ {0}
  /\ Grace \in Nat
  /\ MaxDay \in Nat

-----------------------------------------------------------------------------

(* Limits of devices; 0 stands for no limit.                                *)
Unlimited == 0
Limit == 0..MaxLimit

Day == 0..MaxDay

Status == {"active", "grace_period", "expired", "suspended"}

(* The edge's record of its licence.                                        *)
Entitlement == [key : Key, max : Limit, exp : Day, status : Status]

(* Mutant: a licence that has not expired is active.                         *)
EdgeStatusForgetful(max, exp, status) ==
  IF max = Unlimited \/ today <= exp THEN "active"
  ELSE IF today - exp < Grace THEN "grace_period"
  ELSE "expired"

(* calculateRemainingDays: the hours left are divided by 24 and truncated to  *)
(* an integer, so that the day after the instant of expiry still counts.      *)
EdgeStatus(max, exp, status) ==
  IF max = Unlimited THEN "active"
  ELSE IF today <= exp THEN (IF status = "suspended" THEN "suspended" ELSE "active")
  ELSE IF today - exp < Grace THEN "grace_period"
  ELSE "expired"

Recalculated(l) == [l EXCEPT !.status = EdgeStatus(l.max, l.exp, l.status)]

(* ComputeStatus, on the master, with the days of grace of the licence.       *)
MasterStatus(suspended, exp, grace) ==
  IF suspended THEN "suspended"
  ELSE IF today < exp THEN "active"
  ELSE IF today - exp < grace THEN "grace_period"
  ELSE "expired"

(* Another day.                                                             *)
NextDay == today < MaxDay /\ today' = today + 1

=============================================================================
