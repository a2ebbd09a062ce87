---------------------------- MODULE LicenseMaster ----------------------------
(***************************************************************************)
(* The master licence server: its store of licences                           *)
(* (master-server/internal/store/store.go) and the requests of its panel      *)
(* (master-server/internal/handlers/admin.go).                                *)
(*                                                                         *)
(* Every store operation holds the store's mutex.  Suspending, reactivating    *)
(* and renewing are two of them, GetByID and Update, with the mutex released   *)
(* in between, and several administrators may be at work.  The stored fields   *)
(* of a heartbeat, names and features are left out, and so is the file: each    *)
(* change is written before the mutex is released.                            *)
(***************************************************************************)
EXTENDS LicenseTerms

CONSTANTS
  Generated, \* keys that GenerateLicenseKey makes
  Admin,   \* requests of the panel that may be under way together
  Offer,   \* <<limit, days>> of the licences that are issued
  Period,  \* days of a renewal
  Graces,  \* days of grace that a request may ask for
  MaxOps   \* bound: panel requests in one behaviour

VARIABLES
  issued,  \* the store: by key, the licence and what has become of it
  panel,   \* per request: the operation under way and the licence it read
  ops      \* panel requests so far

masterVars == <<issued, panel, ops>>

Licence ==
  [life : {"new", "held", "deleted"}, max : Limit, exp : Day, suspended : BOOLEAN,
   grace : Graces \cup {Grace}]

Unissued == [life |-> "new", max |-> 0, exp |-> 0, suspended |-> FALSE, grace |-> Grace]

NoOp == [op |-> "none"]

PanelOp ==
  {NoOp} \cup
    [op : {"toggle", "renew"}, key : Generated, seen : Licence, days : Period \cup {0}]

ASSUME LicenseMasterAssumption ==
  /\ Generated \subseteq Key
  /\ Period \subseteq Nat \ {0}
  /\ Graces \subseteq Nat \ {0}
  /\ Offer \subseteq Limit \X (Nat \ {0})
  /\ MaxOps \in Nat

MasterInit ==
  /\ issued = [k \in Generated |-> Unissued]
  /\ panel = [a \in Admin |-> NoOp]
  /\ ops = 0

-----------------------------------------------------------------------------

Request == ops < MaxOps /\ ops' = ops + 1

Held(k) == k \in Generated /\ issued[k].life = "held"

(* Create: a new random key; 0 days of grace ask for the usual ones.          *)
CreateLicense(k, max, days, grace) ==
  /\ issued[k].life = "new"
  /\ today + days <= MaxDay
  /\ Request
  /\ issued' = [issued EXCEPT ![k] =
       [life |-> "held", max |-> max, exp |-> today + days, suspended |-> FALSE,
        grace |-> IF grace > 0 THEN grace ELSE Grace]]
  /\ UNCHANGED <<panel, today>>

(* Update with the limit, expiry, status and grace of a request: 0 and above   *)
(* are limits to set, 0 days of grace leave those that the licence has.  A      *)
(* request of the panel that sets only the status or the expiry has both 0.     *)
Update(k, max, exp, suspended, grace) ==
  issued' = [issued EXCEPT ![k] =
    [life |-> "held", max |-> max, exp |-> exp, suspended |-> suspended,
     grace |-> IF grace > 0 THEN grace ELSE @.grace]]

UpdateLicense(k, max, exp, suspended, grace) ==
  /\ Held(k)
  /\ Request
  /\ Update(k, max, exp, suspended, grace)
  /\ UNCHANGED <<panel, today>>

DeleteLicense(k) ==
  /\ Held(k)
  /\ Request
  /\ issued' = [issued EXCEPT ![k] = [Unissued EXCEPT !.life = "deleted"]]
  /\ UNCHANGED <<panel, today>>

(* GetByID of ToggleStatus and of RenewLicense.                              *)
Begin(a, op, k, days) ==
  /\ panel[a] = NoOp
  /\ Held(k)
  /\ Request
  /\ panel' = [panel EXCEPT ![a] =
       [op |-> op, key |-> k, seen |-> issued[k], days |-> days]]
  /\ UNCHANGED <<issued, today>>

Done(a) == panel' = [panel EXCEPT ![a] = NoOp]

(* A licence deleted in the meantime: Update returns ErrLicenseNotFound.      *)
NotFound(a) ==
  /\ panel[a] # NoOp
  /\ ~Held(panel[a].key)
  /\ Done(a)
  /\ UNCHANGED <<issued, ops, today>>

(* ToggleStatus: the opposite of the status that was read.                   *)
ToggleStatus(a) ==
  /\ panel[a].op = "toggle"
  /\ LET k == panel[a].key
     IN Held(k) /\ Update(k, 0, issued[k].exp, ~panel[a].seen.suspended, 0)
  /\ Done(a)
  /\ UNCHANGED <<ops, today>>

(* RenewLicense: counts from the expiry that was read, or from today.  It      *)
(* lifts a suspension.                                                        *)
RenewLicense(a) ==
  /\ panel[a].op = "renew"
  /\ LET p == panel[a]
         base == IF p.seen.exp <= today THEN today ELSE p.seen.exp
     IN /\ Held(p.key)
        /\ base + p.days <= MaxDay
        /\ Update(p.key, 0, base + p.days, FALSE, 0)
  /\ Done(a)
  /\ UNCHANGED <<ops, today>>

MasterNext ==
  \/ \E k \in Generated, o \in Offer, g \in Graces \cup {0} : CreateLicense(k, o[1], o[2], g)
  \/ \E k \in Generated, max \in Limit, exp \in Day, s \in BOOLEAN, g \in Graces \cup {0} :
       UpdateLicense(k, max, exp, s, g)
  \/ \E k \in Generated : DeleteLicense(k)
  \/ \E a \in Admin, k \in Generated :
       \/ Begin(a, "toggle", k, 0)
       \/ \E days \in Period : Begin(a, "renew", k, days)
  \/ \E a \in Admin : NotFound(a) \/ ToggleStatus(a) \/ RenewLicense(a)

(* RecordHeartbeat and the answer of HandleHeartbeat.  The days of grace are   *)
(* not told: the edge counts its own.                                         *)
HeartbeatReply(k) ==
  IF ~Held(k)
  THEN [code |-> 404]
  ELSE IF issued[k].suspended
  THEN [code |-> 403]
  ELSE [code |-> 200, status |-> MasterStatus(FALSE, issued[k].exp, issued[k].grace),
        exp |-> issued[k].exp, max |-> issued[k].max]

Reply ==
  {[code |-> 404], [code |-> 403]} \cup
    [code : {200}, status : Status, exp : Day, max : Limit]

-----------------------------------------------------------------------------
(* Properties *)

MasterTypeOK ==
  /\ today \in Day
  /\ issued \in [Generated -> Licence]
  /\ panel \in [Admin -> PanelOp]
  /\ ops \in 0..MaxOps

(* The comment of RenewLicense: it extends the expiry, and nothing else of the *)
(* licence is made less.                                                      *)
RenewalOnlyExtends ==
  [][\A a \in Admin : RenewLicense(a) =>
       LET k == panel[a].key
       IN issued'[k].exp >= issued[k].exp /\ issued'[k].max = issued[k].max
    ]_<<today, masterVars>>

=============================================================================
