--------------------------- MODULE TrafficConsole ---------------------------
(***************************************************************************)
(* Traffic profiles in the console (TrafficManager, TrafficProfilesBar,    *)
(* the profile windows of TrafficModals) and on the server (ProfileStore,  *)
(* StageAndActivate): compare a profile with the network, activate it,     *)
(* capture a new one, delete one, each followed by the loads that bring    *)
(* the bar and the two tables up to date.                                  *)
(***************************************************************************)
EXTENDS Integers, Sequences, SequencesExt

CONSTANTS
    Profiles,
    Factory,        \* the profiles the server never deletes
    NoProfile,
    MaxTrafficActs, \* bound: what the operator does
    MaxRefusals     \* bound: calls that fail on the way

ASSUME TrafficAssumption == /\ Factory \subseteq Profiles /\ NoProfile \notin Profiles
                            /\ {MaxTrafficActs, MaxRefusals} \subseteq Nat

VARIABLES
    network,   \* the server: [profiles, active, version]; the version counts activations
    bar,       \* the profile bar: [profiles, active, selected]
    tables,    \* the versions the upload and download tables show; Unread: nothing
    diffWin,   \* the comparison window: [open, profile, diff]
    manage,    \* the profile list window is open
    applying,  \* the activation button is disabled
    deletingProfile,
    pending,   \* calls in flight
    trafficActs, refusals,
    overlapped, \* a call was sent while another was in flight
    twoDiffs   \* the window was opened while an earlier comparison was in flight

trafficVars == <<network, bar, tables, diffWin, manage, applying, deletingProfile,
                 pending, trafficActs, refusals, overlapped, twoDiffs>>

Unread == -1

\* "applies": this load is one of those that follow an activation.
Send(kind, p, applies) ==
    [kind |-> kind, p |-> p, applies |-> applies, answered |-> FALSE, ok |-> FALSE, got |-> network]

InProgress(kind) == \E i \in DOMAIN pending : pending[i].kind = kind

\* TrafficManager once its first loads were answered.
TrafficInit ==
    /\ network \in [profiles : {P \in SUBSET Profiles : Factory \subseteq P},
                    active : Factory \cup {NoProfile}, version : {0}]
    /\ bar = [profiles |-> network.profiles, active |-> network.active,
              selected |-> CHOOSE p \in Factory : network.active \in {p, NoProfile}]
    /\ tables = [upload |-> 0, download |-> 0]
    /\ diffWin = [open |-> FALSE, profile |-> NoProfile, diff |-> NoProfile]
    /\ manage = FALSE /\ applying = FALSE /\ deletingProfile = NoProfile /\ pending = <<>>
    /\ trafficActs = 0 /\ refusals = 0 /\ overlapped = FALSE /\ twoDiffs = FALSE

TrafficAct == trafficActs < MaxTrafficActs /\ trafficActs' = trafficActs + 1

Asks(call) == /\ TrafficAct /\ pending' = Append(pending, call)
              /\ overlapped' = (overlapped \/ pending # <<>>)
              /\ UNCHANGED <<network, tables, refusals>>

SelectProfile(p) ==
    /\ TrafficAct /\ ~diffWin.open /\ ~manage /\ p \in bar.profiles
    /\ bar' = [bar EXCEPT !.selected = p]
    /\ UNCHANGED <<network, tables, diffWin, manage, applying, deletingProfile,
                   pending, refusals, overlapped, twoDiffs>>

ToggleManage ==
    /\ TrafficAct /\ ~diffWin.open /\ manage' = ~manage
    /\ UNCHANGED <<network, bar, tables, diffWin, applying, deletingProfile,
                   pending, refusals, overlapped, twoDiffs>>

\* Mutant: the last comparison stays until the next one arrives.
OpenedOverOldDiff(p) == [diffWin EXCEPT !.open = TRUE, !.profile = p]

\* What the window shows until the comparison arrives.
Opened(p) == [open |-> TRUE, profile |-> p, diff |-> NoProfile]

\* handleOpenDiff, from the bar for the selected profile or from the list.
OpenDiff(p) ==
    /\ ~diffWin.open /\ p \in bar.profiles /\ (manage \/ p = bar.selected)
    /\ Asks(Send("diff", p, FALSE))
    /\ diffWin' = Opened(p) /\ manage' = FALSE
    /\ twoDiffs' = InProgress("diff")
    /\ UNCHANGED <<bar, applying, deletingProfile>>

CloseDiff ==
    /\ TrafficAct /\ diffWin.open /\ diffWin' = [diffWin EXCEPT !.open = FALSE]
    /\ UNCHANGED <<network, bar, tables, manage, applying, deletingProfile,
                   pending, refusals, overlapped, twoDiffs>>

\* The activation button of the window: the comparison need not have arrived.
MayApply == diffWin.open /\ ~applying

\* handleApplyProfile
ApplyProfile ==
    /\ MayApply /\ applying' = TRUE
    /\ Asks(Send("apply", diffWin.profile, TRUE))
    /\ UNCHANGED <<bar, diffWin, manage, deletingProfile, twoDiffs>>

\* The rows of the profile list; deletingProfile names the last one only.
MayDelete(p) == manage /\ p \in bar.profiles \ Factory /\ deletingProfile # p

\* handleDeleteProfile
DeleteProfile(p) ==
    /\ MayDelete(p) /\ deletingProfile' = p
    /\ Asks(Send("delete", p, FALSE))
    /\ UNCHANGED <<bar, diffWin, manage, applying, twoDiffs>>

\* The capture window, opened over the tables; its button waits.
MayCapture(p) ==
    ~diffWin.open /\ ~manage /\ p \notin network.profiles /\ ~InProgress("capture")

\* handleSaveCapture: the state of the network becomes a new profile.
CaptureProfile(p) ==
    /\ MayCapture(p)
    /\ Asks(Send("capture", p, FALSE))
    /\ UNCHANGED <<bar, diffWin, manage, applying, deletingProfile, twoDiffs>>

-----------------------------------------------------------------------------
\* ProfileStore.Save, Delete and SetActive.
Stores(c) ==
    CASE c.kind = "capture" -> [network EXCEPT !.profiles = @ \cup {c.p}]
      [] c.kind = "delete"  -> [network EXCEPT !.profiles = @ \ {c.p},
                                               !.active = IF @ = c.p THEN NoProfile ELSE @]
      [] c.kind = "apply"   -> [network EXCEPT !.active = c.p, !.version = @ + 1]
      [] OTHER              -> network

\* A comparison, an activation and a deletion need the profile.
Exists(c) == c.kind \in {"diff", "apply", "delete"} => c.p \in network.profiles

NotAnswered(i) == i \in DOMAIN pending /\ ~pending[i].answered

ServerAnswers(i) ==
    LET c == pending[i] IN
    /\ NotAnswered(i)
    /\ network' = IF Exists(c) THEN Stores(c) ELSE network
    /\ pending' = [pending EXCEPT ![i] = [@ EXCEPT !.answered = TRUE, !.ok = Exists(c), !.got = network']]
    /\ UNCHANGED <<bar, tables, diffWin, manage, applying, deletingProfile,
                   trafficActs, refusals, overlapped, twoDiffs>>

ServerFails(i) ==
    /\ NotAnswered(i) /\ refusals < MaxRefusals /\ refusals' = refusals + 1
    /\ pending' = [pending EXCEPT ![i].answered = TRUE]
    /\ UNCHANGED <<network, bar, tables, diffWin, manage, applying, deletingProfile,
                   trafficActs, overlapped, twoDiffs>>

\* The load that follows an answer: a change reloads the bar, and the bar after an
\* activation is followed by both tables, one after the other, even if it failed.
Follows(c) ==
    CASE c.kind \in {"apply", "delete", "capture"} -> IF c.ok THEN {"list"} ELSE {}
      [] c.kind = "list"   -> IF c.applies THEN {"upload"} ELSE {}
      [] c.kind = "upload" -> {"download"}
      [] OTHER             -> {}

\* Mutant: the list is loaded without the active profile.
BarAfterListOnly(c) == [bar EXCEPT !.profiles = c.got.profiles]

BarAfter(c) == [profiles |-> c.got.profiles, active |-> c.got.active, selected |-> bar.selected]

TablesAfter(c) ==
    CASE c.kind \in {"upload", "download"} /\ c.ok -> [tables EXCEPT ![c.kind] = c.got.version]
      [] c.kind = "download" /\ ~c.ok              -> [tables EXCEPT !.download = Unread]
      [] OTHER                                     -> tables

Deliver(i) ==
    LET c == pending[i] IN
    /\ i \in DOMAIN pending /\ c.answered
    /\ pending' = RemoveAt(pending, i)
                  \o SetToSeq({Send(kind, c.p, c.applies) : kind \in Follows(c)})
    /\ bar' = IF c.kind = "list" /\ c.ok THEN BarAfter(c) ELSE bar
    /\ tables' = TablesAfter(c)
    /\ diffWin' = IF c.kind = "diff" /\ c.ok THEN [diffWin EXCEPT !.diff = c.p] ELSE diffWin
    /\ applying' = (applying /\ ~(c.applies /\ Follows(c) = {}))
    /\ deletingProfile' = IF c.kind = "delete" THEN NoProfile ELSE deletingProfile
    /\ UNCHANGED <<network, manage, trafficActs, refusals, overlapped, twoDiffs>>

TrafficNext ==
    \/ \E p \in Profiles : SelectProfile(p) \/ OpenDiff(p) \/ DeleteProfile(p) \/ CaptureProfile(p)
    \/ ToggleManage \/ CloseDiff \/ ApplyProfile
    \/ \E i \in 1..MaxTrafficActs : ServerAnswers(i) \/ ServerFails(i) \/ Deliver(i)

TrafficSpec == TrafficInit /\ [][TrafficNext]_trafficVars

-----------------------------------------------------------------------------
TrafficTypeOK ==
    /\ network.profiles \subseteq Profiles /\ network.active \in network.profiles \cup {NoProfile}
    /\ bar \in [profiles : SUBSET Profiles, active : Profiles \cup {NoProfile}, selected : Profiles]
    /\ tables \in [{"upload", "download"} -> Unread..MaxTrafficActs]
    /\ diffWin \in [open : BOOLEAN, profile : Profiles \cup {NoProfile}, diff : Profiles \cup {NoProfile}]
    /\ {manage, applying, overlapped, twoDiffs} \subseteq BOOLEAN
    /\ Len(pending) <= MaxTrafficActs /\ deletingProfile \in Profiles \cup {NoProfile}

(***************************************************************************)
(* An operator who waits for each answer and whose calls do not fail ends  *)
(* every activation, capture and deletion with the profiles, the active    *)
(* one and both tables as the server has them, and may activate again      *)
(* (handleApplyProfile, handleDeleteProfile, handleSaveCapture).           *)
(***************************************************************************)
QuietTrafficIsRight ==
    pending = <<>> /\ ~overlapped /\ refusals = 0 =>
        /\ bar.profiles = network.profiles /\ bar.active = network.active
        /\ tables = [upload |-> network.version, download |-> network.version]
        /\ ~applying

(***************************************************************************)
(* The changes and scripts an operator reviews before activating a profile *)
(* are those of the profile the window names, unless the window was opened *)
(* for it before the comparison asked for another one had arrived.         *)
(***************************************************************************)
DiffIsOfTheNamedProfile ==
    diffWin.open /\ diffWin.diff # NoProfile /\ ~twoDiffs => diffWin.diff = diffWin.profile
=============================================================================
