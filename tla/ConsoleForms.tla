---------------------------- MODULE ConsoleForms ----------------------------
(***************************************************************************)
(* The edit forms of the web console: routers, users, companies, the       *)
(* description of a BGP session, the user's own profile and the licence    *)
(* key.  A form is filled when it is opened and sent when it is submitted; *)
(* the answer comes later, when another record may be in the form, and     *)
(* closes it, reloads the list, or closes it from a timer, form by form.   *)
(***************************************************************************)
EXTENDS Integers, Sequences, SequencesExt

CONSTANTS
    Records,     \* the records of the list
    NewRecord,   \* the target of a form that creates
    MaxFormActs  \* bound: what the user does

ASSUME FormsAssumption == MaxFormActs \in Nat /\ NewRecord \notin Records

VARIABLES
    form,     \* which form this is
    shown,    \* what it shows: [open, target, typed]
    opening,  \* how many times it was opened
    lock,     \* its submit button is disabled
    sending,  \* saves and deletions in flight: [target, of, deletes]
    reloads,  \* loads of the list in flight
    closers,  \* timers about to close the form, by the opening that set them
    formActs,
    risky,    \* something was in flight when the form was opened
    lost      \* what the user typed went away and was not saved

formVars == <<form, shown, opening, lock, sending, reloads, closers, formActs, risky, lost>>

-----------------------------------------------------------------------------
(* One row per form.                                                       *)
(*   locks:   a submitted form waits for the answer                        *)
(*   ends:    a saved form closes "now", from a "timer", or it "stays"     *)
(*   reloads: a saved form loads the list again                            *)
(*   resets:  a new list fills the open form again                         *)
(*   modal:   it opens over the list, and closes                           *)
FormRow(locks, ends, reload) ==
    [locks |-> locks, ends |-> ends, reloads |-> reload, resets |-> FALSE, modal |-> TRUE]

DeviceForm == FormRow(FALSE, "now", TRUE)

UserForm == [FormRow(TRUE, "now", TRUE) EXCEPT !.resets = TRUE]

TenantForm == FormRow(TRUE, "now", TRUE)

SessionForm == FormRow(TRUE, "timer", FALSE)

ProfileForm == FormRow(TRUE, "stays", FALSE)

LicenseForm == [FormRow(TRUE, "stays", FALSE) EXCEPT !.modal = FALSE]

Forms == {"device", "user", "tenant", "session", "profile", "license"}

formRow == CASE form = "device" -> DeviceForm [] form = "user" -> UserForm
             [] form = "tenant" -> TenantForm [] form = "session" -> SessionForm
             [] form = "profile" -> ProfileForm [] form = "license" -> LicenseForm

\* What a form may be opened for.
Targets == CASE form = "session" -> Records [] form \in {"profile", "license"} -> {NewRecord}
             [] OTHER -> Records \cup {NewRecord}

FormsInit ==
    /\ form \in Forms
    /\ shown = [open |-> ~formRow.modal, target |-> NewRecord, typed |-> FALSE]
    /\ opening = 0 /\ lock = FALSE /\ sending = <<>> /\ reloads = 0 /\ closers = {}
    /\ formActs = 0 /\ risky = FALSE /\ lost = FALSE

Busy == sending # <<>> \/ reloads > 0 \/ closers # {}

FormAct == formActs < MaxFormActs /\ formActs' = formActs + 1

\* openAddModal, openEditModal and their like: the fields are those of the record.
OpenForm(r) ==
    /\ FormAct /\ formRow.modal /\ ~shown.open /\ r \in Targets
    /\ shown' = [open |-> TRUE, target |-> r,
               typed |-> formRow.ends = "stays" /\ shown.typed]
    /\ opening' = opening + 1 /\ risky' = Busy /\ lost' = FALSE
    /\ UNCHANGED <<form, lock, sending, reloads, closers>>

TypeIn ==
    /\ FormAct /\ shown.open /\ shown' = [shown EXCEPT !.typed = TRUE]
    /\ UNCHANGED <<form, opening, lock, sending, reloads, closers, risky, lost>>

CloseForm ==
    /\ FormAct /\ formRow.modal /\ shown.open /\ shown' = [shown EXCEPT !.open = FALSE]
    /\ UNCHANGED <<form, opening, lock, sending, reloads, closers, risky, lost>>

MaySubmit == shown.open /\ ~(formRow.locks /\ lock)

\* handleSave of a form whose fields are complete; an incomplete one sends nothing.
SubmitForm ==
    /\ FormAct /\ MaySubmit
    /\ lock' = TRUE
    /\ sending' = Append(sending, [target |-> shown.target, of |-> opening, deletes |-> FALSE])
    /\ UNCHANGED <<form, shown, opening, reloads, closers, risky, lost>>

\* A row of the list is deleted, after a confirmation.
DeleteRow(r) ==
    /\ FormAct /\ form \in {"device", "user", "tenant"} /\ ~shown.open
    /\ sending' = Append(sending, [target |-> r, of |-> opening, deletes |-> TRUE])
    /\ UNCHANGED <<form, shown, opening, lock, reloads, closers, risky, lost>>

ReloadList ==
    /\ FormAct /\ form \in {"device", "user", "tenant"} /\ ~shown.open
    /\ reloads' = reloads + 1
    /\ UNCHANGED <<form, shown, opening, lock, sending, closers, risky, lost>>

-----------------------------------------------------------------------------
\* The form changes without the user: what was typed is lost unless this is the
\* answer to a save of this very opening.
Becomes(f, own) ==
    /\ shown' = f
    /\ lost' = (lost \/ (shown.open /\ shown.typed /\ f # shown /\ ~own))
    /\ UNCHANGED <<form, opening, formActs, risky>>

ClosedForm == [shown EXCEPT !.open = FALSE]

Saved(i) ==
    LET s == sending[i] IN
    /\ i \in DOMAIN sending /\ ~s.deletes
    /\ sending' = RemoveAt(sending, i) /\ lock' = FALSE
    /\ reloads' = reloads + (IF formRow.reloads THEN 1 ELSE 0)
    /\ closers' = closers \cup (IF formRow.ends = "timer" THEN {s.of} ELSE {})
    /\ Becomes(CASE formRow.ends = "now"   -> ClosedForm
                 [] formRow.ends = "stays" -> [shown EXCEPT !.typed = FALSE]
                 [] OTHER                  -> shown, s.of = opening)

\* Mutant: a refused save closes the form.
AfterFailureClosed == ClosedForm

\* What the catch block leaves on the screen: the form, with the error in it.
AfterFailure == shown

SaveFails(i) ==
    /\ i \in DOMAIN sending /\ ~sending[i].deletes
    /\ sending' = RemoveAt(sending, i) /\ lock' = FALSE
    /\ Becomes(AfterFailure, FALSE)
    /\ UNCHANGED <<reloads, closers>>

\* A deletion ends: users and companies are loaded again, a router's row is dropped.
Deleted(i) ==
    /\ i \in DOMAIN sending /\ sending[i].deletes
    /\ sending' = RemoveAt(sending, i)
    /\ \E ok \in BOOLEAN :
          reloads' = reloads + (IF ok /\ form \in {"user", "tenant"} THEN 1 ELSE 0)
    /\ UNCHANGED <<form, shown, opening, lock, closers, formActs, risky, lost>>

ListArrives ==
    /\ reloads > 0 /\ reloads' = reloads - 1
    /\ Becomes(IF formRow.resets /\ shown.open THEN [shown EXCEPT !.typed = FALSE] ELSE shown, FALSE)
    /\ UNCHANGED <<lock, sending, closers>>

\* The timer closes whatever the form shows by then.
TimerCloses(o) ==
    /\ o \in closers /\ closers' = closers \ {o}
    /\ Becomes(ClosedForm, o = opening)
    /\ UNCHANGED <<lock, sending, reloads>>

FormsNext ==
    \/ \E r \in Records \cup {NewRecord} : OpenForm(r)
    \/ \E r \in Records : DeleteRow(r)
    \/ TypeIn \/ CloseForm \/ SubmitForm \/ ReloadList \/ ListArrives
    \/ \E i \in 1..MaxFormActs : Saved(i) \/ SaveFails(i) \/ Deleted(i)
    \/ \E o \in closers : TimerCloses(o)

FormsSpec == FormsInit /\ [][FormsNext]_formVars

-----------------------------------------------------------------------------
FormsTypeOK ==
    /\ form \in Forms /\ shown \in [open : BOOLEAN, target : Records \cup {NewRecord}, typed : BOOLEAN]
    /\ {opening, reloads, formActs} \subseteq 0..MaxFormActs
    /\ sending \in Seq([target : Records \cup {NewRecord}, of : 0..MaxFormActs, deletes : BOOLEAN])
    /\ closers \subseteq 0..MaxFormActs /\ {lock, risky, lost} \subseteq BOOLEAN

(***************************************************************************)
(* What a user types into a form that was opened with nothing in flight    *)
(* stays there until the user closes it or it is saved: a refused save, a  *)
(* list that arrives or another form's answer do not take it away.  (A     *)
(* form opened while an earlier save, list or timer is on its way has no   *)
(* such promise: the late one closes or refills it.)                       *)
(***************************************************************************)
IdleFormsKeepTheirText == lost => risky
=============================================================================
