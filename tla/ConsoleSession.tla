--------------------------- MODULE ConsoleSession ---------------------------
(***************************************************************************)
(* Sign-in of the web console (AuthContext, LoginPage): who a tab shows as *)
(* signed in, and what its calls carry.  The token and the active company  *)
(* live in localStorage, which every tab of the browser shares; the user   *)
(* shown lives in the tab.  One tab is modelled whole; the others only     *)
(* write the store.  Two history variables say where the active company of *)
(* the tab comes from.                                                     *)
(***************************************************************************)
EXTENDS ConsoleApi

CONSTANTS
    Users,        \* accounts; a token is named by the account it was issued for
    SuperAdmins,  \* accounts checkIsSuperAdmin recognises
    Companies,
    CompanyOf,    \* the company of each account
    Nobody,       \* no token, no user, no company
    MaxSteps      \* bound: what the user of the tab and the other tabs do

ASSUME SessionAssumption == /\ SuperAdmins \subseteq Users /\ MaxSteps \in Nat
                            /\ Nobody \notin Users \cup Companies
                            /\ CompanyOf \in [Users -> Companies]

VARIABLES
    store,       \* localStorage: [token, tenant]
    tab,         \* what the tab holds: [token, user, active]
    loading,     \* the profile is being checked: App shows a spinner only
    submitting,  \* the button of the sign-in form is disabled
    mine,        \* calls in flight: [call, token, who]
    shared,      \* another tab has written a part of the store this one has not
    doubled,     \* a development build ran the mount effect twice
    chooser,     \* history: the account that chose the active company, or brought its own
    expired,     \* history: accounts whose session expired here since the last sign-out
    steps

past == <<chooser, expired>>

sessionVars == <<store, tab, loading, submitting, mine, shared, doubled, past, steps>>

NoSession == [token |-> Nobody, user |-> Nobody, active |-> Nobody]

\* setStoredToken, setActiveTenantId and getActiveTenantId.
Stored(token, tenant) == [token |-> token, tenant |-> tenant]

IsSuper(u) == u \in SuperAdmins

InFlight(call) == {c \in mine : c.call = call}

-----------------------------------------------------------------------------
\* The tab is opened or reloaded with whatever the store holds: with a token, the
\* profile is asked for; without one, the sign-in page is shown.
Boot(st, n) ==
    /\ tab = [NoSession EXCEPT !.token = st.token, !.active = st.tenant]
    /\ loading = (st.token # Nobody)
    /\ mine = IF st.token = Nobody THEN {}
              ELSE {[call |-> "me", token |-> Headers(st).token, who |-> k] : k \in 1..n}

SessionInit ==
    /\ store \in {Stored(Nobody, Nobody)} \cup {Stored(u, CompanyOf[u]) : u \in Users}
    /\ \E n \in 1..2 : Boot(store, n) /\ doubled = (n = 2)
    /\ submitting = FALSE /\ shared = FALSE /\ steps = 0
    /\ chooser = store.token /\ expired = {}

Acts == steps < MaxSteps /\ steps' = steps + 1

Reload ==
    /\ Acts
    /\ tab' = [NoSession EXCEPT !.token = store.token, !.active = store.tenant]
    /\ loading' = (store.token # Nobody) /\ submitting' = FALSE
    /\ mine' = IF store.token = Nobody THEN {}
               ELSE {[call |-> "me", token |-> Headers(store).token, who |-> 1]}
    /\ UNCHANGED <<store, shared, doubled, past>>

\* The spinner hides both the sign-in page and the application.
ShowsLogin == ~loading /\ (tab.token = Nobody \/ tab.user = Nobody)

ShowsApp == ~loading /\ ~ShowsLogin

\* fetchMe answers: the tab shows that account, with the token it was asked with.
ProfileArrives(c) ==
    /\ c \in InFlight("me") /\ mine' = mine \ {c}
    /\ tab' = [tab EXCEPT !.user = c.token, !.token = c.token]
    /\ loading' = FALSE
    /\ UNCHANGED <<store, submitting, shared, doubled, past, steps>>

\* fetchMe fails: the stored token is removed, whoever stored it; the company stays.
ProfileFails(c) ==
    /\ c \in InFlight("me") /\ mine' = mine \ {c}
    /\ store' = [store EXCEPT !.token = Nobody]
    /\ tab' = [tab EXCEPT !.user = Nobody, !.token = Nobody]
    /\ loading' = FALSE
    /\ expired' = expired \cup {c.token}
    /\ UNCHANGED <<submitting, shared, doubled, chooser, steps>>

\* LoginPage.handleSubmit.
Submit(u) ==
    /\ Acts /\ ShowsLogin /\ ~submitting
    /\ submitting' = TRUE
    /\ mine' = mine \cup {[call |-> "login", token |-> u, who |-> 1]}
    /\ UNCHANGED <<store, tab, loading, shared, doubled, past>>

\* The company a sign-in leaves active: a common user's own, a super-admin's last.
TenantAfterLogin(u, t) == IF IsSuper(u) THEN t ELSE CompanyOf[u]

LoginArrives(c) ==
    LET u == c.token IN
    /\ c \in InFlight("login") /\ mine' = mine \ {c}
    /\ store' = Stored(u, TenantAfterLogin(u, store.tenant))
    /\ tab' = [token |-> u, user |-> u, active |-> TenantAfterLogin(u, tab.active)]
    /\ submitting' = FALSE
    /\ shared' = (shared /\ IsSuper(u))
    /\ chooser' = IF IsSuper(u) THEN chooser ELSE u
    /\ UNCHANGED <<loading, doubled, expired, steps>>

LoginFails(c) ==
    /\ c \in InFlight("login") /\ mine' = mine \ {c}
    /\ submitting' = FALSE
    /\ UNCHANGED <<store, tab, loading, shared, doubled, past, steps>>

\* Mutant: signing out forgets the company in the tab only.
LogoutKeepsStored ==
    /\ Acts /\ ShowsApp
    /\ store' = Stored(Nobody, store.tenant) /\ tab' = NoSession
    /\ shared' = FALSE /\ expired' = {}
    /\ UNCHANGED <<loading, submitting, mine, doubled, chooser>>

Logout ==
    /\ Acts /\ ShowsApp
    /\ store' = Stored(Nobody, Nobody) /\ tab' = NoSession
    /\ shared' = FALSE /\ chooser' = Nobody /\ expired' = {}
    /\ UNCHANGED <<loading, submitting, mine, doubled>>

\* The select button of TenantManager; null when the active one is pressed again.
SetActiveTenant(t) ==
    /\ Acts /\ ShowsApp /\ IsSuper(tab.user)
    /\ store' = [store EXCEPT !.tenant = t] /\ tab' = [tab EXCEPT !.active = t]
    /\ chooser' = tab.user
    /\ UNCHANGED <<loading, submitting, mine, shared, doubled, expired>>

\* Another tab signs in, signs out, or chooses a company.
OtherTab ==
    /\ Acts /\ shared' = TRUE
    /\ \/ store' = Stored(Nobody, Nobody)
       \/ \E u \in Users : store' = Stored(u, TenantAfterLogin(u, store.tenant))
       \/ \E t \in Companies \cup {Nobody} : store' = [store EXCEPT !.tenant = t]
    /\ store' # store
    /\ UNCHANGED <<tab, loading, submitting, mine, doubled, past>>

SessionNext ==
    \/ Reload \/ Logout \/ OtherTab
    \/ \E u \in Users : Submit(u)
    \/ \E t \in Companies \cup {Nobody} : SetActiveTenant(t)
    \/ \E c \in mine : ProfileArrives(c) \/ ProfileFails(c) \/ LoginArrives(c) \/ LoginFails(c)

SessionSpec == SessionInit /\ [][SessionNext]_sessionVars

-----------------------------------------------------------------------------
SessionTypeOK ==
    LET People == Users \cup {Nobody}  Places == Companies \cup {Nobody} IN
    /\ store \in [token : People, tenant : Places]
    /\ tab \in [token : People, user : People, active : Places]
    /\ mine \subseteq [call : AuthCalls, token : Users, who : 1..2]
    /\ {loading, submitting, shared, doubled} \subseteq BOOLEAN /\ steps \in 0..MaxSteps
    /\ chooser \in People /\ expired \subseteq Users

(***************************************************************************)
(* In a production build, until another tab writes the store, the calls of *)
(* a tab that shows a user carry that user's own token and the company the *)
(* tab shows.  For a common user it is the user's own.  For a super-admin  *)
(* it is none, or the one that this super-admin chose; or, as an expiry    *)
(* removes the token and not the company (AuthContext.tsx:79), one left    *)
(* behind by a session that expired here since the last sign-out.  No      *)
(* other order of late answers, reloads, sign-outs and sign-ins gives      *)
(* somebody else's token or company to a call.                             *)
(***************************************************************************)
CallsSpeakForTheUser ==
    ShowsApp /\ ~shared /\ ~doubled =>
        /\ Headers(store) = [token |-> tab.user, tenant |-> tab.active]
        /\ IF IsSuper(tab.user)
           THEN tab.active # Nobody => chooser \in {tab.user} \cup expired
           ELSE tab.active = CompanyOf[tab.user]
=============================================================================
