--------------------------- MODULE Console_proofs ---------------------------
(***************************************************************************)
(* The parts of the web side, for any constants and any number of acts:    *)
(* what a tab's calls carry is what the tab shows, a repeating tool has    *)
(* one timer and a line of its terminal stays below its command, the       *)
(* alerts of a page are acknowledged but for lost calls and every alert is *)
(* on one page, the licence panel does what was confirmed, an idle form    *)
(* keeps its text, a profile is compared and activated as the page says, a *)
(* script given to the routers says one level per upstream, the shell      *)
(* always draws a view, and a view used one call at a time answers what    *)
(* its controls ask.                                                       *)
(***************************************************************************)
EXTENDS ConsoleSession, NetworkTools, ConsoleForms, ConsoleViews, TrafficConsole, MasterPanel,
        AlertLog, ConsoleShell, TrafficScripts, SequenceTheorems, FiniteSetTheorems, FunctionTheorems,
        TLAPS

People == Users \cup {Nobody}

Places == Companies \cup {Nobody}

SessionCall == [call : AuthCalls, token : Users, who : 1..2]

(* A tab that is not in a development build has one call in flight at most: *)
(* the profile while it shows the spinner, a sign-in while the form waits.  *)
OneCallAtATime ==
  /\ \A c, d \in mine : c = d
  /\ loading <=> \E c \in mine : c.call = "me"
  /\ \A c \in mine : c.call = "login" => submitting /\ ShowsLogin

(* The user shown is the one of the token, or nobody while the spinner turns. *)
UserOfToken == tab.user = tab.token \/ (loading /\ tab.user = Nobody)

(* Until another tab writes the store, the tab holds what the store holds,  *)
(* the company of a common user's token is that user's own, and any company *)
(* comes from the account signed in or from one whose session expired.      *)
StoreMatchesTab ==
  ~shared =>
    /\ store.token = tab.token /\ store.tenant = tab.active
    /\ \A c \in mine : c.call = "me" => c.token = store.token
    /\ tab.token \in Users \ SuperAdmins => tab.active = CompanyOf[tab.token]
    /\ tab.active # Nobody => chooser \in ({tab.token} \ {Nobody}) \cup expired

SessionInv ==
  SessionTypeOK /\ (~doubled => OneCallAtATime /\ UserOfToken /\ StoreMatchesTab)


-----------------------------------------------------------------------------
(* The company a sign-in leaves active is a company, or none.               *)
LEMMA TenantAfterLoginTyped ==
  ASSUME NEW u \in Users, NEW p \in Places
  PROVE  TenantAfterLogin(u, p) \in Places
BY SessionAssumption DEF TenantAfterLogin, Places

(* A tab starts with at most the one call its mount effect sends.           *)
LEMMA SessionInitTyped == SessionInit => SessionTypeOK
<1> SUFFICES ASSUME SessionInit PROVE SessionTypeOK
  OBVIOUS
<1>1. PICK n \in 1..2 : Boot(store, n) /\ doubled = (n = 2)
  BY DEF SessionInit
<1>2. store \in [token : People, tenant : Places]
  BY SessionAssumption DEF SessionInit, Stored, People, Places
<1>3. tab \in [token : People, user : People, active : Places]
  BY <1>1, <1>2 DEF Boot, NoSession, People, Places
<1>4. mine \subseteq SessionCall
  <2>1. store.token # Nobody => store.token \in Users
    BY <1>2 DEF People
  <2>2. \A k \in 1..n : k \in 1..2
    OBVIOUS
  <2> QED
    BY <1>1, <2>1, <2>2 DEF Boot, Headers, SessionCall, AuthCalls
<1>5. loading \in BOOLEAN /\ submitting \in BOOLEAN /\ shared \in BOOLEAN /\ doubled \in BOOLEAN
  BY <1>1 DEF Boot, SessionInit
<1>6. steps \in 0..MaxSteps
  BY SessionAssumption DEF SessionInit
<1>7. chooser \in People /\ expired \subseteq Users
  BY <1>2 DEF SessionInit
<1> QED
  BY <1>2, <1>3, <1>4, <1>5, <1>6, <1>7 DEF SessionTypeOK, People, Places, SessionCall

(* The types, a conjunct for each variable.                                 *)
LEMMA SessionTyped ==
  SessionTypeOK <=>
    /\ store \in [token : People, tenant : Places]
    /\ tab \in [token : People, user : People, active : Places]
    /\ mine \subseteq SessionCall
    /\ loading \in BOOLEAN /\ submitting \in BOOLEAN /\ shared \in BOOLEAN /\ doubled \in BOOLEAN
    /\ steps \in 0..MaxSteps
    /\ chooser \in People /\ expired \subseteq Users
BY DEF SessionTypeOK, People, Places, SessionCall

(* Every step of the tab, of its calls and of the other tabs keeps types.   *)
LEMMA SessionKeepsTypes ==
  ASSUME SessionTypeOK, [SessionNext]_sessionVars
  PROVE  SessionTypeOK'
<1>1. /\ store \in [token : People, tenant : Places]
      /\ tab \in [token : People, user : People, active : Places]
      /\ mine \subseteq SessionCall
      /\ loading \in BOOLEAN /\ submitting \in BOOLEAN /\ shared \in BOOLEAN /\ doubled \in BOOLEAN
      /\ steps \in 0..MaxSteps
      /\ chooser \in People /\ expired \subseteq Users
  BY SessionTyped
<1>2. \A u \in Users : u \in People
  BY DEF People
<1>3. Nobody \in People /\ Nobody \in Places
  BY DEF People, Places
<1>4. Acts => steps' \in 0..MaxSteps
  BY <1>1, SessionAssumption DEF Acts
<1> DEFINE Typed == /\ store' \in [token : People, tenant : Places]
                    /\ tab' \in [token : People, user : People, active : Places]
                    /\ mine' \subseteq SessionCall
                    /\ loading' \in BOOLEAN /\ submitting' \in BOOLEAN
                    /\ shared' \in BOOLEAN /\ doubled' \in BOOLEAN
                    /\ steps' \in 0..MaxSteps
                    /\ chooser' \in People /\ expired' \subseteq Users
<1>5. CASE UNCHANGED sessionVars
  <2>1. Typed
    BY <1>1, <1>5 DEF sessionVars, past
  <2> QED
    BY <2>1 DEF SessionTypeOK, People, Places, SessionCall
<1>6. CASE Reload
  <2>1. store.token # Nobody => store.token \in Users
    BY <1>1 DEF People
  <2>2. mine' \subseteq SessionCall
    BY <1>6, <2>1 DEF Reload, Headers, SessionCall, AuthCalls
  <2>3. tab' \in [token : People, user : People, active : Places]
    BY <1>1, <1>3, <1>6 DEF Reload, NoSession
  <2>4. Typed
    BY <1>1, <1>4, <1>6, <2>2, <2>3 DEF Reload, past
  <2> QED
    BY <2>4 DEF SessionTypeOK, People, Places, SessionCall
<1>7. CASE Logout
  <2>1. Typed
    BY <1>1, <1>3, <1>4, <1>7 DEF Logout, Stored, NoSession
  <2> QED
    BY <2>1 DEF SessionTypeOK, People, Places, SessionCall
<1>8. CASE OtherTab
  <2>1. store' \in [token : People, tenant : Places]
    <3>1. \A u \in Users : Stored(u, TenantAfterLogin(u, store.tenant)) \in [token : People, tenant : Places]
      BY <1>1, <1>2, TenantAfterLoginTyped DEF Stored
    <3>2. \A t \in Places : [store EXCEPT !.tenant = t] \in [token : People, tenant : Places]
      BY <1>1
    <3>3. Stored(Nobody, Nobody) \in [token : People, tenant : Places]
      BY <1>3 DEF Stored
    <3> QED
      BY <1>8, <3>1, <3>2, <3>3 DEF OtherTab, Places
  <2>2. Typed
    BY <1>1, <1>4, <1>8, <2>1 DEF OtherTab, past
  <2> QED
    BY <2>2 DEF SessionTypeOK, People, Places, SessionCall
<1>9. ASSUME NEW u \in Users, Submit(u) PROVE SessionTypeOK'
  <2>1. [call |-> "login", token |-> u, who |-> 1] \in SessionCall
    BY DEF SessionCall, AuthCalls
  <2>2. Typed
    BY <1>1, <1>4, <1>9, <2>1 DEF Submit, past
  <2> QED
    BY <2>2 DEF SessionTypeOK, People, Places, SessionCall
<1>10. ASSUME NEW t \in Companies \cup {Nobody}, SetActiveTenant(t) PROVE SessionTypeOK'
  <2>1. Typed
    BY <1>1, <1>4, <1>10 DEF SetActiveTenant, Places
  <2> QED
    BY <2>1 DEF SessionTypeOK, People, Places, SessionCall
<1>11. ASSUME NEW c \in mine, ProfileArrives(c) PROVE SessionTypeOK'
  <2>1. c.token \in People
    BY <1>1, <1>2 DEF SessionCall
  <2>2. Typed
    BY <1>1, <1>11, <2>1 DEF ProfileArrives, past
  <2> QED
    BY <2>2 DEF SessionTypeOK, People, Places, SessionCall
<1>12. ASSUME NEW c \in mine, ProfileFails(c) PROVE SessionTypeOK'
  <2>1. c.token \in Users
    BY <1>1 DEF SessionCall
  <2>2. Typed
    BY <1>1, <1>3, <1>12, <2>1 DEF ProfileFails
  <2> QED
    BY <2>2 DEF SessionTypeOK, People, Places, SessionCall
<1>13. ASSUME NEW c \in mine, LoginArrives(c) PROVE SessionTypeOK'
  <2>1. c.token \in Users /\ c.token \in People
    BY <1>1, <1>2 DEF SessionCall
  <2>2. /\ TenantAfterLogin(c.token, store.tenant) \in Places
        /\ TenantAfterLogin(c.token, tab.active) \in Places
    BY <1>1, <2>1, TenantAfterLoginTyped
  <2>3. /\ store' \in [token : People, tenant : Places]
        /\ tab' \in [token : People, user : People, active : Places]
    BY <1>13, <2>1, <2>2 DEF LoginArrives, Stored
  <2>4. Typed
    BY <1>1, <1>13, <2>3 DEF LoginArrives
  <2> QED
    BY <2>4 DEF SessionTypeOK, People, Places, SessionCall
<1>14. ASSUME NEW c \in mine, LoginFails(c) PROVE SessionTypeOK'
  <2>1. Typed
    BY <1>1, <1>14 DEF LoginFails, past
  <2> QED
    BY <2>1 DEF SessionTypeOK, People, Places, SessionCall
<1> QED
  BY <1>5, <1>6, <1>7, <1>8, <1>9, <1>10, <1>11, <1>12, <1>13, <1>14 DEF SessionNext

(* The tab holds, in every reachable state, values of the right kinds.      *)
THEOREM SessionTypeCorrect == SessionSpec => []SessionTypeOK
<1>1. SessionTypeOK /\ [SessionNext]_sessionVars => SessionTypeOK'
  BY SessionKeepsTypes
<1> QED
  BY SessionInitTyped, <1>1, PTL DEF SessionSpec
-----------------------------------------------------------------------------
(* A tab of a production build starts with what the store holds.            *)
LEMMA SessionStartsWell ==
  ASSUME SessionInit, ~doubled
  PROVE  OneCallAtATime /\ UserOfToken /\ StoreMatchesTab
<1>1. Boot(store, 1)
  <2>1. PICK n \in 1..2 : Boot(store, n) /\ doubled = (n = 2)
    BY DEF SessionInit
  <2>2. n # 2
    BY <2>1, Zenon
  <2>3. n = 1
    BY <2>2
  <2> QED
    BY <2>1, <2>3
<1>2. \A k \in 1..1 : k = 1
  OBVIOUS
<1>3. mine = IF store.token = Nobody THEN {}
             ELSE {[call |-> "me", token |-> store.token, who |-> 1]}
  BY <1>1, <1>2 DEF Boot, Headers
<1>4. OneCallAtATime
  <2>1. loading <=> store.token # Nobody
    BY <1>1 DEF Boot
  <2>2. CASE store.token = Nobody
    BY <1>3, <2>1, <2>2 DEF OneCallAtATime
  <2>3. CASE store.token # Nobody
    <3> DEFINE me == [call |-> "me", token |-> store.token, who |-> 1]
    <3>1. mine = {me} /\ me.call = "me"
      BY <1>3, <2>3
    <3> QED
      BY <2>1, <2>3, <3>1 DEF OneCallAtATime
  <2> QED
    BY <2>2, <2>3
<1>5. tab.token = store.token /\ tab.active = store.tenant /\ tab.user = Nobody
  BY <1>1 DEF Boot, NoSession
<1>6. store.token \in Users => store.tenant = CompanyOf[store.token]
  BY SessionAssumption DEF SessionInit, Stored
<1>7. store.tenant # Nobody => store.token \in Users /\ chooser = store.token
  BY SessionAssumption DEF SessionInit, Stored
<1>8. StoreMatchesTab
  BY <1>3, <1>5, <1>6, <1>7, SessionAssumption DEF StoreMatchesTab
<1>9. UserOfToken
  BY <1>1, <1>5 DEF UserOfToken, Boot
<1> QED
  BY <1>4, <1>8, <1>9

(* No step of a tab lets it show a user its token does not name, or a       *)
(* company the store does not hold.                                         *)
LEMMA SessionKeepsMatch ==
  ASSUME SessionTypeOK, OneCallAtATime, UserOfToken, StoreMatchesTab,
         [SessionNext]_sessionVars, ~doubled
  PROVE  OneCallAtATime' /\ UserOfToken' /\ StoreMatchesTab'
<1> DEFINE Good == OneCallAtATime' /\ UserOfToken' /\ StoreMatchesTab'
<1>1. /\ store \in [token : People, tenant : Places]
      /\ tab \in [token : People, user : People, active : Places]
      /\ mine \subseteq SessionCall
      /\ loading \in BOOLEAN /\ submitting \in BOOLEAN /\ shared \in BOOLEAN
  BY SessionTyped
<1>2. Nobody \notin Users
  BY SessionAssumption
<1>3. \A c \in mine : c.call \in {"login", "me"} /\ c.token \in Users
  BY <1>1 DEF SessionCall, AuthCalls
<1>4. \A c \in mine : c.call = "me" <=> loading
  BY <1>3 DEF OneCallAtATime
<1>5. \A c \in mine : mine \ {c} = {}
  BY DEF OneCallAtATime
<1>6. ShowsApp => mine = {}
  BY <1>3, <1>4 DEF OneCallAtATime, ShowsApp
<1>7. CASE UNCHANGED sessionVars
  BY <1>7 DEF sessionVars, past, OneCallAtATime, UserOfToken, StoreMatchesTab, ShowsLogin
<1>8. CASE Reload
  <2>1. mine' = IF store.token = Nobody THEN {}
                ELSE {[call |-> "me", token |-> store.token, who |-> 1]}
    BY <1>8 DEF Reload, Headers
  <2>2. OneCallAtATime'
    <3>1. loading' <=> store.token # Nobody
      BY <1>8 DEF Reload
    <3>2. CASE store.token = Nobody
      BY <2>1, <3>1, <3>2 DEF OneCallAtATime
    <3>3. CASE store.token # Nobody
      <4> DEFINE me == [call |-> "me", token |-> store.token, who |-> 1]
      <4>1. mine' = {me} /\ me.call = "me"
        BY <2>1, <3>3
      <4> QED
        BY <3>1, <3>3, <4>1 DEF OneCallAtATime
    <3> QED
      BY <3>2, <3>3
  <2>3. tab'.token = store.token /\ tab'.active = store.tenant /\ tab'.user = Nobody
    BY <1>8 DEF Reload, NoSession
  <2>4. store' = store /\ shared' = shared /\ chooser' = chooser /\ expired' = expired
    BY <1>8 DEF Reload, past
  <2>5. StoreMatchesTab'
    BY <2>1, <2>3, <2>4 DEF StoreMatchesTab
  <2>6. UserOfToken'
    BY <1>8, <2>3 DEF UserOfToken, Reload
  <2> QED
    BY <2>2, <2>5, <2>6
<1>9. CASE Logout
  <2>1. mine' = {} /\ ~loading'
    BY <1>6, <1>9 DEF Logout, ShowsApp
  <2>2. store'.token = Nobody /\ store'.tenant = Nobody
    BY <1>9 DEF Logout, Stored
  <2>3. tab'.token = Nobody /\ tab'.user = Nobody /\ tab'.active = Nobody
    BY <1>9 DEF Logout, NoSession
  <2> QED
    BY <1>2, <2>1, <2>2, <2>3 DEF OneCallAtATime, UserOfToken, StoreMatchesTab
<1>10. CASE OtherTab
  <2>1. shared' /\ UNCHANGED <<tab, loading, submitting, mine>>
    BY <1>10 DEF OtherTab
  <2> QED
    BY <2>1 DEF OneCallAtATime, UserOfToken, StoreMatchesTab, ShowsLogin
<1>11. ASSUME NEW u \in Users, Submit(u) PROVE Good
  <2>1. mine = {}
    BY <1>3, <1>4, <1>11 DEF Submit, ShowsLogin, OneCallAtATime
  <2>2. mine' = {[call |-> "login", token |-> u, who |-> 1]}
    BY <1>11, <2>1 DEF Submit
  <2>3. /\ submitting' /\ ShowsLogin' /\ ~loading /\ ~loading'
        /\ UNCHANGED <<store, tab, shared, chooser, expired>>
    BY <1>11 DEF Submit, ShowsLogin, past
  <2>4. OneCallAtATime'
    BY <2>2, <2>3 DEF OneCallAtATime
  <2> QED
    BY <2>2, <2>3, <2>4 DEF UserOfToken, StoreMatchesTab
<1>12. ASSUME NEW t \in Companies \cup {Nobody}, SetActiveTenant(t) PROVE Good
  <2>1. mine' = {} /\ ~loading'
    BY <1>6, <1>12 DEF SetActiveTenant, ShowsApp
  <2>2. tab.token \in SuperAdmins
    BY <1>12 DEF SetActiveTenant, ShowsApp, ShowsLogin, IsSuper, UserOfToken
  <2>3. /\ store'.token = store.token /\ store'.tenant = t /\ shared' = shared
        /\ tab'.token = tab.token /\ tab'.user = tab.user /\ tab'.active = t
    BY <1>1, <1>12 DEF SetActiveTenant
  <2>4. tab.user = tab.token /\ tab.token # Nobody /\ chooser' = tab.user
    BY <1>12 DEF SetActiveTenant, ShowsApp, ShowsLogin, UserOfToken
  <2> QED
    BY <2>1, <2>2, <2>3, <2>4 DEF OneCallAtATime, UserOfToken, StoreMatchesTab
<1>13. ASSUME NEW c \in mine, ProfileArrives(c) PROVE Good
  <2>1. mine' = {} /\ ~loading' /\ c.call = "me" /\ store' = store /\ shared' = shared
    BY <1>5, <1>13 DEF ProfileArrives, InFlight
  <2>2. /\ tab'.token = c.token /\ tab'.user = c.token /\ tab'.active = tab.active
        /\ chooser' = chooser /\ expired' = expired
    BY <1>1, <1>13 DEF ProfileArrives, past
  <2> QED
    BY <2>1, <2>2 DEF OneCallAtATime, UserOfToken, StoreMatchesTab
<1>14. ASSUME NEW c \in mine, ProfileFails(c) PROVE Good
  <2>1. /\ mine' = {} /\ ~loading' /\ shared' = shared /\ c.call = "me"
        /\ chooser' = chooser /\ expired' = expired \cup {c.token}
    BY <1>5, <1>14 DEF ProfileFails, InFlight
  <2>2. /\ store'.token = Nobody /\ store'.tenant = store.tenant
        /\ tab'.token = Nobody /\ tab'.user = Nobody /\ tab'.active = tab.active
    BY <1>1, <1>14 DEF ProfileFails
  <2> QED
    BY <1>2, <2>1, <2>2 DEF OneCallAtATime, UserOfToken, StoreMatchesTab
<1>15. ASSUME NEW c \in mine, LoginArrives(c) PROVE Good
  <2>1. mine' = {} /\ c.call = "login" /\ loading' = loading
    BY <1>5, <1>15 DEF LoginArrives, InFlight
  <2>2. ~loading'
    BY <1>4, <2>1
  <2>3. /\ store'.token = c.token /\ store'.tenant = TenantAfterLogin(c.token, store.tenant)
        /\ tab'.token = c.token /\ tab'.user = c.token
        /\ tab'.active = TenantAfterLogin(c.token, tab.active)
        /\ shared' = (shared /\ IsSuper(c.token))
    BY <1>15 DEF LoginArrives, Stored
  <2>c. /\ chooser' = IF IsSuper(c.token) THEN chooser ELSE c.token
        /\ expired' = expired
    BY <1>15 DEF LoginArrives
  <2>d. c.token \in Users /\ tab.token = Nobody
    BY <1>3, <1>4, <2>1 DEF OneCallAtATime, ShowsLogin, UserOfToken
  <2>4. StoreMatchesTab'
    BY <1>2, <2>1, <2>3, <2>c, <2>d DEF StoreMatchesTab, TenantAfterLogin, IsSuper
  <2> QED
    BY <2>1, <2>2, <2>3, <2>4 DEF OneCallAtATime, UserOfToken
<1>16. ASSUME NEW c \in mine, LoginFails(c) PROVE Good
  <2>1. /\ mine' = {} /\ c.call = "login"
        /\ UNCHANGED <<store, tab, loading, shared, chooser, expired>>
    BY <1>5, <1>16 DEF LoginFails, InFlight, past
  <2>2. ~loading'
    BY <1>4, <2>1
  <2> QED
    BY <2>1, <2>2 DEF OneCallAtATime, UserOfToken, StoreMatchesTab
<1> QED
  BY <1>7, <1>8, <1>9, <1>10, <1>11, <1>12, <1>13, <1>14, <1>15, <1>16 DEF SessionNext

(* A development build stays one: the mount effect runs twice or once.      *)
LEMMA BuildStays == ASSUME [SessionNext]_sessionVars PROVE doubled' = doubled
BY DEF SessionNext, sessionVars, Reload, Logout, OtherTab, Submit, SetActiveTenant,
       ProfileArrives, ProfileFails, LoginArrives, LoginFails

(* What a tab's calls carry is what the tab shows, and the company is the    *)
(* user's own, the super-admin's choice or what an expired session left,     *)
(* whatever the order of sign-ins, sign-outs, reloads and answers           *)
(* (AuthContext).                                                           *)
THEOREM TabsSpeakForTheirUser == SessionSpec => []CallsSpeakForTheUser
<1>1. SessionInit => SessionInv
  BY SessionInitTyped, SessionStartsWell DEF SessionInv
<1>2. SessionInv /\ [SessionNext]_sessionVars => SessionInv'
  BY SessionKeepsTypes, SessionKeepsMatch, BuildStays DEF SessionInv
<1>3. SessionInv => CallsSpeakForTheUser
  <2> SUFFICES ASSUME SessionInv, ShowsApp, ~shared, ~doubled
               PROVE  /\ Headers(store) = [token |-> tab.user, tenant |-> tab.active]
                      /\ IF IsSuper(tab.user)
                         THEN tab.active # Nobody => chooser \in {tab.user} \cup expired
                         ELSE tab.active = CompanyOf[tab.user]
    BY DEF CallsSpeakForTheUser
  <2>1. tab.user = tab.token /\ tab.user \in Users
    BY SessionTyped DEF SessionInv, UserOfToken, ShowsApp, ShowsLogin, People
  <2> QED
    BY <2>1 DEF SessionInv, StoreMatchesTab, Headers, IsSuper
<1> QED
  BY <1>1, <1>2, <1>3, PTL DEF SessionSpec
-----------------------------------------------------------------------------
(* The part of the types the timer of the ping tool rests on.               *)
PingTyped == continuous \in BOOLEAN /\ tool \in Tools \cup {"left"}

TimerInv == PingTyped /\ OneTimerWhileContinuous

(* Every step of the tools keeps one timer while the ping tool repeats and  *)
(* none otherwise.                                                          *)
LEMMA ToolsKeepTimer ==
  ASSUME TimerInv, [ToolsNext]_toolVars
  PROVE  TimerInv'
<1> USE DEF TimerInv, PingTyped, OneTimerWhileContinuous
<1>1. CASE RunCommand
  BY <1>1 DEF RunCommand, pingVars
<1>2. CASE ClearConsole
  BY <1>2 DEF ClearConsole, pingVars
<1>3. CASE ToggleContinuous
  <2>1. tool = "ping" /\ tool' = tool /\ continuous' = ~continuous
    BY <1>3 DEF ToggleContinuous
  <2>2. timers' = CleanUp + (IF ~continuous THEN 1 ELSE 0)
    BY <1>3 DEF ToggleContinuous, PingEffect
  <2>3. CASE continuous
    <3>1. timers = 1
      BY <2>1, <2>3
    <3>2. timers' = 0
      BY <2>2, <2>3, <3>1 DEF CleanUp
    <3>3. continuous' = FALSE
      BY <2>1, <2>3, Zenon
    <3> QED
      BY <2>1, <3>2, <3>3
  <2>4. CASE ~continuous
    <3>1. timers = 0
      BY <2>1, <2>4
    <3>2. timers' = 1
      BY <2>2, <2>4, <3>1 DEF CleanUp
    <3>3. continuous' = TRUE
      BY <2>1, <2>4, Zenon
    <3> QED
      BY <2>1, <3>2, <3>3
  <2> QED
    BY <2>3, <2>4
<1>4. CASE SendPing
  BY <1>4 DEF SendPing
<1>5. CASE TimerPings
  BY <1>5 DEF TimerPings
<1>6. CASE PingEnds
  BY <1>6 DEF PingEnds
<1>7. CASE ClearHistory
  BY <1>7 DEF ClearHistory
<1>8. CASE LeaveTool
  BY <1>8 DEF LeaveTool, CleanUp
<1>9. ASSUME NEW host \in Hosts, ChooseTarget(host) PROVE TimerInv'
  BY <1>9 DEF ChooseTarget, PingEffect, CleanUp
<1>10. ASSUME NEW i \in 1..MaxToolActs, NEW ok \in BOOLEAN, CommandEnds(i, ok) PROVE TimerInv'
  BY <1>10 DEF CommandEnds, pingVars
<1>11. CASE UNCHANGED toolVars
  BY <1>11 DEF toolVars
<1> QED
  BY <1>1, <1>2, <1>3, <1>4, <1>5, <1>6, <1>7, <1>8, <1>9, <1>10, <1>11 DEF ToolsNext

(* However the user toggles, retargets and leaves, the ping tool never runs *)
(* two timers, nor one after it stopped (PingTool, its effect and clean-up).*)
THEOREM OneTimer == ToolsSpec => []OneTimerWhileContinuous
<1>1. ToolsInit => TimerInv
  BY DEF ToolsInit, TimerInv, PingTyped, OneTimerWhileContinuous, Tools
<1>2. TimerInv => OneTimerWhileContinuous
  BY DEF TimerInv
<1> QED
  BY <1>1, <1>2, ToolsKeepTimer, PTL DEF ToolsSpec
-----------------------------------------------------------------------------
(* What the log holds of an alert was once its status on the server.        *)
ListedWasRaised ==
  /\ server \in [Alerts -> AlertStates]
  /\ \A a \in Alerts : alertsListed[a] # "none" => server[a] # "none"

(* Each alert of a page waits for its call, or its call is over: the call   *)
(* was lost, or the alert is not active any more.  None was ever unknown to *)
(* the server, so none becomes active again.                                *)
Accounted(b, a) ==
  /\ a \in Alerts => server[a] # "none"
  /\ <<b, a>> \in ackCalls \/ (a \in Alerts /\ (<<b, a>> \in lostCalls \/ server[a] # "active"))

BatchesAccounted ==
  /\ askedOf \in [Batches -> {askedOf[b] : b \in Batches}]
  /\ \A b \in Batches : \A a \in askedOf[b] : Accounted(b, a)

LogInv == ListedWasRaised /\ BatchesAccounted

(* An alert that was raised stays raised, and one that is not active any    *)
(* more never becomes active again.                                         *)
OnlyForward ==
  /\ server' \in [Alerts -> AlertStates]
  /\ \A a \in Alerts : server[a] # "none" =>
       server'[a] # "none" /\ (server[a] # "active" => server'[a] # "active")

(* Acknowledging, raising and resolving only move an alert forward.         *)
LEMMA ServerMovesForward ==
  ASSUME LogInv, [LogNext]_logVars
  PROVE  OnlyForward
<1>1. server \in [Alerts -> AlertStates]
  BY DEF LogInv, ListedWasRaised
<1>2. CASE server' = server
  BY <1>1, <1>2 DEF OnlyForward
<1>3. ASSUME NEW b \in Batches, NEW a \in Alerts, AckAnswered(b, a) PROVE OnlyForward
  <2>1. server' = [server EXCEPT ![a] = IF @ = "active" THEN "acknowledged" ELSE @]
    BY <1>3 DEF AckAnswered, ServerAck
  <2> QED
    BY <1>1, <2>1 DEF OnlyForward, AlertStates
<1>4. ASSUME NEW a \in Alerts, ServerChanges(a) PROVE OnlyForward
  BY <1>1, <1>4 DEF ServerChanges, OnlyForward, AlertStates
<1> QED
  BY <1>2, <1>3, <1>4 DEF LogNext, logVars, ChooseFilter, ChangeSearch, ChooseSize, TurnPage,
     DrawnUnchanged, AcknowledgePage, AckLost, ReadLog

(* What is listed was raised, whoever reads it anew.                        *)
LEMMA ListedStaysRaised ==
  ASSUME LogInv, [LogNext]_logVars, OnlyForward
  PROVE  ListedWasRaised'
<1>1. \A a \in Alerts : alertsListed[a] # "none" => server[a] # "none"
  BY DEF LogInv, ListedWasRaised
<1>2. alertsListed' \in {alertsListed, server, server'}
  BY DEF LogNext, logVars, ChooseFilter, ChangeSearch, ChooseSize, TurnPage, DrawnUnchanged,
     AcknowledgePage, AckAnswered, AckLost, ServerChanges, ReadLog
<1> QED
  BY <1>1, <1>2 DEF OnlyForward, ListedWasRaised

(* A step that takes no call from the pages keeps them accounted for.       *)
LEMMA AccountedWhileTheyWait ==
  ASSUME LogInv, OnlyForward, askedOf' = askedOf, ackCalls' = ackCalls, lostCalls' = lostCalls
  PROVE  BatchesAccounted'
BY DEF LogInv, BatchesAccounted, Accounted, OnlyForward

(* Every step keeps every alert of every page accounted for.                *)
LEMMA PagesStayAccounted ==
  ASSUME LogInv, [LogNext]_logVars, OnlyForward
  PROVE  BatchesAccounted'
<1>1. /\ askedOf \in [Batches -> {askedOf[b] : b \in Batches}]
      /\ \A b \in Batches : \A a \in askedOf[b] : Accounted(b, a)
  BY DEF LogInv, BatchesAccounted
<1>2. CASE askedOf' = askedOf /\ ackCalls' = ackCalls /\ lostCalls' = lostCalls
  BY <1>2, AccountedWhileTheyWait
<1>3. ASSUME NEW b \in Batches, AcknowledgePage(b) PROVE BatchesAccounted'
  <2>1. /\ askedOf' = [askedOf EXCEPT ![b] = ActiveOnPage]
        /\ ackCalls' = ackCalls \cup {<<b, a>> : a \in ActiveOnPage}
        /\ server' = server /\ lostCalls' = lostCalls
    BY <1>3 DEF AcknowledgePage
  <2>2. \A a \in ActiveOnPage : a \in Alerts => server[a] # "none"
    BY DEF ActiveOnPage, LogInv, ListedWasRaised
  <2>3. askedOf' \in [Batches -> {askedOf'[x] : x \in Batches}]
    BY <1>1, <2>1
  <2>4. ASSUME NEW x \in Batches, NEW a \in askedOf'[x] PROVE Accounted(x, a)'
    <3>1. CASE x = b
      <4>1. a \in ActiveOnPage
        BY <1>1, <2>1, <2>4, <3>1
      <4> QED
        BY <2>1, <2>2, <3>1, <4>1 DEF Accounted
    <3>2. CASE x # b
      <4>1. a \in askedOf[x]
        BY <1>1, <2>1, <2>4, <3>2
      <4> QED
        BY <1>1, <2>1, <4>1 DEF Accounted
    <3> QED
      BY <3>1, <3>2
  <2> QED
    BY <2>3, <2>4 DEF BatchesAccounted
<1>4. ASSUME NEW b \in Batches, NEW a \in Alerts, AckAnswered(b, a) PROVE BatchesAccounted'
  <2>1. /\ ackCalls' = ackCalls \ {<<b, a>>} /\ askedOf' = askedOf /\ lostCalls' = lostCalls
        /\ server' = [server EXCEPT ![a] = IF @ = "active" THEN "acknowledged" ELSE @]
    BY <1>4 DEF AckAnswered, ServerAck
  <2>2. server \in [Alerts -> AlertStates]
    BY DEF LogInv, ListedWasRaised
  <2>3. server'[a] # "active"
    BY <2>1, <2>2
  <2>4. ASSUME NEW x \in Batches, NEW y \in askedOf[x] PROVE Accounted(x, y)'
    <3>1. Accounted(x, y)
      BY <1>1
    <3>2. CASE x = b /\ y = a
      BY <2>1, <2>3, <3>1, <3>2 DEF Accounted, OnlyForward
    <3>3. CASE ~(x = b /\ y = a)
      <4>1. <<x, y>> # <<b, a>>
        BY <3>3
      <4> QED
        BY <2>1, <3>1, <4>1 DEF Accounted, OnlyForward
    <3> QED
      BY <3>2, <3>3
  <2> QED
    BY <1>1, <2>1, <2>4 DEF BatchesAccounted
<1>5. ASSUME NEW b \in Batches, NEW a \in Alerts, AckLost(b, a) PROVE BatchesAccounted'
  <2>1. /\ ackCalls' = ackCalls \ {<<b, a>>} /\ askedOf' = askedOf /\ server' = server
        /\ lostCalls' = lostCalls \cup {<<b, a>>}
    BY <1>5 DEF AckLost, CallsLeft
  <2>2. ASSUME NEW x \in Batches, NEW y \in askedOf[x] PROVE Accounted(x, y)'
    BY <1>1, <2>1 DEF Accounted
  <2> QED
    BY <1>1, <2>1, <2>2 DEF BatchesAccounted
<1> QED
  BY <1>2, <1>3, <1>4, <1>5 DEF LogNext, logVars, ChooseFilter, ChangeSearch, ChooseSize,
     TurnPage, DrawnUnchanged, ServerChanges, ReadLog

(* When a page's calls are over, each of its alerts has left "active" but   *)
(* those whose own call was lost, for any alerts, pages and failures        *)
(* (handleAcknowledgeAllVisible).                                           *)
THEOREM AcksReachTheRest == LogSpec => []AckReachesTheRest
<1>1. LogInit => LogInv
  <2> SUFFICES ASSUME LogInit PROVE LogInv
    OBVIOUS
  <2>1. server \in [Alerts -> {"none", "active"}] /\ alertsListed = server
    BY DEF LogInit
  <2>2. askedOf = [b \in Batches |-> {}]
    BY DEF LogInit
  <2>3. ListedWasRaised
    BY <2>1 DEF ListedWasRaised, AlertStates
  <2>4. BatchesAccounted
    BY <2>2 DEF BatchesAccounted
  <2> QED
    BY <2>3, <2>4 DEF LogInv
<1>2. LogInv /\ [LogNext]_logVars => LogInv'
  BY ServerMovesForward, ListedStaysRaised, PagesStayAccounted DEF LogInv
<1>3. LogInv => AckReachesTheRest
  BY DEF LogInv, BatchesAccounted, Accounted, AckReachesTheRest
<1> QED
  BY <1>1, <1>2, <1>3, PTL DEF LogSpec
-----------------------------------------------------------------------------
PanelCalls ==
  [op : {"load", "create", "renew", "toggle", "delete"},
   id : Licenses \cup {CHOOSE l \in Licenses : TRUE}, means : Statuses, token : Nat, n : Nat,
   alone : BOOLEAN, done : BOOLEAN, got : [Licenses -> Statuses]]

(* The part of the types the confirmations rest on.                         *)
PanelTyped ==
  /\ fleet \in [Licenses -> Statuses] /\ allLicenses \in [Licenses -> Statuses]
  /\ drawn \subseteq Licenses /\ issued \in Nat /\ authToken \in Nat /\ panelActs \in Nat
  /\ panelCalls \subseteq PanelCalls

(* Only tables are on their way, and those read are still the server's.     *)
OnlyReads == \A c \in panelCalls : c.op = "load" /\ (c.done => c.got = fleet)

(* The panel that asked alone and is up to date.                            *)
UpToDate == OnlyReads /\ (Shown /\ panelCalls = {} => allLicenses = fleet)

(* The one change on its way is to do what its operator confirmed.          *)
OneChange ==
  \E c \in panelCalls :
    /\ panelCalls = {c} /\ c.op # "load" /\ c.id \in Licenses
    /\ c.op = "toggle" /\ ~c.done /\ fleet[c.id] # Gone => c.means = Opposite(fleet[c.id])

(* A load that is still alone has seen no change on its way.                *)
AloneReads == (\E c \in panelCalls : c.alone) => OnlyReads

PanelInv ==
  /\ PanelTyped /\ AloneReads
  /\ ~overtaken => ~mistaken /\ (UpToDate \/ OneChange)

(* A call as it is sent has the fields of a call, and nothing else.         *)
LEMMA CallsSent ==
  ASSUME NEW op \in {"create", "renew", "toggle", "delete"}, NEW l \in Licenses,
         NEW s \in Statuses, NEW token \in Nat, NEW n \in Nat
  PROVE  PanelCall(op, l, s, token, n, FALSE) \in PanelCalls
BY DEF PanelCall, PanelCalls, Statuses, NoTable

(* A load as it is sent.                                                    *)
LEMMA LoadsSent ==
  ASSUME NEW token \in Nat, NEW alone \in BOOLEAN
  PROVE  /\ LoadCall(token, alone) \in PanelCalls
         /\ LoadCall(token, alone).op = "load" /\ ~LoadCall(token, alone).done
         /\ LoadCall(token, alone).alone = alone
BY DEF LoadCall, PanelCall, PanelCalls, Statuses, NoTable

(* Disturbing calls only takes "alone" from them.                           *)
LEMMA DisturbedCalls ==
  ASSUME NEW some \in SUBSET PanelCalls
  PROVE  Disturbed(some) \subseteq PanelCalls /\ \A c \in Disturbed(some) : ~c.alone
BY DEF Disturbed, PanelCalls

(* A call once the server carried it out.                                   *)
LEMMA CallsServed ==
  ASSUME NEW c \in PanelCalls, NEW got \in [Licenses -> Statuses]
  PROVE  LET d == [c EXCEPT !.done = TRUE, !.got = got]
         IN  d.id = c.id /\ d \in PanelCalls /\ d.op = c.op /\ d.done /\ d.got = got /\ d.alone = c.alone
BY DEF PanelCalls

(* The status a toggle leaves is a status.                                  *)
LEMMA OppositeTyped == ASSUME NEW s PROVE Opposite(s) \in Statuses /\ Opposite(s) # Gone
BY DEF Opposite, Statuses, Gone

(* The table the server has after a call.                                   *)
LEMMA FleetAfterTyped ==
  ASSUME PanelTyped, NEW c \in panelCalls
  PROVE  /\ FleetAfter(c) \in [Licenses -> Statuses]
         /\ c.op = "load" => FleetAfter(c) = fleet
         /\ c.op = "toggle" /\ c.id \in Licenses /\ fleet[c.id] # Gone
              => FleetAfter(c)[c.id] = Opposite(fleet[c.id])
<1>1. fleet \in [Licenses -> Statuses]
  BY DEF PanelTyped
<1>2. FleetAfter(c) \in [Licenses -> Statuses]
  BY <1>1, OppositeTyped DEF FleetAfter, Statuses
<1>3. c.op = "load" => FleetAfter(c) = fleet
  BY DEF FleetAfter
<1>4. c.op = "toggle" /\ c.id \in Licenses /\ fleet[c.id] # Gone
        => FleetAfter(c)[c.id] = Opposite(fleet[c.id])
  BY <1>1 DEF FleetAfter
<1> QED
  BY <1>2, <1>3, <1>4

(* A step that leaves the tables and the calls alone keeps what the panel   *)
(* knows.                                                                   *)
LEMMA NothingSent ==
  ASSUME PanelInv, overtaken' = overtaken, mistaken' = mistaken,
         UNCHANGED <<fleet, issued, allLicenses, panelCalls>>,
         authToken' \in {authToken, NoToken}, drawn' \subseteq Licenses, panelActs' \in Nat
  PROVE  PanelInv'
<1>1. PanelTyped'
  BY DEF PanelInv, PanelTyped, NoToken
<1>2. AloneReads'
  BY DEF PanelInv, AloneReads, OnlyReads
<1>3. UpToDate => UpToDate'
  BY DEF UpToDate, OnlyReads, Shown
<1>4. OneChange => OneChange'
  BY DEF OneChange
<1> QED
  BY <1>1, <1>2, <1>3, <1>4 DEF PanelInv

(* A load that is sent when nothing else is on its way has the server to    *)
(* itself; sent beside other calls, it has not.                             *)
LEMMA LoadSent ==
  ASSUME PanelInv, NEW token \in Nat, issued' \in Nat, authToken' \in Nat, panelActs' \in Nat,
         panelCalls' = panelCalls \cup {LoadCall(token, panelCalls = {})},
         overtaken' = (overtaken \/ panelCalls # {}), mistaken' = mistaken,
         UNCHANGED <<fleet, allLicenses, drawn>>
  PROVE  PanelInv'
<1> DEFINE new == LoadCall(token, panelCalls = {})
<1>1. /\ new \in PanelCalls /\ new.op = "load" /\ ~new.done
      /\ new.alone => panelCalls = {}
  <2>1. (panelCalls = {}) \in BOOLEAN
    OBVIOUS
  <2>2. new \in PanelCalls /\ new.op = "load" /\ ~new.done /\ new.alone = (panelCalls = {})
    BY <2>1, LoadsSent
  <2>3. CASE panelCalls = {}
    BY <2>2, <2>3
  <2>4. CASE panelCalls # {}
    <3>1. new.alone = FALSE
      BY <2>2, <2>4, Zenon
    <3> QED
      BY <2>2, <3>1
  <2> QED
    BY <2>3, <2>4
<1> HIDE DEF new
<1>2. panelCalls' = panelCalls \cup {new}
  BY DEF new
<1>3. PanelTyped'
  BY <1>1, <1>2 DEF PanelInv, PanelTyped
<1>4. AloneReads'
  <2> SUFFICES ASSUME NEW c \in panelCalls', c.alone PROVE OnlyReads'
    BY DEF AloneReads
  <2>1. OnlyReads
    <3>1. CASE c = new
      BY <1>1, <3>1 DEF OnlyReads
    <3>2. CASE c # new
      BY <1>2, <3>2 DEF PanelInv, AloneReads
    <3> QED
      BY <3>1, <3>2
  <2> QED
    BY <1>1, <1>2, <2>1 DEF OnlyReads
<1>5. ~overtaken' => ~mistaken' /\ UpToDate'
  <2> SUFFICES ASSUME ~overtaken' PROVE ~mistaken' /\ UpToDate'
    OBVIOUS
  <2>1. ~overtaken /\ panelCalls = {}
    OBVIOUS
  <2>2. panelCalls' = {new}
    BY <1>2, <2>1
  <2>3. OnlyReads'
    BY <1>1, <2>2 DEF OnlyReads
  <2> QED
    BY <2>1, <2>2, <2>3 DEF PanelInv, UpToDate
<1> QED
  BY <1>3, <1>4, <1>5 DEF PanelInv

(* A change is confirmed from the table the panel has, which is the         *)
(* server's when nothing was on its way.                                    *)
LEMMA ChangePressed ==
  ASSUME PanelInv, NEW op \in {"create", "renew", "toggle", "delete"}, NEW l \in Licenses,
         Press(op, l)
  PROVE  PanelInv'
<1> DEFINE new == PanelCall(op, l, Opposite(allLicenses[l]), authToken, panelActs, FALSE)
<1>1. /\ panelCalls' = Disturbed(panelCalls) \cup {new}
      /\ UNCHANGED <<fleet, issued, authToken, allLicenses, drawn, mistaken>> /\ Shown
      /\ panelActs' = panelActs + 1 /\ overtaken' = (overtaken \/ panelCalls # {})
  BY DEF Press, PanelAct, SendsAll
<1>2. /\ new \in PanelCalls /\ new.op = op /\ new.id = l /\ ~new.alone /\ ~new.done
      /\ new.means = Opposite(allLicenses[l])
  <2>1. new \in PanelCalls
    BY CallsSent, OppositeTyped DEF PanelInv, PanelTyped
  <2> QED
    BY <2>1 DEF PanelCall
<1> HIDE DEF new
<1>3. PanelTyped'
  BY <1>1, <1>2, DisturbedCalls DEF PanelInv, PanelTyped
<1>4. \A c \in panelCalls' : ~c.alone
  BY <1>1, <1>2, DisturbedCalls DEF PanelInv, PanelTyped
<1>5. ~overtaken' => ~mistaken' /\ OneChange'
  <2> SUFFICES ASSUME ~overtaken' PROVE ~mistaken' /\ OneChange'
    OBVIOUS
  <2>1. ~overtaken /\ panelCalls = {} /\ ~mistaken
    BY <1>1 DEF PanelInv
  <2>2. panelCalls' = {new}
    BY <1>1, <2>1 DEF Disturbed
  <2>3. allLicenses = fleet
    BY <1>1, <2>1 DEF PanelInv, UpToDate, OneChange
  <2>4. OneChange'
    BY <1>1, <1>2, <2>2, <2>3 DEF OneChange
  <2> QED
    BY <1>1, <2>1, <2>4
<1> QED
  BY <1>3, <1>4, <1>5 DEF PanelInv, AloneReads

(* The server flips what it has: while the panel is up to date, that is     *)
(* what was confirmed.                                                      *)
LEMMA ChangeServed ==
  ASSUME PanelInv, NEW c \in panelCalls, CallServed(c)
  PROVE  PanelInv'
<1> DEFINE got == IF c.op = "load" THEN fleet ELSE NoTable
           served == [c EXCEPT !.done = TRUE, !.got = got]
<1>1. /\ panelCalls' = (panelCalls \ {c}) \cup {served} /\ fleet' = FleetAfter(c)
      /\ UNCHANGED <<issued, authToken, allLicenses, drawn, panelActs, overtaken>>
      /\ mistaken' = (mistaken \/ (c.op = "toggle" /\ fleet[c.id] # Gone /\ fleet'[c.id] # c.means))
  BY DEF CallServed
<1>2. PanelTyped /\ c \in PanelCalls
  BY DEF PanelInv, PanelTyped
<1>3. got \in [Licenses -> Statuses]
  BY <1>2 DEF PanelTyped, NoTable, Statuses
<1>4. /\ served \in PanelCalls /\ served.op = c.op /\ served.done /\ served.alone = c.alone
      /\ served.got = got /\ served.id = c.id
  BY <1>2, <1>3, CallsServed
<1>5. c.op = "load" => served.got = fleet
  BY <1>4
<1> HIDE DEF got, served
<1>6. PanelTyped'
  BY <1>1, <1>2, <1>4, FleetAfterTyped DEF PanelTyped
<1>7. OnlyReads => OnlyReads' /\ fleet' = fleet /\ panelCalls' # {} /\ (~mistaken => ~mistaken')
  <2> SUFFICES ASSUME OnlyReads
               PROVE  OnlyReads' /\ fleet' = fleet /\ panelCalls' # {} /\ (~mistaken => ~mistaken')
    OBVIOUS
  <2>1. c.op = "load"
    BY DEF OnlyReads
  <2>2. fleet' = fleet
    BY <1>1, <1>2, <2>1, FleetAfterTyped
  <2>3. OnlyReads'
    BY <1>1, <1>4, <1>5, <2>1, <2>2 DEF OnlyReads
  <2>4. ~mistaken => ~mistaken'
    BY <1>1, <2>1
  <2> QED
    BY <1>1, <2>2, <2>3, <2>4
<1>8. AloneReads'
  <2> SUFFICES ASSUME NEW d \in panelCalls', d.alone PROVE OnlyReads'
    BY DEF AloneReads
  <2>1. \E e \in panelCalls : e.alone
    BY <1>1, <1>4
  <2> QED
    BY <1>7, <2>1 DEF PanelInv, AloneReads
<1>9. ASSUME ~overtaken' PROVE ~mistaken' /\ (UpToDate' \/ OneChange')
  <2>1. ~overtaken /\ ~mistaken
    BY <1>1, <1>9 DEF PanelInv
  <2>2. CASE UpToDate
    BY <1>7, <2>1, <2>2 DEF UpToDate
  <2>3. CASE OneChange
    <3>1. /\ panelCalls = {c} /\ c.op # "load" /\ ~c.done /\ c.id \in Licenses
          /\ c.op = "toggle" /\ fleet[c.id] # Gone => c.means = Opposite(fleet[c.id])
      BY <2>3 DEF OneChange, CallServed
    <3>2. panelCalls' = {served}
      BY <1>1, <3>1
    <3>3. OneChange'
      BY <1>4, <3>1, <3>2 DEF OneChange
    <3>4. c.op = "toggle" /\ fleet[c.id] # Gone => fleet'[c.id] = c.means
      BY <1>1, <1>2, <3>1, FleetAfterTyped
    <3> QED
      BY <1>1, <2>1, <3>3, <3>4
  <2> QED
    BY <2>1, <2>2, <2>3 DEF PanelInv
<1> QED
  BY <1>6, <1>8, <1>9 DEF PanelInv

(* The load a change asks for is alone when the change was.                 *)
LEMMA ChangeAnswered ==
  ASSUME PanelInv, NEW c \in panelCalls, ChangeArrives(c)
  PROVE  PanelInv'
<1> DEFINE others == panelCalls \ {c}
           new    == LoadCall(authToken, others = {})
<1>1. /\ panelCalls' = others \cup {new} /\ c.op # "load"
      /\ UNCHANGED <<fleet, issued, authToken, allLicenses, drawn, panelActs, overtaken, mistaken>>
  BY DEF ChangeArrives, ThenLoads
<1>2. new \in PanelCalls /\ new.op = "load" /\ ~new.done /\ (new.alone => others = {})
  <2>1. new \in PanelCalls /\ new.op = "load" /\ ~new.done /\ new.alone = (others = {})
    BY LoadsSent DEF PanelInv, PanelTyped
  <2>2. CASE others = {}
    BY <2>1, <2>2
  <2>3. CASE others # {}
    <3>1. new.alone = FALSE
      BY <2>1, <2>3, Zenon
    <3> QED
      BY <2>1, <3>1
  <2> QED
    BY <2>2, <2>3
<1> HIDE DEF new
<1>3. PanelTyped'
  BY <1>1, <1>2 DEF PanelInv, PanelTyped
<1>4. \A d \in panelCalls : ~d.alone
  BY <1>1 DEF PanelInv, AloneReads, OnlyReads
<1>5. AloneReads'
  BY <1>1, <1>2, <1>4 DEF AloneReads, OnlyReads
<1>6. ASSUME ~overtaken' PROVE ~mistaken' /\ UpToDate'
  <2>1. ~overtaken /\ ~mistaken /\ OneChange
    BY <1>1, <1>6 DEF PanelInv, UpToDate, OnlyReads
  <2>2. panelCalls' = {new}
    BY <1>1, <2>1 DEF OneChange
  <2> QED
    BY <1>1, <1>2, <2>1, <2>2 DEF UpToDate, OnlyReads
<1> QED
  BY <1>3, <1>5, <1>6 DEF PanelInv

(* A table that had the server to itself is the server's when it arrives.   *)
LEMMA TableShown ==
  ASSUME PanelInv, NEW c \in panelCalls, TableArrives(c)
  PROVE  PanelInv'
<1>1. /\ panelCalls' = panelCalls \ {c} /\ c.op = "load" /\ c.done
      /\ allLicenses' = c.got /\ drawn' = Existing(c.got)
      /\ overtaken' = (overtaken /\ ~c.alone) /\ mistaken' = (mistaken /\ ~c.alone)
      /\ UNCHANGED <<fleet, issued, authToken, panelActs>>
  BY DEF TableArrives
<1>2. PanelTyped'
  <2>1. c.got \in [Licenses -> Statuses]
    BY DEF PanelInv, PanelTyped, PanelCalls
  <2> QED
    BY <1>1, <2>1 DEF PanelInv, PanelTyped, Existing
<1>3. OnlyReads => UpToDate'
  BY <1>1 DEF OnlyReads, UpToDate
<1>4. AloneReads'
  BY <1>1 DEF PanelInv, AloneReads, OnlyReads
<1>5. ASSUME ~overtaken' PROVE ~mistaken' /\ UpToDate'
  <2>1. OnlyReads
    <3>1. CASE c.alone
      BY <3>1 DEF PanelInv, AloneReads
    <3>2. CASE ~c.alone
      BY <1>1, <1>5, <3>2 DEF PanelInv, UpToDate, OneChange
    <3> QED
      BY <3>1, <3>2
  <2>2. ~mistaken'
    BY <1>1, <1>5 DEF PanelInv
  <2> QED
    BY <1>3, <2>1, <2>2
<1> QED
  BY <1>2, <1>4, <1>5 DEF PanelInv

(* A call that is given up leaves the panel signed out or overtaken.        *)
LEMMA CallGivenUp ==
  ASSUME PanelInv, NEW c \in panelCalls, CallRefused(c) \/ CallFails(c)
  PROVE  PanelInv'
<1>1. /\ panelCalls' = panelCalls \ {c} /\ mistaken' = mistaken
      /\ UNCHANGED <<fleet, issued, allLicenses, drawn, panelActs>>
      /\ overtaken' \/ (overtaken' = overtaken /\ authToken' = NoToken)
      /\ authToken' \in {authToken, NoToken}
  BY DEF CallRefused, CallFails
<1>2. PanelTyped'
  BY <1>1 DEF PanelInv, PanelTyped, NoToken
<1>3. AloneReads'
  BY <1>1 DEF PanelInv, AloneReads, OnlyReads
<1>4. ASSUME ~overtaken' PROVE ~mistaken' /\ UpToDate'
  <2>1. ~overtaken /\ ~mistaken /\ ~Shown'
    BY <1>1, <1>4 DEF PanelInv, Shown
  <2>2. OnlyReads'
    BY <1>1, <2>1 DEF PanelInv, UpToDate, OneChange, OnlyReads
  <2> QED
    BY <1>1, <2>1, <2>2 DEF UpToDate
<1> QED
  BY <1>2, <1>3, <1>4 DEF PanelInv

(* Another operator takes "alone" from every call.                          *)
LEMMA OthersAct ==
  ASSUME PanelInv, NEW l \in Licenses, OtherOperator(l)
  PROVE  PanelInv'
<1>1. /\ fleet' = [fleet EXCEPT ![l] = Opposite(@)] /\ overtaken' = TRUE
      /\ panelCalls' = Disturbed(panelCalls) /\ panelActs' = panelActs + 1
      /\ UNCHANGED <<issued, authToken, allLicenses, drawn>>
  BY DEF OtherOperator, PanelAct
<1>2. PanelTyped'
  BY <1>1, DisturbedCalls, OppositeTyped DEF PanelInv, PanelTyped
<1>3. AloneReads'
  BY <1>1, DisturbedCalls DEF PanelInv, PanelTyped, AloneReads
<1> QED
  BY <1>1, <1>2, <1>3 DEF PanelInv

(* The page opens signed out, or loads with the token it stored.            *)
LEMMA PanelStarts == PanelInit => PanelInv
<1> SUFFICES ASSUME PanelInit PROVE PanelInv
  OBVIOUS
<1>1. /\ fleet \in [Licenses -> Statuses] /\ allLicenses = NoTable /\ drawn = {}
      /\ issued = 1 /\ authToken \in {NoToken, 1} /\ panelActs = 0
      /\ panelCalls = IF authToken = NoToken THEN {} ELSE {LoadCall(authToken, TRUE)}
      /\ overtaken = FALSE /\ mistaken = FALSE
  BY DEF PanelInit
<1>2. authToken \in Nat
  BY <1>1 DEF NoToken
<1> DEFINE new == LoadCall(authToken, TRUE)
<1>3. new \in PanelCalls /\ new.op = "load" /\ ~new.done
  BY <1>2, LoadsSent
<1> HIDE DEF new
<1>4. panelCalls = IF authToken = NoToken THEN {} ELSE {new}
  BY <1>1 DEF new
<1>5. PanelTyped
  BY <1>1, <1>2, <1>3, <1>4 DEF PanelTyped, NoTable, Statuses
<1>6. OnlyReads
  BY <1>3, <1>4 DEF OnlyReads
<1>7. UpToDate
  BY <1>4, <1>6 DEF UpToDate, Shown
<1> QED
  BY <1>1, <1>5, <1>6, <1>7 DEF PanelInv, AloneReads

(* Every step of the panel, of its calls and of the server keeps what the   *)
(* panel knows.                                                             *)
LEMMA PanelSteps == PanelInv /\ [PanelNext]_panelVars => PanelInv'
<1> SUFFICES ASSUME PanelInv, [PanelNext]_panelVars PROVE PanelInv'
  OBVIOUS
<1>1. /\ drawn \subseteq Licenses /\ issued \in Nat /\ authToken \in Nat /\ panelActs \in Nat
  BY DEF PanelInv, PanelTyped
<1>2. CASE UNCHANGED panelVars
  BY <1>1, <1>2, NothingSent DEF panelVars
<1>3. CASE SignIn
  BY <1>1, <1>3, NothingSent DEF SignIn, PanelAct
<1>4. CASE SignOut
  BY <1>1, <1>4, NothingSent DEF SignOut, PanelAct
<1>5. CASE RefreshPanel
  BY <1>1, <1>5, LoadSent DEF RefreshPanel, SendsAll
<1>6. CASE TokensForgotten
  BY <1>1, <1>6, NothingSent DEF TokensForgotten
<1>7. ASSUME NEW ok \in BOOLEAN, SignedIn(ok) PROVE PanelInv'
  <2>1. CASE ok
    <3>1. /\ issued' = issued + 1 /\ authToken' = issued'
          /\ panelCalls' = panelCalls \cup {LoadCall(issued', panelCalls = {})}
          /\ overtaken' = (overtaken \/ panelCalls # {})
          /\ UNCHANGED <<fleet, allLicenses, drawn, panelActs, mistaken>>
      BY <1>7, <2>1 DEF SignedIn
    <3>2. issued' \in Nat
      BY <1>1, <3>1
    <3> QED
      BY <1>1, <3>1, <3>2, LoadSent
  <2>2. CASE ~ok
    <3>1. /\ overtaken' = (overtaken \/ panelCalls # {})
          /\ UNCHANGED <<fleet, issued, authToken, allLicenses, drawn, panelActs, mistaken, panelCalls>>
      BY <1>7, <2>2 DEF SignedIn
    <3>2. PanelTyped' /\ AloneReads'
      BY <3>1 DEF PanelInv, PanelTyped, AloneReads, OnlyReads
    <3>3. ~overtaken' => ~mistaken' /\ UpToDate'
      BY <3>1 DEF PanelInv, UpToDate, OneChange, OnlyReads, Shown
    <3> QED
      BY <3>2, <3>3 DEF PanelInv
  <2> QED
    BY <2>1, <2>2
<1>8. ASSUME NEW on \in BOOLEAN, FilterTable(on) PROVE PanelInv'
  <2>1. drawn' \subseteq Licenses
    BY <1>8 DEF FilterTable, Kept, Existing
  <2> QED
    BY <1>1, <1>8, <2>1, NothingSent DEF FilterTable, PanelAct
<1> QED
  BY <1>2, <1>3, <1>4, <1>5, <1>6, <1>7, <1>8, OthersAct, ChangePressed, ChangeServed,
     ChangeAnswered, TableShown, CallGivenUp DEF PanelNext

(* Alone on the server and with no call on its way, an operator's change    *)
(* does what was confirmed, for any licences and any number of acts         *)
(* (toggleStatus of the panel, AdminHandler.ToggleStatus).                  *)
THEOREM ConfirmedChangesAreDone == PanelSpec => []ConfirmedIsDone
<1>1. PanelInv => ConfirmedIsDone
  BY DEF PanelInv, ConfirmedIsDone
<1> QED
  BY <1>1, PanelStarts, PanelSteps, PTL DEF PanelSpec
-----------------------------------------------------------------------------
(* A call that ends leaves the others in flight.                            *)
LEMMA RemovedFromSeq ==
  ASSUME NEW S, NEW s \in Seq(S), NEW i \in DOMAIN s
  PROVE  RemoveAt(s, i) \in Seq(S)
<1>1. i \in 1..Len(s) /\ Len(s) \in Nat
  OBVIOUS
<1>2. SubSeq(s, 1, i - 1) \in Seq(S)
  <2>1. \A k \in 1..(i - 1) : s[k] \in S
    BY <1>1
  <2> QED
    BY <1>1, <2>1, SubSeqProperties
<1>3. SubSeq(s, i + 1, Len(s)) \in Seq(S)
  <2>1. \A k \in (i + 1)..Len(s) : s[k] \in S
    BY <1>1
  <2> QED
    BY <1>1, <2>1, SubSeqProperties
<1> QED
  BY <1>2, <1>3, ConcatProperties DEF RemoveAt

-----------------------------------------------------------------------------
(* The saves of the opening that is on the screen.                          *)
OwnSaves == [target : Records \cup {NewRecord}, of : {opening}, deletes : {FALSE}]

(* What is in flight belongs to what the form shows.                        *)
AllItsOwn == sending \in Seq(OwnSaves) /\ closers \subseteq {opening} /\ reloads = 0

FormsInv ==
  /\ form \in Forms /\ reloads \in Nat
  /\ shown \in [open : BOOLEAN, target : Records \cup {NewRecord}, typed : BOOLEAN]
  /\ ~risky => ~lost /\ (shown.open => AllItsOwn)

(* The forms that load their list again close at once.                      *)
LEMMA RowOfForm ==
  ASSUME form \in Forms
  PROVE  /\ formRow.reloads => formRow.ends = "now"
         /\ formRow.reloads \in BOOLEAN /\ formRow.modal \in BOOLEAN
<1>1. CASE form = "device"
  BY <1>1 DEF formRow, DeviceForm, FormRow
<1>2. CASE form = "user"
  BY <1>2 DEF formRow, UserForm, FormRow
<1>3. CASE form = "tenant"
  BY <1>3 DEF formRow, TenantForm, FormRow
<1>4. CASE form = "session"
  BY <1>4 DEF formRow, SessionForm, FormRow
<1>5. CASE form = "profile"
  BY <1>5 DEF formRow, ProfileForm, FormRow
<1>6. CASE form = "license"
  BY <1>6 DEF formRow, LicenseForm, FormRow
<1> QED
  BY <1>1, <1>2, <1>3, <1>4, <1>5, <1>6 DEF Forms

(* An answer to a save: the save is one of this opening, so what it does to *)
(* the form takes nothing away.                                             *)
LEMMA SavesAreOwn ==
  ASSUME FormsInv, NEW i, Saved(i)
  PROVE  FormsInv'
<1>1. /\ form \in Forms /\ reloads \in Nat
      /\ shown \in [open : BOOLEAN, target : Records \cup {NewRecord}, typed : BOOLEAN]
  BY DEF FormsInv
<1>2. /\ i \in DOMAIN sending /\ sending' = RemoveAt(sending, i)
      /\ reloads' = reloads + (IF formRow.reloads THEN 1 ELSE 0)
      /\ closers' = closers \cup (IF formRow.ends = "timer" THEN {sending[i].of} ELSE {})
      /\ shown' = CASE formRow.ends = "now"   -> ClosedForm
                    [] formRow.ends = "stays" -> [shown EXCEPT !.typed = FALSE]
                    [] OTHER                  -> shown
      /\ lost' = (lost \/ (shown.open /\ shown.typed /\ shown' # shown /\ ~(sending[i].of = opening)))
      /\ form' = form /\ opening' = opening /\ risky' = risky
  BY DEF Saved, Becomes
<1>3. shown' \in {ClosedForm, [shown EXCEPT !.typed = FALSE], shown}
  BY <1>2
<1>4. /\ shown' \in [open : BOOLEAN, target : Records \cup {NewRecord}, typed : BOOLEAN]
      /\ shown'.open => shown.open
  BY <1>1, <1>3 DEF ClosedForm
<1>5. ASSUME ~risky', shown.open PROVE ~lost' /\ (shown'.open => AllItsOwn')
  <2>1. ~lost /\ AllItsOwn
    BY <1>2, <1>5 DEF FormsInv
  <2>2. sending[i] \in OwnSaves
    BY <1>2, <2>1 DEF AllItsOwn
  <2>3. sending[i].of = opening
    BY <2>2 DEF OwnSaves
  <2>4. sending' \in Seq(OwnSaves)
    BY <1>2, <2>1, RemovedFromSeq DEF AllItsOwn
  <2>5. shown'.open => ~formRow.reloads
    <3> SUFFICES ASSUME formRow.reloads PROVE ~shown'.open
      OBVIOUS
    <3>1. shown' = ClosedForm
      BY <1>1, <1>2, RowOfForm
    <3> QED
      BY <1>1, <3>1 DEF ClosedForm
  <2>6. OwnSaves' = OwnSaves
    BY <1>2 DEF OwnSaves
  <2>7. closers' \subseteq {opening}
    BY <1>2, <2>1, <2>3 DEF AllItsOwn
  <2>8. shown'.open => reloads' = 0
    BY <1>1, <1>2, <2>1, <2>5 DEF AllItsOwn
  <2>9. shown'.open => AllItsOwn'
    BY <1>2, <2>4, <2>6, <2>7, <2>8 DEF AllItsOwn
  <2> QED
    BY <1>2, <2>1, <2>3, <2>9
<1>6. ASSUME ~risky', ~shown.open PROVE ~lost' /\ ~shown'.open
  <2>1. ~lost
    BY <1>2, <1>6 DEF FormsInv
  <2> QED
    BY <1>2, <1>4, <1>6, <2>1
<1>7. reloads' \in Nat
  BY <1>1, <1>2
<1> QED
  BY <1>1, <1>2, <1>4, <1>5, <1>6, <1>7 DEF FormsInv

(* A step that does not open the form, loses nothing and adds nothing of    *)
(* another opening keeps what is in flight the form's own.                  *)
LEMMA NothingForeign ==
  ASSUME FormsInv, form' = form, opening' = opening, risky' = risky, reloads' \in Nat,
         shown' \in [open : BOOLEAN, target : Records \cup {NewRecord}, typed : BOOLEAN],
         ~risky => (lost' => lost),
         ~risky /\ shown'.open => shown.open /\ (AllItsOwn => AllItsOwn')
  PROVE  FormsInv'
BY DEF FormsInv

(* Every step of the forms, of their calls and timers keeps it so.          *)
LEMMA FormSteps == FormsInv /\ [FormsNext]_formVars => FormsInv'
<1> SUFFICES ASSUME FormsInv, [FormsNext]_formVars PROVE FormsInv'
  OBVIOUS
<1>1. /\ form \in Forms /\ reloads \in Nat
      /\ shown \in [open : BOOLEAN, target : Records \cup {NewRecord}, typed : BOOLEAN]
  BY DEF FormsInv
<1>2. CASE UNCHANGED formVars
  <2>1. AllItsOwn => AllItsOwn'
    BY <1>2 DEF formVars, AllItsOwn, OwnSaves
  <2> QED
    BY <1>1, <1>2, <2>1, NothingForeign DEF formVars
<1>3. ASSUME NEW r \in Records \cup {NewRecord}, OpenForm(r) PROVE FormsInv'
  <2>1. /\ shown' = [open |-> TRUE, target |-> r, typed |-> formRow.ends = "stays" /\ shown.typed]
        /\ risky' = Busy /\ lost' = FALSE /\ UNCHANGED <<form, sending, reloads, closers>>
    BY <1>3 DEF OpenForm
  <2>2. shown' \in [open : BOOLEAN, target : Records \cup {NewRecord}, typed : BOOLEAN]
    <3>1. (formRow.ends = "stays" /\ shown.typed) \in BOOLEAN
      OBVIOUS
    <3> QED
      BY <2>1, <3>1
  <2>3. ~risky' => AllItsOwn'
    <3> SUFFICES ASSUME ~risky' PROVE AllItsOwn'
      OBVIOUS
    <3>1. ~Busy
      BY <2>1
    <3>2. sending' = <<>> /\ closers' = {} /\ reloads' = 0
      BY <1>1, <2>1, <3>1 DEF Busy
    <3> QED
      BY <3>2 DEF AllItsOwn
  <2> QED
    BY <1>1, <2>1, <2>2, <2>3 DEF FormsInv
<1>4. CASE TypeIn
  <2>1. AllItsOwn => AllItsOwn'
    BY <1>4 DEF TypeIn, AllItsOwn, OwnSaves
  <2> QED
    BY <1>1, <1>4, <2>1, NothingForeign DEF TypeIn
<1>5. CASE CloseForm
  <2>1. shown' = [shown EXCEPT !.open = FALSE]
    BY <1>5 DEF CloseForm
  <2>2. ~shown'.open
    BY <1>1, <2>1
  <2> QED
    BY <1>1, <1>5, <2>1, <2>2, NothingForeign DEF CloseForm
<1>6. CASE SubmitForm
  <2>1. sending' = Append(sending, [target |-> shown.target, of |-> opening, deletes |-> FALSE])
    BY <1>6 DEF SubmitForm
  <2>2. [target |-> shown.target, of |-> opening, deletes |-> FALSE] \in OwnSaves
    BY <1>1 DEF OwnSaves
  <2>3. AllItsOwn => sending' \in Seq(OwnSaves)
    BY <2>1, <2>2, AppendProperties DEF AllItsOwn
  <2>4. AllItsOwn => AllItsOwn'
    BY <1>6, <2>3 DEF SubmitForm, AllItsOwn, OwnSaves
  <2> QED
    BY <1>1, <1>6, <2>4, NothingForeign DEF SubmitForm
<1>7. ASSUME NEW r \in Records, DeleteRow(r) PROVE FormsInv'
  BY <1>1, <1>7, NothingForeign DEF DeleteRow
<1>8. CASE ReloadList
  BY <1>1, <1>8, NothingForeign DEF ReloadList
<1>9. CASE ListArrives
  <2>1. /\ reloads > 0 /\ reloads' = reloads - 1
        /\ shown' = IF formRow.resets /\ shown.open THEN [shown EXCEPT !.typed = FALSE] ELSE shown
        /\ lost' = (lost \/ (shown.open /\ shown.typed /\ shown' # shown /\ ~FALSE))
        /\ UNCHANGED <<form, opening, risky>>
    BY <1>9 DEF ListArrives, Becomes
  <2>2. ~risky => ~shown.open
    BY <2>1 DEF FormsInv, AllItsOwn
  <2>3. /\ shown' \in [open : BOOLEAN, target : Records \cup {NewRecord}, typed : BOOLEAN]
        /\ shown'.open = shown.open
    BY <1>1, <2>1
  <2> QED
    BY <1>1, <2>1, <2>2, <2>3, NothingForeign
<1>10. ASSUME NEW i \in 1..MaxFormActs, SaveFails(i) PROVE FormsInv'
  <2>1. /\ i \in DOMAIN sending /\ sending' = RemoveAt(sending, i) /\ shown' = shown
        /\ lost' = (lost \/ (shown.open /\ shown.typed /\ shown # shown /\ ~FALSE))
        /\ UNCHANGED <<form, opening, risky, reloads, closers>>
    BY <1>10 DEF SaveFails, Becomes, AfterFailure
  <2>2. AllItsOwn => AllItsOwn'
    BY <2>1, RemovedFromSeq DEF AllItsOwn, OwnSaves
  <2> QED
    BY <1>1, <2>1, <2>2, NothingForeign
<1>11. ASSUME NEW i \in 1..MaxFormActs, Deleted(i) PROVE FormsInv'
  <2>1. /\ i \in DOMAIN sending /\ sending[i].deletes
        /\ reloads' \in Nat /\ UNCHANGED <<form, shown, opening, closers, risky, lost>>
    BY <1>1, <1>11 DEF Deleted
  <2>2. ~AllItsOwn
    <3> SUFFICES ASSUME AllItsOwn PROVE FALSE
      OBVIOUS
    <3>1. sending[i] \in OwnSaves
      BY <2>1 DEF AllItsOwn
    <3> QED
      BY <2>1, <3>1 DEF OwnSaves
  <2> QED
    BY <1>1, <2>1, <2>2, NothingForeign
<1>12. ASSUME NEW o \in closers, TimerCloses(o) PROVE FormsInv'
  <2>1. /\ closers' = closers \ {o} /\ shown' = ClosedForm
        /\ lost' = (lost \/ (shown.open /\ shown.typed /\ ClosedForm # shown /\ ~(o = opening)))
        /\ UNCHANGED <<form, opening, risky, sending, reloads>>
    BY <1>12 DEF TimerCloses, Becomes
  <2>2. /\ shown' \in [open : BOOLEAN, target : Records \cup {NewRecord}, typed : BOOLEAN]
        /\ ~shown'.open
    BY <1>1, <2>1 DEF ClosedForm
  <2>3. ~risky => (lost' => lost)
    BY <2>1 DEF FormsInv, AllItsOwn
  <2> QED
    BY <1>1, <2>1, <2>2, <2>3, NothingForeign
<1> QED
  BY <1>2, <1>3, <1>4, <1>5, <1>6, <1>7, <1>8, <1>9, <1>10, <1>11, <1>12, SavesAreOwn DEF FormsNext

(* What is typed into a form opened with nothing in flight stays until the  *)
(* user closes it or it is saved, for any records and any number of acts    *)
(* (the edit forms of the console).                                         *)
THEOREM IdleFormsKeepTyping == FormsSpec => []IdleFormsKeepTheirText
<1>1. FormsInit => FormsInv
  <2> SUFFICES ASSUME FormsInit PROVE FormsInv
    OBVIOUS
  <2>1. form \in Forms /\ reloads = 0 /\ closers = {} /\ sending = <<>> /\ lost = FALSE
    BY DEF FormsInit
  <2>2. shown \in [open : BOOLEAN, target : Records \cup {NewRecord}, typed : BOOLEAN]
    BY <2>1, RowOfForm DEF FormsInit
  <2>3. AllItsOwn
    BY <2>1 DEF AllItsOwn
  <2> QED
    BY <2>1, <2>2, <2>3 DEF FormsInv
<1>2. FormsInv => IdleFormsKeepTheirText
  BY DEF FormsInv, IdleFormsKeepTheirText
<1> QED
  BY <1>1, <1>2, FormSteps, PTL DEF FormsSpec
-----------------------------------------------------------------------------
(* The only call of a sequence, removed, leaves none.                       *)
LEMMA OnlyOneRemoved == ASSUME NEW e PROVE RemoveAt(<<e>>, 1) = <<>>
<1>1. SubSeq(<<e>>, 1, 0) = <<>> /\ SubSeq(<<e>>, 2, 1) = <<>>
  BY SubSeqEmpty
<1> QED
  BY <1>1 DEF RemoveAt

-----------------------------------------------------------------------------
(* What follows an answer is one call at most.                              *)
LEMMA NoneInSeq == SetToSeq({}) = <<>>
<1>1. Cardinality({}) = 0
  BY FS_EmptySet
<1>2. 1..0 = {}
  OBVIOUS
<1>3. <<>> \in [1..0 -> {}] /\ IsInjective(<<>>)
  BY <1>2 DEF IsInjective
<1>4. SetToSeq({}) \in [1..0 -> {}]
  BY <1>1, <1>3 DEF SetToSeq
<1>5. \A f, g \in [1..0 -> {}] : f = g
  BY <1>2
<1> QED
  BY <1>3, <1>4, <1>5

(* A single call, in a sequence.                                            *)
LEMMA OneInSeq == ASSUME NEW e PROVE SetToSeq({e}) = <<e>> /\ \A S : e \in S => <<e>> \in Seq(S)
<1>1. Cardinality({e}) = 1
  BY FS_Singleton
<1>2. 1..1 = {1}
  OBVIOUS
<1>3. <<e>> \in [1..1 -> {e}] /\ IsInjective(<<e>>)
  BY <1>2 DEF IsInjective
<1>4. SetToSeq({e}) \in [1..1 -> {e}]
  BY <1>1, <1>3 DEF SetToSeq
<1>5. \A f, g \in [1..1 -> {e}] : f = g
  BY <1>2
<1> QED
  BY <1>3, <1>4, <1>5

(* The calls that follow an answer: none, or one.                           *)
LEMMA FollowsOnce ==
  ASSUME NEW c
  PROVE  \/ Follows(c) = {}
         \/ c.kind \in {"apply", "delete", "capture"} /\ c.ok /\ Follows(c) = {"list"}
         \/ c.kind = "list" /\ c.applies /\ Follows(c) = {"upload"}
         \/ c.kind = "upload" /\ Follows(c) = {"download"}
BY DEF Follows

-----------------------------------------------------------------------------
Names == Profiles \cup {NoProfile}

Networks == [profiles : SUBSET Names, active : Names, version : Nat]

TrafficCalls ==
  [kind : {"diff", "apply", "delete", "capture", "list", "upload", "download"},
   p : Names, applies : BOOLEAN, answered : BOOLEAN, ok : BOOLEAN,
   got : Networks]

Windows == [open : BOOLEAN, profile : Names, diff : Names]

(* Calls that compare nothing, or the profile p.                            *)
ComparesOnly(p) == {c \in TrafficCalls : c.kind = "diff" => c.p = p}

(* A window opened with no comparison under way shows and awaits its own.   *)
OwnDiff ==
  diffWin.open /\ ~twoDiffs =>
    diffWin.diff \in {NoProfile, diffWin.profile} /\ pending \in Seq(ComparesOnly(diffWin.profile))

DiffInv ==
  network \in Networks /\ pending \in Seq(TrafficCalls) /\ diffWin \in Windows /\ OwnDiff

(* A call as it is sent.                                                    *)
LEMMA CallSent ==
  ASSUME network \in Networks, NEW p \in Names, NEW applies \in BOOLEAN,
         NEW kind \in {"diff", "apply", "delete", "capture", "list", "upload", "download"}
  PROVE  /\ Send(kind, p, applies) \in TrafficCalls
         /\ Send(kind, p, applies).kind = kind /\ Send(kind, p, applies).p = p
         /\ Send(kind, p, applies).applies = applies
         /\ ~Send(kind, p, applies).answered /\ ~Send(kind, p, applies).ok
BY DEF Send, TrafficCalls

(* The calls in flight after an answer was handled.                         *)
LEMMA DeliveredIn ==
  ASSUME NEW S, pending \in Seq(S), NEW i \in DOMAIN pending, NEW c,
         \A kind \in Follows(c) : Send(kind, c.p, c.applies) \in S
  PROVE  RemoveAt(pending, i) \o SetToSeq({Send(kind, c.p, c.applies) : kind \in Follows(c)})
           \in Seq(S)
<1> DEFINE new == {Send(kind, c.p, c.applies) : kind \in Follows(c)}
<1>1. SetToSeq(new) \in Seq(S)
  <2>1. CASE Follows(c) = {}
    <3>1. new = {}
      BY <2>1
    <3> HIDE DEF new
    <3>2. SetToSeq(new) = <<>>
      BY <3>1, NoneInSeq, Zenon
    <3> QED
      BY <3>2
  <2>2. ASSUME NEW kind, Follows(c) = {kind} PROVE SetToSeq(new) \in Seq(S)
    <3>1. new = {Send(kind, c.p, c.applies)} /\ Send(kind, c.p, c.applies) \in S
      BY <2>2
    <3> HIDE DEF new
    <3>2. SetToSeq(new) = <<Send(kind, c.p, c.applies)>>
      BY <3>1, OneInSeq, Zenon
    <3>3. <<Send(kind, c.p, c.applies)>> \in Seq(S)
      BY <3>1, OneInSeq
    <3> QED
      BY <3>2, <3>3, Zenon
  <2>3. Follows(c) = {} \/ \E kind : Follows(c) = {kind}
    BY FollowsOnce
  <2> QED
    BY <2>1, <2>2, <2>3
<1>2. RemoveAt(pending, i) \in Seq(S)
  BY RemovedFromSeq
<1> HIDE DEF new
<1>3. RemoveAt(pending, i) \o SetToSeq(new) \in Seq(S)
  BY <1>1, <1>2, ConcatProperties
<1> QED
  BY <1>3 DEF new

(* What the server stores is a state of the network.                        *)
LEMMA StoresTyped ==
  ASSUME network \in Networks, NEW c \in TrafficCalls
  PROVE  Stores(c) \in Networks
<1>1. c.p \in Names /\ NoProfile \in Names
  BY DEF TrafficCalls, Names
<1>2. CASE c.kind = "capture"
  <2>1. Stores(c) = [network EXCEPT !.profiles = @ \cup {c.p}]
    BY <1>2 DEF Stores
  <2> QED
    BY <1>1, <2>1 DEF Networks
<1>3. CASE c.kind = "delete"
  <2>1. Stores(c) = [network EXCEPT !.profiles = @ \ {c.p},
                                    !.active = IF @ = c.p THEN NoProfile ELSE @]
    BY <1>3 DEF Stores
  <2>2. /\ network.profiles \ {c.p} \in SUBSET Names
        /\ (IF network.active = c.p THEN NoProfile ELSE network.active) \in Names
    BY <1>1 DEF Networks
  <2> QED
    BY <2>1, <2>2 DEF Networks
<1>4. CASE c.kind = "apply"
  <2>1. Stores(c) = [network EXCEPT !.active = c.p, !.version = @ + 1]
    BY <1>4 DEF Stores
  <2>2. network.version + 1 \in Nat
    BY DEF Networks
  <2> QED
    BY <1>1, <2>1, <2>2 DEF Networks
<1>5. CASE c.kind \notin {"capture", "delete", "apply"}
  BY <1>5 DEF Stores
<1> QED
  BY <1>2, <1>3, <1>4, <1>5

ReplyTo(c, ok, net) == [c EXCEPT !.answered = TRUE, !.ok = ok, !.got = net]

(* A call once it was answered.                                             *)
LEMMA CallAnswered ==
  ASSUME NEW c \in TrafficCalls, NEW ok \in BOOLEAN, NEW net \in Networks
  PROVE  /\ ReplyTo(c, ok, net) \in TrafficCalls
         /\ ReplyTo(c, ok, net).kind = c.kind /\ ReplyTo(c, ok, net).p = c.p
         /\ ReplyTo(c, ok, net).applies = c.applies /\ ReplyTo(c, ok, net).answered
         /\ ReplyTo(c, ok, net).ok = ok /\ ReplyTo(c, ok, net).got = net
BY DEF TrafficCalls, ReplyTo

(* A call that failed on the way.                                           *)
LEMMA CallFailed ==
  ASSUME NEW c \in TrafficCalls
  PROVE  LET d == [c EXCEPT !.answered = TRUE]
         IN  d \in TrafficCalls /\ d.kind = c.kind /\ d.p = c.p
BY DEF TrafficCalls

(* A call is answered or fails: it stays the call it was.                   *)
LEMMA CallsStaySuch ==
  ASSUME NEW S \in SUBSET TrafficCalls, pending \in Seq(S), NEW i \in DOMAIN pending,
         NEW d \in S, pending' = [pending EXCEPT ![i] = d]
  PROVE  pending' \in Seq(S)
OBVIOUS

(* The calls that follow an answer compare nothing.                         *)
LEMMA FollowersCompareNothing ==
  ASSUME network \in Networks, NEW c \in TrafficCalls, NEW p
  PROVE  \A kind \in Follows(c) : Send(kind, c.p, c.applies) \in ComparesOnly(p)
<1> SUFFICES ASSUME NEW kind \in Follows(c)
             PROVE  Send(kind, c.p, c.applies) \in ComparesOnly(p)
  OBVIOUS
<1>1. kind \in {"list", "upload", "download"}
  BY FollowsOnce
<1>2. c.p \in Names /\ c.applies \in BOOLEAN
  BY DEF TrafficCalls
<1>3. Send(kind, c.p, c.applies) \in TrafficCalls /\ Send(kind, c.p, c.applies).kind = kind
  BY <1>1, <1>2, CallSent
<1> QED
  BY <1>1, <1>3 DEF ComparesOnly

(* An answer, or a failure, leaves every call with its kind and its         *)
(* profile.                                                                 *)
LEMMA AnswersKeepCalls ==
  ASSUME DiffInv, NEW i, ServerAnswers(i) \/ ServerFails(i)
  PROVE  DiffInv'
<1>1. /\ i \in DOMAIN pending /\ diffWin' = diffWin /\ twoDiffs' = twoDiffs
  BY DEF ServerAnswers, ServerFails, NotAnswered
<1>2. PICK c : c = pending[i]
  OBVIOUS
<1>3. c \in TrafficCalls
  BY <1>1, <1>2 DEF DiffInv
<1>4. network' \in Networks
  <2>1. Stores(c) \in Networks
    BY <1>3, StoresTyped DEF DiffInv
  <2> QED
    BY <1>2, <2>1 DEF DiffInv, ServerAnswers, ServerFails
<1>5. PICK d : /\ pending' = [pending EXCEPT ![i] = d]
               /\ d \in TrafficCalls /\ d.kind = c.kind /\ d.p = c.p
  <2>1. CASE ServerAnswers(i)
    <3>1. PICK net \in Networks : net = network'
      BY <1>4
    <3>2. PICK ok \in BOOLEAN : ok = Exists(c)
      BY DEF Exists
    <3> DEFINE d == ReplyTo(c, ok, net)
    <3>3. pending' = [pending EXCEPT ![i] = d]
      BY <1>2, <2>1, <3>1, <3>2 DEF ServerAnswers, ReplyTo
    <3>4. d \in TrafficCalls /\ d.kind = c.kind /\ d.p = c.p
      BY <1>3, CallAnswered
    <3> QED
      BY <3>3, <3>4
  <2>2. CASE ServerFails(i)
    <3> DEFINE d == [c EXCEPT !.answered = TRUE]
    <3>1. pending' = [pending EXCEPT ![i] = d]
      BY <1>2, <2>2 DEF ServerFails
    <3>2. d \in TrafficCalls /\ d.kind = c.kind /\ d.p = c.p
      BY <1>3, CallFailed
    <3> QED
      BY <3>1, <3>2
  <2> QED
    BY <2>1, <2>2
<1>6. pending' \in Seq(TrafficCalls)
  BY <1>1, <1>5, CallsStaySuch DEF DiffInv
<1>7. OwnDiff'
  <2> SUFFICES ASSUME diffWin.open, ~twoDiffs
               PROVE  /\ diffWin.diff \in {NoProfile, diffWin.profile}
                      /\ pending' \in Seq(ComparesOnly(diffWin.profile))
    BY <1>1 DEF OwnDiff, ComparesOnly
  <2> DEFINE S == ComparesOnly(diffWin.profile)
  <2>1. diffWin.diff \in {NoProfile, diffWin.profile} /\ pending \in Seq(S)
    BY DEF DiffInv, OwnDiff
  <2>2. c \in S
    BY <1>1, <1>2, <2>1
  <2>3. d \in S
    BY <1>5, <2>2 DEF ComparesOnly
  <2>4. S \in SUBSET TrafficCalls
    BY DEF ComparesOnly
  <2> QED
    BY <1>1, <1>5, <2>1, <2>3, <2>4, CallsStaySuch
<1> QED
  BY <1>1, <1>4, <1>6, <1>7 DEF DiffInv

(* The page handles an answer: a comparison that arrives in a window opened *)
(* with none under way is the window's own.                                 *)
LEMMA DeliveryKeepsDiff ==
  ASSUME DiffInv, NEW i, Deliver(i)
  PROVE  DiffInv'
<1>1. PICK c : c = pending[i]
  OBVIOUS
<1>2. /\ i \in DOMAIN pending /\ network' = network /\ twoDiffs' = twoDiffs
      /\ pending' = RemoveAt(pending, i)
                    \o SetToSeq({Send(kind, c.p, c.applies) : kind \in Follows(c)})
      /\ diffWin' = IF c.kind = "diff" /\ c.ok THEN [diffWin EXCEPT !.diff = c.p] ELSE diffWin
  BY <1>1 DEF Deliver
<1>3. c \in TrafficCalls /\ c.p \in Names
  <2>1. pending \in Seq(TrafficCalls) /\ i \in DOMAIN pending
    BY <1>2 DEF DiffInv
  <2>2. c \in TrafficCalls
    BY <1>1, <2>1
  <2> QED
    BY <2>2 DEF TrafficCalls
<1>4. /\ diffWin' \in Windows /\ diffWin'.open = diffWin.open
      /\ diffWin'.profile = diffWin.profile
      /\ diffWin'.diff = diffWin.diff \/ (c.kind = "diff" /\ diffWin'.diff = c.p)
  BY <1>2, <1>3 DEF DiffInv, Windows
<1>5. \A p : \A kind \in Follows(c) : Send(kind, c.p, c.applies) \in ComparesOnly(p)
  BY <1>3, FollowersCompareNothing DEF DiffInv
<1>6. pending' \in Seq(TrafficCalls)
  <2>1. \A kind \in Follows(c) : Send(kind, c.p, c.applies) \in TrafficCalls
    BY <1>5 DEF ComparesOnly
  <2> QED
    BY <1>2, <2>1, DeliveredIn DEF DiffInv
<1>7. OwnDiff'
  <2> SUFFICES ASSUME diffWin.open, ~twoDiffs
               PROVE  /\ diffWin'.diff \in {NoProfile, diffWin.profile}
                      /\ pending' \in Seq(ComparesOnly(diffWin.profile))
    BY <1>2, <1>4 DEF OwnDiff, ComparesOnly
  <2> DEFINE S == ComparesOnly(diffWin.profile)
  <2>1. diffWin.diff \in {NoProfile, diffWin.profile} /\ pending \in Seq(S)
    BY DEF DiffInv, OwnDiff
  <2>2. c \in S
    BY <1>1, <1>2, <2>1
  <2>3. c.kind = "diff" => c.p = diffWin.profile
    BY <2>2 DEF ComparesOnly
  <2>4. pending' \in Seq(S)
    BY <1>2, <1>5, <2>1, DeliveredIn
  <2> QED
    BY <1>4, <2>1, <2>3, <2>4
<1> QED
  BY <1>2, <1>4, <1>6, <1>7 DEF DiffInv

(* A call the page sends, other than a comparison, leaves the window's.     *)
LEMMA AskingKeepsDiff ==
  ASSUME DiffInv, NEW kind \in {"apply", "delete", "capture"}, NEW p \in Names,
         NEW applies \in BOOLEAN, pending' = Append(pending, Send(kind, p, applies)),
         UNCHANGED <<network, diffWin, twoDiffs>>
  PROVE  DiffInv'
<1> DEFINE new == Send(kind, p, applies)
<1>1. new \in TrafficCalls /\ new.kind = kind
  BY CallSent DEF DiffInv
<1>2. \A q : new \in ComparesOnly(q)
  BY <1>1 DEF ComparesOnly
<1> HIDE DEF new
<1>3. pending' = Append(pending, new)
  BY DEF new
<1>4. pending' \in Seq(TrafficCalls)
  BY <1>1, <1>3, AppendProperties DEF DiffInv
<1>5. OwnDiff'
  <2> SUFFICES ASSUME diffWin.open, ~twoDiffs
               PROVE  /\ diffWin.diff \in {NoProfile, diffWin.profile}
                      /\ pending' \in Seq(ComparesOnly(diffWin.profile))
    BY DEF OwnDiff, ComparesOnly
  <2>1. /\ diffWin.diff \in {NoProfile, diffWin.profile}
        /\ pending \in Seq(ComparesOnly(diffWin.profile))
    BY DEF DiffInv, OwnDiff
  <2> QED
    BY <1>2, <1>3, <2>1, AppendProperties
<1> QED
  BY <1>4, <1>5 DEF DiffInv

(* Every step of the page, of its calls and of the server keeps it so.      *)
LEMMA DiffSteps == DiffInv /\ [TrafficNext]_trafficVars => DiffInv'
<1> SUFFICES ASSUME DiffInv, [TrafficNext]_trafficVars PROVE DiffInv'
  OBVIOUS
<1>1. \A p \in Profiles : p \in Names
  BY DEF Names
<1>2. ASSUME UNCHANGED <<network, pending, diffWin, twoDiffs>> PROVE DiffInv'
  BY <1>2 DEF DiffInv, OwnDiff, ComparesOnly
<1>3. ASSUME NEW p \in Profiles, OpenDiff(p) PROVE DiffInv'
  <2> DEFINE new == Send("diff", p, FALSE)
  <2>1. /\ pending' = Append(pending, new) /\ network' = network /\ twoDiffs' = InProgress("diff")
        /\ diffWin' = [open |-> TRUE, profile |-> p, diff |-> NoProfile]
    BY <1>3 DEF OpenDiff, Asks, Opened
  <2>2. new \in TrafficCalls /\ new.p = p
    BY <1>1, CallSent DEF DiffInv
  <2> HIDE DEF new
  <2>3. pending' \in Seq(TrafficCalls)
    BY <2>1, <2>2, AppendProperties DEF DiffInv
  <2>4. diffWin' \in Windows
    BY <1>1, <2>1 DEF Windows, Names
  <2>5. OwnDiff'
    <3> SUFFICES ASSUME ~twoDiffs' PROVE pending' \in Seq(ComparesOnly(p))
      BY <2>1 DEF OwnDiff, ComparesOnly
    <3>1. \A i \in DOMAIN pending : pending[i].kind # "diff"
      BY <2>1 DEF InProgress
    <3>2. pending \in Seq(ComparesOnly(p))
      BY <3>1 DEF DiffInv, ComparesOnly
    <3>3. new \in ComparesOnly(p)
      BY <2>2 DEF ComparesOnly
    <3> QED
      BY <2>1, <3>2, <3>3, AppendProperties
  <2> QED
    BY <2>1, <2>3, <2>4, <2>5 DEF DiffInv
<1>4. CASE CloseDiff
  <2>1. UNCHANGED <<network, pending, twoDiffs>> /\ diffWin' = [diffWin EXCEPT !.open = FALSE]
    BY <1>4 DEF CloseDiff
  <2>2. diffWin' \in Windows /\ ~diffWin'.open
    BY <2>1 DEF DiffInv, Windows
  <2> QED
    BY <2>1, <2>2 DEF DiffInv, OwnDiff
<1>5. CASE ApplyProfile
  <2>1. diffWin.profile \in Names
    BY DEF DiffInv, Windows
  <2> QED
    BY <1>5, <2>1, AskingKeepsDiff DEF ApplyProfile, Asks
<1>6. ASSUME NEW p \in Profiles, DeleteProfile(p) PROVE DiffInv'
  BY <1>1, <1>6, AskingKeepsDiff DEF DeleteProfile, Asks
<1>7. ASSUME NEW p \in Profiles, CaptureProfile(p) PROVE DiffInv'
  BY <1>1, <1>7, AskingKeepsDiff DEF CaptureProfile, Asks
<1>8. ASSUME NEW p \in Profiles, SelectProfile(p) PROVE DiffInv'
  BY <1>2, <1>8 DEF SelectProfile
<1>9. CASE ToggleManage
  BY <1>2, <1>9 DEF ToggleManage
<1>10. CASE UNCHANGED trafficVars
  BY <1>2, <1>10 DEF trafficVars
<1> QED
  BY <1>3, <1>4, <1>5, <1>6, <1>7, <1>8, <1>9, <1>10, AnswersKeepCalls, DeliveryKeepsDiff
     DEF TrafficNext

(* The page starts with nothing on its way and no window.                   *)
LEMMA DiffStarts == TrafficInit => DiffInv
<1> SUFFICES ASSUME TrafficInit PROVE DiffInv
  OBVIOUS
<1>1. /\ network \in [profiles : {P \in SUBSET Profiles : Factory \subseteq P},
                       active : Factory \cup {NoProfile}, version : {0}]
      /\ diffWin = [open |-> FALSE, profile |-> NoProfile, diff |-> NoProfile]
      /\ pending = <<>>
  BY DEF TrafficInit
<1>2. network \in Networks
  BY <1>1, TrafficAssumption DEF Networks, Names
<1>3. diffWin \in Windows /\ OwnDiff
  BY <1>1 DEF Windows, Names, OwnDiff
<1> QED
  BY <1>1, <1>2, <1>3 DEF DiffInv

(* The comparison in the window is of the profile the window names, for any *)
(* profiles and calls (handleOpenDiff and the activation window).           *)
THEOREM DiffsAreNamed == TrafficSpec => []DiffIsOfTheNamedProfile
<1>1. DiffInv => DiffIsOfTheNamedProfile
  BY DEF DiffInv, OwnDiff, DiffIsOfTheNamedProfile
<1> QED
  BY <1>1, DiffStarts, DiffSteps, PTL DEF TrafficSpec
-----------------------------------------------------------------------------
BarRight ==
  \E s : bar = [profiles |-> network.profiles, active |-> network.active, selected |-> s]

TablesRight == tables = [upload |-> network.version, download |-> network.version]

(* What the bar and the tables show while one call, c, is on its way: how   *)
(* far the loads that follow a change have come.                            *)
Phase(c) ==
  /\ applying => c.applies
  /\ c.applies => c.kind \in {"apply", "list", "upload", "download"}
  /\ c.kind \in {"apply", "upload", "download"} => c.applies
  /\ c.ok => c.answered
  /\ c.kind \in {"list", "upload", "download"} /\ c.answered => c.ok /\ c.got = network
  /\ (c.kind = "diff" \/ (c.kind \in {"apply", "delete", "capture"} /\ ~c.ok)) => BarRight /\ TablesRight
  /\ (c.kind \in {"delete", "capture"} \/ (c.kind = "list" /\ ~c.applies)) => TablesRight
  /\ c.kind \in {"upload", "download"} => BarRight
  /\ c.kind = "download" => \E d : tables = [upload |-> network.version, download |-> d]

OneAtATime ==
  \/ pending = <<>> /\ BarRight /\ TablesRight /\ ~applying
  \/ \E c \in TrafficCalls : pending = <<c>> /\ Phase(c)

QuietInv ==
  /\ DiffInv /\ refusals \in Nat
  /\ \E u, d : tables = [upload |-> u, download |-> d]
  /\ ~overlapped /\ refusals = 0 => OneAtATime

(* A call sent when nothing is on its way starts from what is right.        *)
LEMMA QuietAsks ==
  ASSUME QuietInv, NEW kind \in {"diff", "apply", "delete", "capture"}, NEW p \in Names,
         NEW applies \in BOOLEAN, applies <=> kind = "apply",
         Asks(Send(kind, p, applies)), bar' = bar, applying' => (applying \/ applies), DiffInv'
  PROVE  QuietInv'
<1>0. PICK new : new = Send(kind, p, applies)
  OBVIOUS
<1>1. /\ pending' = Append(pending, new) /\ overlapped' = (overlapped \/ pending # <<>>)
      /\ UNCHANGED <<network, tables, refusals>>
  BY <1>0 DEF Asks
<1>2. /\ new \in TrafficCalls /\ new.kind = kind /\ new.applies = applies /\ ~new.answered /\ ~new.ok
  BY <1>0, CallSent DEF QuietInv, DiffInv
<1>3. ASSUME ~overlapped', refusals' = 0 PROVE OneAtATime'
  <2>1. ~overlapped /\ pending = <<>> /\ refusals = 0
    BY <1>1, <1>3
  <2>2. BarRight /\ TablesRight /\ ~applying
    <3>1. OneAtATime
      BY <2>1 DEF QuietInv
    <3>2. ~\E c \in TrafficCalls : pending = <<c>>
      BY <2>1
    <3> QED
      BY <3>1, <3>2 DEF OneAtATime
  <2>3. pending' = <<new>>
    BY <1>1, <2>1
  <2>4. BarRight' /\ TablesRight'
    BY <1>1, <2>2 DEF BarRight, TablesRight
  <2>5. applying' => new.applies
    BY <1>2, <2>2
  <2>6. Phase(new)'
    BY <1>2, <2>4, <2>5 DEF Phase
  <2> QED
    BY <1>2, <2>3, <2>6 DEF OneAtATime
<1> QED
  BY <1>1, <1>3 DEF QuietInv

(* The server's answer: a change moves the network ahead of the page, a     *)
(* load has what the network is.                                            *)
LEMMA QuietAnswers ==
  ASSUME QuietInv, NEW i, ServerAnswers(i), DiffInv'
  PROVE  QuietInv'
<1>1. UNCHANGED <<bar, tables, applying, refusals, overlapped>>
  BY DEF ServerAnswers
<1>2. ASSUME ~overlapped, refusals = 0 PROVE OneAtATime'
  <2>1. i \in DOMAIN pending
    BY DEF ServerAnswers, NotAnswered
  <2>2. PICK c \in TrafficCalls : pending = <<c>> /\ Phase(c)
    BY <1>2, <2>1 DEF QuietInv, OneAtATime
  <2>3. i = 1 /\ pending[i] = c
    BY <2>1, <2>2
  <2>4. PICK net \in Networks : net = network'
    BY DEF DiffInv
  <2>5. PICK ok \in BOOLEAN : ok = Exists(c)
    BY DEF Exists
  <2> DEFINE d == ReplyTo(c, ok, net)
  <2>6. pending' = [pending EXCEPT ![i] = d]
    BY <2>3, <2>4, <2>5 DEF ServerAnswers, ReplyTo
  <2>7. /\ d \in TrafficCalls /\ d.kind = c.kind /\ d.applies = c.applies /\ d.answered
        /\ d.ok = ok /\ d.got = net
    BY CallAnswered
  <2> HIDE DEF d
  <2>8. pending' = <<d>>
    BY <2>2, <2>3, <2>6
  <2>9. network' = IF Exists(c) THEN Stores(c) ELSE network
    BY <2>3 DEF ServerAnswers
  <2>10. CASE c.kind \notin {"apply", "delete", "capture"}
    <3>1. network' = network
      BY <2>9, <2>10 DEF Stores
    <3>2. BarRight' = BarRight /\ TablesRight' = TablesRight
      BY <1>1, <3>1 DEF BarRight, TablesRight
    <3>3. c.kind \in {"list", "upload", "download"} => ok
      BY <2>5 DEF Exists
    <3>4. Phase(d)'
      BY <1>1, <2>2, <2>4, <2>7, <2>10, <3>1, <3>2, <3>3 DEF Phase
    <3> QED
      BY <2>7, <2>8, <3>4 DEF OneAtATime
  <2>11. CASE c.kind \in {"apply", "delete", "capture"} /\ ~ok
    <3>1. network' = network
      BY <2>5, <2>9, <2>11
    <3>2. BarRight /\ TablesRight
      <4>1. ~c.answered
        BY <2>3 DEF ServerAnswers, NotAnswered
      <4> QED
        BY <2>2, <2>11, <4>1 DEF Phase
    <3>3. BarRight' /\ TablesRight'
      BY <1>1, <3>1, <3>2 DEF BarRight, TablesRight
    <3>4. Phase(d)'
      BY <1>1, <2>2, <2>7, <2>11, <3>3 DEF Phase
    <3> QED
      BY <2>7, <2>8, <3>4 DEF OneAtATime
  <2>12. CASE c.kind \in {"apply", "delete", "capture"} /\ ok
    <3>1. c.kind \in {"delete", "capture"} => TablesRight'
      <4> SUFFICES ASSUME c.kind \in {"delete", "capture"} PROVE TablesRight'
        OBVIOUS
      <4>1. network' = Stores(c)
        BY <2>5, <2>9, <2>12
      <4>2. network'.version = network.version
        <5>1. network \in Networks
          BY DEF QuietInv, DiffInv
        <5>2. CASE c.kind = "delete"
          BY <4>1, <5>1, <5>2 DEF Stores, Networks
        <5>3. CASE c.kind = "capture"
          BY <4>1, <5>1, <5>3 DEF Stores, Networks
        <5> QED
          BY <5>2, <5>3
      <4> QED
        BY <1>1, <2>2, <4>2 DEF Phase, TablesRight
    <3>2. Phase(d)'
      BY <1>1, <2>2, <2>7, <2>12, <3>1 DEF Phase
    <3> QED
      BY <2>7, <2>8, <3>2 DEF OneAtATime
  <2> QED
    BY <2>10, <2>11, <2>12
<1> QED
  BY <1>1, <1>2 DEF QuietInv

(* Loads that have not been answered, of a change or not.                   *)
LEMMA LoadPhase ==
  ASSUME NEW c \in TrafficCalls, NEW kind \in {"list", "upload", "download"}, NEW new,
         new = Send(kind, c.p, c.applies), network \in Networks,
         applying' => c.applies, kind \in {"upload", "download"} => c.applies /\ BarRight',
         c.applies => c.kind \in {"apply", "list", "upload", "download"},
         kind = "list" /\ ~c.applies => TablesRight',
         kind = "download" => \E d : tables' = [upload |-> network'.version, download |-> d]
  PROVE  new \in TrafficCalls /\ Phase(new)'
<1>1. c.p \in Names /\ c.applies \in BOOLEAN
  BY DEF TrafficCalls
<1>2. /\ new \in TrafficCalls /\ new.kind = kind /\ new.applies = c.applies
      /\ ~new.answered /\ ~new.ok
  BY <1>1, CallSent
<1>3. Phase(new)'
  <2>1. /\ applying' => new.applies
        /\ new.applies => new.kind \in {"apply", "list", "upload", "download"}
        /\ new.kind \in {"apply", "upload", "download"} => new.applies
    BY <1>2
  <2> QED
    BY <1>2, <2>1 DEF Phase
<1> QED
  BY <1>2, <1>3

(* The page handles an answer: what it shows then is the network, or the    *)
(* next load of the chain is on its way.                                    *)
LEMMA QuietDelivers ==
  ASSUME QuietInv, NEW i, Deliver(i), DiffInv'
  PROVE  QuietInv'
<1>1. UNCHANGED <<network, refusals, overlapped>>
  BY DEF Deliver
<1>2. \E u, d : tables' = [upload |-> u, download |-> d]
  <2>1. PICK u, d : tables = [upload |-> u, download |-> d]
    BY DEF QuietInv
  <2>2. PICK c : c = pending[i]
    OBVIOUS
  <2>3. tables' = TablesAfter(c)
    BY <2>2 DEF Deliver
  <2>4. \/ tables' = tables
        \/ tables' = [tables EXCEPT !.download = Unread]
        \/ c.kind \in {"upload", "download"} /\ tables' = [tables EXCEPT ![c.kind] = c.got.version]
    BY <2>3 DEF TablesAfter
  <2>5. CASE tables' = tables
    BY <2>1, <2>5
  <2>6. CASE tables' = [tables EXCEPT !.download = Unread]
    <3>1. tables' = [upload |-> u, download |-> Unread]
      BY <2>1, <2>6
    <3> QED
      BY <3>1
  <2>7. ASSUME NEW x, tables' = [tables EXCEPT !["upload"] = x]
        PROVE  \E v, w : tables' = [upload |-> v, download |-> w]
    <3>1. tables' = [upload |-> x, download |-> d]
      BY <2>1, <2>7
    <3> QED
      BY <3>1
  <2>8. ASSUME NEW x, tables' = [tables EXCEPT !["download"] = x]
        PROVE  \E v, w : tables' = [upload |-> v, download |-> w]
    <3>1. tables' = [upload |-> u, download |-> x]
      BY <2>1, <2>8
    <3> QED
      BY <3>1
  <2> QED
    BY <2>4, <2>5, <2>6, <2>7, <2>8
<1>3. ASSUME ~overlapped, refusals = 0 PROVE OneAtATime'
  <2>1. PICK c \in TrafficCalls : pending = <<c>> /\ Phase(c) /\ i = 1
    <3>1. i \in DOMAIN pending
      BY DEF Deliver
    <3> QED
      BY <1>3, <3>1 DEF QuietInv, OneAtATime
  <2>2. /\ c.answered
        /\ bar' = IF c.kind = "list" /\ c.ok THEN BarAfter(c) ELSE bar
        /\ tables' = TablesAfter(c)
        /\ applying' = (applying /\ ~(c.applies /\ Follows(c) = {}))
        /\ pending' = RemoveAt(pending, 1)
                      \o SetToSeq({Send(kind, c.p, c.applies) : kind \in Follows(c)})
    BY <2>1 DEF Deliver
  <2>3. RemoveAt(pending, 1) = <<>>
    BY <2>1, OnlyOneRemoved
  <2>4. applying' => c.applies /\ Follows(c) # {}
    BY <2>1, <2>2 DEF Phase
  <2>5. c.kind # "list" => (BarRight => BarRight')
    BY <1>1, <2>2 DEF BarRight
  <2>6. c.kind \notin {"upload", "download"} => (TablesRight => TablesRight')
    BY <1>1, <2>2 DEF TablesRight, TablesAfter
  <2>7. c.kind = "list" => BarRight'
    <3> SUFFICES ASSUME c.kind = "list" PROVE BarRight'
      OBVIOUS
    <3>1. c.ok /\ c.got = network
      BY <2>1, <2>2 DEF Phase
    <3> QED
      BY <1>1, <2>2, <3>1 DEF BarAfter, BarRight
  <2>8. c.kind = "upload" => \E d : tables' = [upload |-> network'.version, download |-> d]
    <3> SUFFICES ASSUME c.kind = "upload"
                 PROVE  \E d : tables' = [upload |-> network'.version, download |-> d]
      OBVIOUS
    <3>1. c.ok /\ c.got = network
      BY <2>1, <2>2 DEF Phase
    <3>2. tables' = [tables EXCEPT !["upload"] = network.version]
      BY <2>2, <3>1 DEF TablesAfter
    <3>3. PICK u, d : tables = [upload |-> u, download |-> d]
      BY DEF QuietInv
    <3>4. tables' = [upload |-> network.version, download |-> d]
      BY <3>2, <3>3
    <3> QED
      BY <1>1, <3>4
  <2>9. c.kind = "download" => TablesRight'
    <3> SUFFICES ASSUME c.kind = "download" PROVE TablesRight'
      OBVIOUS
    <3>1. c.ok /\ c.got = network
      BY <2>1, <2>2 DEF Phase
    <3>2. tables' = [tables EXCEPT !["download"] = network.version]
      BY <2>2, <3>1 DEF TablesAfter
    <3>3. PICK d : tables = [upload |-> network.version, download |-> d]
      BY <2>1 DEF Phase
    <3> QED
      BY <1>1, <3>2, <3>3 DEF TablesRight
  <2>10. CASE Follows(c) = {}
    <3>1. pending' = <<>>
      <4>1. {Send(kind, c.p, c.applies) : kind \in Follows(c)} = {}
        BY <2>10
      <4>2. SetToSeq({Send(kind, c.p, c.applies) : kind \in Follows(c)}) = <<>>
        BY <4>1, NoneInSeq, Zenon
      <4>3. pending' = <<>> \o <<>>
        BY <2>2, <2>3, <4>2, Zenon
      <4> QED
        BY <4>3
    <3>2. \/ c.kind = "diff"
          \/ c.kind \in {"apply", "delete", "capture"} /\ ~c.ok
          \/ c.kind = "list" /\ ~c.applies
          \/ c.kind = "download"
      BY <2>10 DEF Follows, TrafficCalls
    <3>3. BarRight' /\ TablesRight'
      BY <2>1, <2>5, <2>6, <2>7, <2>9, <3>2 DEF Phase
    <3> QED
      BY <2>4, <2>10, <3>1, <3>3 DEF OneAtATime
  <2>11. ASSUME NEW kind, Follows(c) = {kind} PROVE OneAtATime'
    <3>1. PICK new : new = Send(kind, c.p, c.applies)
      OBVIOUS
    <3>2. pending' = <<new>>
      <4>1. {Send(k, c.p, c.applies) : k \in Follows(c)} = {new}
        BY <2>11, <3>1
      <4>2. SetToSeq({Send(k, c.p, c.applies) : k \in Follows(c)}) = <<new>>
        BY <4>1, OneInSeq, Zenon
      <4>3. pending' = <<>> \o <<new>>
        BY <2>2, <2>3, <4>2, Zenon
      <4> QED
        BY <4>3
    <3>3. \/ kind = "list" /\ c.kind \in {"apply", "delete", "capture"} /\ c.ok
          \/ kind = "upload" /\ c.kind = "list" /\ c.applies
          \/ kind = "download" /\ c.kind = "upload"
      <4>1. kind \in Follows(c)
        BY <2>11
      <4> QED
        BY <4>1, FollowsOnce
    <3>4. /\ applying' => c.applies
          /\ kind \in {"upload", "download"} => c.applies /\ BarRight'
          /\ c.applies => c.kind \in {"apply", "list", "upload", "download"}
          /\ kind = "list" /\ ~c.applies => TablesRight'
          /\ kind = "download" => \E d : tables' = [upload |-> network'.version, download |-> d]
      BY <2>1, <2>4, <2>5, <2>6, <2>7, <2>8, <3>3 DEF Phase
    <3>5. new \in TrafficCalls /\ Phase(new)'
      BY <3>1, <3>3, <3>4, LoadPhase DEF QuietInv, DiffInv
    <3> QED
      BY <3>2, <3>5 DEF OneAtATime
  <2>12. Follows(c) = {} \/ \E kind : Follows(c) = {kind}
    BY FollowsOnce
  <2> QED
    BY <2>10, <2>11, <2>12
<1> QED
  BY <1>1, <1>2, <1>3 DEF QuietInv

(* Every step keeps a quiet page right.                                     *)
LEMMA QuietSteps == QuietInv /\ [TrafficNext]_trafficVars => QuietInv'
<1> SUFFICES ASSUME QuietInv, [TrafficNext]_trafficVars PROVE QuietInv'
  OBVIOUS
<1>1. DiffInv'
  BY DiffSteps DEF QuietInv
<1>2. \A p \in Profiles : p \in Names
  BY DEF Names
<1>3. ASSUME UNCHANGED <<network, tables, pending, applying, refusals, overlapped>>,
             \A s : bar = [profiles |-> network.profiles, active |-> network.active, selected |-> s]
                     => BarRight'
      PROVE  QuietInv'
  <2>1. BarRight => BarRight'
    BY <1>3 DEF BarRight
  <2>2. TablesRight' = TablesRight
    BY <1>3 DEF TablesRight
  <2>3. ASSUME NEW c, Phase(c) PROVE Phase(c)'
    BY <1>3, <2>1, <2>2, <2>3 DEF Phase
  <2>4. OneAtATime => OneAtATime'
    BY <1>3, <2>1, <2>2, <2>3 DEF OneAtATime
  <2> QED
    BY <1>1, <1>3, <2>4 DEF QuietInv
<1>4. ASSUME NEW p \in Profiles, SelectProfile(p) PROVE QuietInv'
  <2>1. UNCHANGED <<network, tables, pending, applying, refusals, overlapped>>
        /\ bar' = [bar EXCEPT !.selected = p]
    BY <1>4 DEF SelectProfile
  <2>2. ASSUME NEW s, bar = [profiles |-> network.profiles, active |-> network.active, selected |-> s]
        PROVE  BarRight'
    <3>1. bar' = [profiles |-> network.profiles, active |-> network.active, selected |-> p]
      BY <2>1, <2>2
    <3> QED
      BY <2>1, <3>1 DEF BarRight
  <2> QED
    BY <1>3, <2>1, <2>2
<1>5. ASSUME UNCHANGED <<network, tables, pending, applying, refusals, overlapped, bar>>
      PROVE  QuietInv'
  BY <1>3, <1>5 DEF BarRight
<1>6. CASE ToggleManage
  BY <1>5, <1>6 DEF ToggleManage
<1>7. CASE CloseDiff
  BY <1>5, <1>7 DEF CloseDiff
<1>8. CASE UNCHANGED trafficVars
  BY <1>5, <1>8 DEF trafficVars
<1>9. ASSUME NEW p \in Profiles, OpenDiff(p) PROVE QuietInv'
  BY <1>1, <1>2, <1>9, QuietAsks DEF OpenDiff
<1>10. CASE ApplyProfile
  <2>1. diffWin.profile \in Names
    BY DEF QuietInv, DiffInv, Windows
  <2> QED
    BY <1>1, <1>10, <2>1, QuietAsks DEF ApplyProfile
<1>11. ASSUME NEW p \in Profiles, DeleteProfile(p) PROVE QuietInv'
  BY <1>1, <1>2, <1>11, QuietAsks DEF DeleteProfile
<1>12. ASSUME NEW p \in Profiles, CaptureProfile(p) PROVE QuietInv'
  BY <1>1, <1>2, <1>12, QuietAsks DEF CaptureProfile
<1>13. ASSUME NEW i \in 1..MaxTrafficActs, ServerFails(i) PROVE QuietInv'
  <2>1. refusals' = refusals + 1 /\ tables' = tables
    BY <1>13 DEF ServerFails
  <2>2. refusals' \in Nat /\ refusals' # 0
    BY <2>1 DEF QuietInv
  <2> QED
    BY <1>1, <2>1, <2>2 DEF QuietInv
<1> QED
  BY <1>1, <1>4, <1>6, <1>7, <1>8, <1>9, <1>10, <1>11, <1>12, <1>13, QuietAnswers, QuietDelivers
     DEF TrafficNext

(* An operator who waits for each answer, and whose calls do not fail, ends *)
(* with a page that is right and may activate again, for any profiles and   *)
(* any number of acts (handleApplyProfile and the loads that follow it).    *)
THEOREM QuietPageIsRight == TrafficSpec => []QuietTrafficIsRight
<1>1. TrafficInit => QuietInv
  <2> SUFFICES ASSUME TrafficInit PROVE QuietInv
    OBVIOUS
  <2>1. DiffInv
    BY DiffStarts
  <2>2. /\ bar = [profiles |-> network.profiles, active |-> network.active,
                  selected |-> CHOOSE p \in Factory : network.active \in {p, NoProfile}]
        /\ tables = [upload |-> 0, download |-> 0] /\ network.version = 0
        /\ pending = <<>> /\ refusals = 0 /\ ~applying
    BY DEF TrafficInit
  <2>3. BarRight /\ TablesRight
    BY <2>2 DEF BarRight, TablesRight
  <2> QED
    BY <2>1, <2>2, <2>3 DEF QuietInv, OneAtATime
<1>2. QuietInv => QuietTrafficIsRight
  <2> SUFFICES ASSUME QuietInv, pending = <<>>, ~overlapped, refusals = 0
               PROVE  /\ bar.profiles = network.profiles /\ bar.active = network.active
                      /\ tables = [upload |-> network.version, download |-> network.version]
                      /\ ~applying
    BY DEF QuietTrafficIsRight
  <2>1. BarRight /\ TablesRight /\ ~applying
    BY DEF QuietInv, OneAtATime
  <2> QED
    BY <2>1 DEF BarRight, TablesRight
<1> QED
  BY <1>1, <1>2, QuietSteps, PTL DEF TrafficSpec

-----------------------------------------------------------------------------
(* The screen answers what the controls ask, with every change made.        *)
ScreenRight ==
  /\ screen.q = asked /\ screen.seen = 1..data
  /\ view \in Following => screen.tenant = tenant

(* What one call on its way will make of the screen: a load brings all the  *)
(* controls ask, a change is followed by such a load or brings itself.      *)
WillBeRight(c) ==
  /\ c.kind \in Loads \cup Changes \cup {"boot"}
  /\ c.kind \in Loads => c.q = asked /\ c.tenant = tenant /\ (c.got # Pending => c.got = data)
  /\ c.kind = "boot" => asked = All
  /\ c.kind = "reload" => c.q = asked
  /\ c.kind = "install" =>
       c.q = asked /\ (c.got # Pending => c.got = data) /\ c.tenant = tenant
  /\ c.kind = "patch" =>
       /\ screen.q = asked /\ (view \in Following => screen.tenant = tenant)
       /\ IF c.got = Pending THEN screen.seen = 1..data ELSE screen.seen \cup {c.got} = 1..data
  /\ c.kind = "drop" => view = "tenants"

InFlightCall(c) == c = [kind |-> c.kind, tenant |-> c.tenant, q |-> c.q, got |-> c.got]

OneLoadAtATime ==
  \/ calls = <<>> /\ ScreenRight
  \/ \E c : calls = <<c>> /\ InFlightCall(c) /\ WillBeRight(c)

ViewInv ==
  /\ view \in Views /\ data \in Nat
  /\ \E t, q, s : screen = [tenant |-> t, q |-> q, seen |-> s]
  /\ calm /\ ~failed => OneLoadAtATime

(* What the rows say of the loads a change of company sends.                *)
LEMMA RowsFollow ==
  /\ view = "tenants" => row.follows = 0
  /\ view = "shell" => row.follows = 1
<1>1. view = "tenants" => row.follows = 0
  BY DEF row, RowOf, TenantsRow, Row
<1>2. view = "shell" => row.follows = 1
  BY DEF row, RowOf, ShellRow, Row
<1> QED
  BY <1>1, <1>2

(* None, or one, of a call.                                                 *)
LEMMA CopiesSent ==
  ASSUME NEW c
  PROVE  Copies(0, c) = <<>> /\ Copies(1, c) = <<c>> /\ <<>> \o <<c>> = <<c>>
<1>1. 1..0 = {} /\ 1..1 = {1}
  OBVIOUS
<1>2. Copies(0, c) = <<>>
  BY <1>1 DEF Copies
<1>3. Copies(1, c) = <<c>>
  BY <1>1 DEF Copies
<1>4. <<>> \o <<c>> = <<c>>
  OBVIOUS
<1> QED
  BY <1>2, <1>3, <1>4

(* A load that asks what the controls ask is right whatever the screen      *)
(* shows.                                                                   *)
LEMMA LoadWillBeRight ==
  ASSUME NEW kind \in Loads, NEW c, c = Call(kind, asked', tenant')
  PROVE  InFlightCall(c) /\ WillBeRight(c)'
<1>1. /\ c = [kind |-> kind, tenant |-> tenant', q |-> asked', got |-> Pending]
      /\ kind \notin {"boot", "reload", "install", "patch", "drop"}
  BY DEF Call, Loads
<1>2. c.kind = kind /\ c.tenant = tenant' /\ c.q = asked' /\ c.got = Pending
  BY <1>1
<1> QED
  BY <1>1, <1>2 DEF InFlightCall, WillBeRight

(* A reload with nothing on its way starts afresh; anything sent beside a   *)
(* call ends the calm.                                                      *)
LEMMA ReloadSent ==
  ASSUME ViewInv, NEW kind \in Loads, Overlaps(TRUE), calls' = calls \o <<Call(kind, asked', tenant')>>,
         UNCHANGED <<view, data, screen>>
  PROVE  ViewInv'
<1>1. PICK c : c = Call(kind, asked', tenant')
  OBVIOUS
<1>2. InFlightCall(c) /\ WillBeRight(c)'
  BY <1>1, LoadWillBeRight
<1>3. ASSUME calm' PROVE OneLoadAtATime'
  <2>1. calls = <<>>
    BY <1>3 DEF Overlaps
  <2>2. calls' = <<>> \o <<c>>
    BY <1>1, <2>1
  <2>3. calls' = <<c>>
    BY <2>2, CopiesSent, Zenon
  <2> QED
    BY <1>2, <2>3 DEF OneLoadAtATime
<1> QED
  BY <1>3 DEF ViewInv

(* A change, sent with nothing on its way, starts from a screen that is     *)
(* right.                                                                   *)
LEMMA ChangeSent ==
  ASSUME ViewInv, NEW kind \in Changes, kind = "drop" => view = "tenants", Overlaps(FALSE),
         calls' = calls \o <<Call(kind, asked, tenant)>>,
         UNCHANGED <<view, tenant, asked, data, screen>>
  PROVE  ViewInv'
<1>1. PICK c : c = Call(kind, asked, tenant)
  OBVIOUS
<1>2. /\ c = [kind |-> kind, tenant |-> tenant, q |-> asked, got |-> Pending]
      /\ c.kind = kind /\ c.tenant = tenant /\ c.q = asked /\ c.got = Pending
  BY <1>1 DEF Call
<1>3. ASSUME calm', ~failed' PROVE OneLoadAtATime'
  <2>1. calls = <<>> /\ calm /\ ~failed
    BY <1>3 DEF Overlaps
  <2>2. ScreenRight
    BY <2>1 DEF ViewInv, OneLoadAtATime
  <2>3. calls' = <<>> \o <<c>>
    BY <1>1, <2>1
  <2>4. calls' = <<c>>
    BY <2>3, CopiesSent, Zenon
  <2>5. kind \notin Loads /\ kind # "boot"
    BY DEF Loads, Changes
  <2>6. WillBeRight(c)'
    BY <1>2, <2>2, <2>5 DEF WillBeRight, ScreenRight
  <2> QED
    BY <1>2, <2>4, <2>6 DEF OneLoadAtATime, InFlightCall
<1> QED
  BY <1>3 DEF ViewInv

(* A view that is mounted with no deletion on its way asks for everything.  *)
LEMMA ViewMounted ==
  ASSUME ViewInv, NEW v \in Views, Navigate(v)
  PROVE  ViewInv'
<1>1. PICK left : /\ calls' = left \o MountCalls(v, 1, tenant) /\ calm' = (left = <<>>)
                  /\ view' = v /\ asked' = All /\ screen' = Blank
                  /\ tenant' = tenant /\ data' = data
  BY DEF Navigate
<1>2. PICK kind \in {"load", "boot"} :
        MountCalls(v, 1, tenant) = Copies(1, Call(kind, All, tenant))
  BY DEF MountCalls
<1>3. PICK c : c = Call(kind, All, tenant)
  OBVIOUS
<1>4. /\ c = [kind |-> kind, tenant |-> tenant, q |-> All, got |-> Pending]
      /\ c.kind = kind /\ c.tenant = tenant /\ c.q = All /\ c.got = Pending
  BY <1>3 DEF Call
<1>5. ASSUME calm' PROVE OneLoadAtATime'
  <2>1. left = <<>>
    BY <1>1, <1>5
  <2>2. calls' = <<>> \o <<c>>
    BY <1>1, <1>2, <1>3, <2>1, CopiesSent, Zenon
  <2>3. calls' = <<c>>
    BY <2>2
  <2>4. WillBeRight(c)'
    BY <1>1, <1>4 DEF WillBeRight, Loads
  <2> QED
    BY <1>4, <2>3, <2>4 DEF OneLoadAtATime, InFlightCall
<1>6. \E t, q, s : screen' = [tenant |-> t, q |-> q, seen |-> s]
  BY <1>1 DEF Blank
<1> QED
  BY <1>1, <1>5, <1>6 DEF ViewInv

(* Another company: the shell loads for it, the list of companies does not  *)
(* depend on it.                                                            *)
LEMMA TenantSwitched ==
  ASSUME ViewInv, NEW t, SwitchTenant(t)
  PROVE  ViewInv'
<1>1. /\ tenant' = t /\ calls' = calls \o FollowLoads(t) /\ Overlaps(row.follows > 0)
      /\ UNCHANGED <<view, asked, data, screen>>
  BY DEF SwitchTenant, Sends
<1>2. CASE view = "shell"
  <2>1. row.follows = 1
    BY <1>2, RowsFollow
  <2>2. Overlaps(TRUE)
    BY <1>1, <2>1 DEF Overlaps
  <2>3. PICK c : c = Call("load", asked', tenant')
    OBVIOUS
  <2>4. FollowLoads(t) = <<c>>
    BY <1>1, <2>1, <2>3, CopiesSent DEF FollowLoads
  <2>5. calls' = calls \o <<Call("load", asked', tenant')>>
    BY <1>1, <2>3, <2>4
  <2> QED
    BY <1>1, <2>2, <2>5, ReloadSent DEF Loads
<1>3. CASE view = "tenants"
  <2>1. row.follows = 0
    BY <1>3, RowsFollow
  <2>2. FollowLoads(t) = <<>>
    BY <2>1, CopiesSent DEF FollowLoads
  <2>3. ASSUME calm', ~failed' PROVE OneLoadAtATime'
    <3>0. (row.follows > 0) = FALSE
      BY <2>1
    <3>1. calls = <<>> /\ calm /\ ~failed
      <4>1. Overlaps(FALSE)
        BY <1>1, <3>0, Zenon
      <4> QED
        BY <2>3, <4>1 DEF Overlaps
    <3>2. calls' = <<>>
      BY <1>1, <2>2, <3>1
    <3>3. ScreenRight
      BY <3>1 DEF ViewInv, OneLoadAtATime
    <3>4. ScreenRight'
      BY <1>1, <1>3, <3>3 DEF ScreenRight, Following
    <3> QED
      BY <3>2, <3>4 DEF OneLoadAtATime
  <2> QED
    BY <1>1, <2>3 DEF ViewInv
<1> QED
  BY <1>2, <1>3 DEF SwitchTenant

(* The server answers the one call on its way.                              *)
LEMMA ViewAnswered ==
  ASSUME ViewInv, NEW i, Answer(i)
  PROVE  ViewInv'
<1>1. UNCHANGED <<view, tenant, asked, screen, calm, failed>>
  BY DEF Answer
<1>2. data \in Nat /\ data' \in Nat
  BY DEF Answer, ViewInv
<1>3. ASSUME calm, ~failed PROVE OneLoadAtATime'
  <2>1. PICK c : calls = <<c>> /\ InFlightCall(c) /\ WillBeRight(c) /\ i = 1
    <3>1. i \in DOMAIN calls
      BY DEF Answer
    <3> QED
      BY <1>3, <3>1 DEF ViewInv, OneLoadAtATime
  <2>2. /\ c.got = Pending /\ data' = IF c.kind \in Changes THEN data + 1 ELSE data
        /\ calls' = [calls EXCEPT ![1] = [c EXCEPT !.got = data']]
    BY <2>1 DEF Answer
  <2>3. PICK d : d = [c EXCEPT !.got = data']
    OBVIOUS
  <2>4. d = [kind |-> c.kind, tenant |-> c.tenant, q |-> c.q, got |-> data']
    BY <2>1, <2>3 DEF InFlightCall
  <2>5. /\ d.kind = c.kind /\ d.tenant = c.tenant /\ d.q = c.q /\ d.got = data'
        /\ InFlightCall(d)
    BY <2>4 DEF InFlightCall
  <2>6. calls' = <<d>>
    BY <2>1, <2>2, <2>3
  <2>7. data' # Pending
    BY <1>2 DEF Pending
  <2>8. c.kind = "patch" => screen.seen \cup {data'} = 1..data'
    <3> SUFFICES ASSUME c.kind = "patch" PROVE screen.seen \cup {data'} = 1..data'
      OBVIOUS
    <3>1. screen.seen = 1..data /\ data' = data + 1
      BY <2>1, <2>2 DEF WillBeRight, Changes
    <3> QED
      BY <1>2, <3>1
  <2>9. c.kind \in Loads \/ c.kind = "install" \/ c.kind \notin Loads
    OBVIOUS
  <2>10. WillBeRight(d)'
    BY <1>1, <2>1, <2>5, <2>7, <2>8 DEF WillBeRight
  <2> QED
    BY <2>5, <2>6, <2>10 DEF OneLoadAtATime
<1> QED
  BY <1>1, <1>2, <1>3 DEF ViewInv

(* The view handles the answer to the one call on its way.                  *)
LEMMA ViewDelivered ==
  ASSUME ViewInv, NEW i, Delivers(i)
  PROVE  ViewInv'
<1>1. /\ UNCHANGED <<view, asked, data, failed>> /\ (calm' => calm) /\ i \in DOMAIN calls
  <2>1. CASE DeliverLoad(i)
    BY <2>1 DEF DeliverLoad, Answered
  <2>2. CASE DeliverBoot(i)
    <3>1. calm' = (calm /\ Len(calls) = 1)
      BY <2>2 DEF DeliverBoot
    <3>2. calm' => calm
      BY <3>1
    <3> QED
      BY <2>2, <3>2 DEF DeliverBoot, Answered
  <2>3. CASE DeliverChange(i)
    BY <2>3 DEF DeliverChange, Answered
  <2>4. CASE DeliverDrop(i)
    BY <2>4 DEF DeliverDrop, Answered
  <2> QED
    BY <2>1, <2>2, <2>3, <2>4 DEF Delivers
<1>2. \E t, q, s : screen' = [tenant |-> t, q |-> q, seen |-> s]
  <2>1. PICK t, q, s : screen = [tenant |-> t, q |-> q, seen |-> s]
    BY DEF ViewInv
  <2>2. PICK c : c = calls[i]
    OBVIOUS
  <2>3. screen' \in {screen, Shows(c), [screen EXCEPT !.seen = @ \cup {c.got}]}
    BY <2>2 DEF Delivers, DeliverLoad, DeliverBoot, DeliverChange, DeliverDrop
  <2>4. [screen EXCEPT !.seen = @ \cup {c.got}] = [tenant |-> t, q |-> q, seen |-> s \cup {c.got}]
    BY <2>1
  <2> QED
    BY <2>1, <2>3, <2>4 DEF Shows
<1>3. ASSUME calm', ~failed PROVE OneLoadAtATime'
  <2>1. PICK c : calls = <<c>> /\ InFlightCall(c) /\ WillBeRight(c) /\ i = 1
    BY <1>1, <1>3 DEF ViewInv, OneLoadAtATime
  <2>2. RemoveAt(calls, i) = <<>> /\ calls[i] = c
    BY <2>1, OnlyOneRemoved
  <2>3. CASE DeliverLoad(i)
    <3>1. /\ c.kind \in Loads /\ c.got # Pending /\ tenant' = tenant
          /\ screen' = [tenant |-> c.tenant, q |-> c.q, seen |-> 1..c.got] /\ calls' = <<>>
      BY <2>2, <2>3 DEF DeliverLoad, Answered, Shows
    <3>2. c.q = asked /\ c.tenant = tenant /\ c.got = data
      BY <2>1, <3>1 DEF WillBeRight
    <3>3. ScreenRight'
      BY <1>1, <3>1, <3>2 DEF ScreenRight
    <3> QED
      BY <3>1, <3>3 DEF OneLoadAtATime
  <2>4. CASE DeliverBoot(i)
    <3>1. PICK d : d = Call("load", asked', tenant')
      OBVIOUS
    <3>2. /\ c.kind = "boot" /\ tenant' = tenant
          /\ calls' = Append(<<>>, Call("load", All, tenant))
      BY <2>2, <2>4 DEF DeliverBoot, Answered, LoadAll
    <3>3. asked' = All
      BY <1>1, <2>1, <3>2 DEF WillBeRight
    <3>4. calls' = <<d>>
      BY <3>1, <3>2, <3>3
    <3> QED
      BY <3>1, <3>4, LoadWillBeRight DEF OneLoadAtATime, Loads
  <2>5. CASE DeliverChange(i)
    <3>1. /\ c.kind \in {"reload", "install", "patch"} /\ c.got # Pending /\ tenant' = tenant
          /\ calls' = <<>> \o (IF c.kind = "reload" THEN <<Call("load", c.q, tenant)>> ELSE <<>>)
          /\ screen' = CASE c.kind = "install" -> Shows(c)
                         [] c.kind = "patch"   -> [screen EXCEPT !.seen = @ \cup {c.got}]
                         [] OTHER              -> screen
      BY <2>2, <2>5 DEF DeliverChange, Answered
    <3>0. tenant' = tenant
      BY <2>5 DEF DeliverChange
    <3>2. CASE c.kind = "reload"
      <4>1. PICK d : d = Call("load", asked', tenant')
        OBVIOUS
      <4>2. c.q = asked'
        BY <1>1, <2>1, <3>2 DEF WillBeRight
      <4>3. calls' = <<>> \o <<d>>
        BY <3>1, <3>2, <4>1, <4>2
      <4>4. calls' = <<d>>
        BY <4>3, CopiesSent, Zenon
      <4> QED
        BY <4>1, <4>4, LoadWillBeRight DEF OneLoadAtATime, Loads
    <3>3. CASE c.kind = "install"
      <4>1. calls' = <<>> /\ screen' = [tenant |-> c.tenant, q |-> c.q, seen |-> 1..c.got]
        BY <3>1, <3>3 DEF Shows
      <4>2. c.q = asked /\ c.tenant = tenant /\ c.got = data
        BY <2>1, <3>1, <3>3 DEF WillBeRight
      <4>3. ScreenRight'
        BY <1>1, <3>0, <4>1, <4>2 DEF ScreenRight
      <4> QED
        BY <4>1, <4>3 DEF OneLoadAtATime
    <3>4. CASE c.kind = "patch"
      <4>1. calls' = <<>> /\ screen' = [screen EXCEPT !.seen = @ \cup {c.got}]
        BY <3>1, <3>4
      <4>2. PICK t, q, s : screen = [tenant |-> t, q |-> q, seen |-> s]
        BY DEF ViewInv
      <4>3. screen' = [tenant |-> t, q |-> q, seen |-> s \cup {c.got}]
        BY <4>1, <4>2
      <4>4. q = asked /\ (view \in Following => t = tenant) /\ s \cup {c.got} = 1..data
        BY <2>1, <3>1, <3>4, <4>2 DEF WillBeRight
      <4>5. ScreenRight'
        BY <1>1, <3>0, <4>3, <4>4 DEF ScreenRight
      <4> QED
        BY <4>1, <4>5 DEF OneLoadAtATime
    <3> QED
      BY <3>1, <3>2, <3>3, <3>4
  <2>6. CASE DeliverDrop(i)
    <3>1. c.kind = "drop"
      BY <2>2, <2>6 DEF DeliverDrop, Answered
    <3>2. view = "tenants"
      BY <2>1, <3>1 DEF WillBeRight
    <3>3. PICK d : d = Call("load", asked', tenant')
      OBVIOUS
    <3>4. tenant' = Everyone /\ calls' = <<>> \o <<d>> \o FollowLoads(Everyone)
      BY <1>1, <2>2, <2>6, <3>2, <3>3 DEF DeliverDrop
    <3>5. FollowLoads(Everyone) = <<>>
      BY <3>2, RowsFollow, CopiesSent DEF FollowLoads
    <3>6. calls' = <<d>>
      <4>1. calls' = <<d>> \o <<>>
        BY <3>4, <3>5, CopiesSent, Zenon
      <4>2. <<d>> \o <<>> = <<d>>
        OBVIOUS
      <4> QED
        BY <4>1, <4>2
    <3> QED
      BY <3>3, <3>6, LoadWillBeRight DEF OneLoadAtATime, Loads
  <2> QED
    BY <2>3, <2>4, <2>5, <2>6 DEF Delivers
<1> QED
  BY <1>1, <1>2, <1>3 DEF ViewInv

(* Every step of the view, of its user and of the server keeps it so.       *)
LEMMA ViewSteps == ViewInv /\ [ViewsNext]_viewVars => ViewInv'
<1> SUFFICES ASSUME ViewInv, [ViewsNext]_viewVars PROVE ViewInv'
  OBVIOUS
<1>1. CASE UNCHANGED viewVars
  BY <1>1 DEF viewVars, ViewInv, OneLoadAtATime, ScreenRight, WillBeRight
<1>2. ASSUME NEW q \in Questions, Ask(q) PROVE ViewInv'
  <2>1. Overlaps(TRUE) /\ calls' = calls \o <<Call("load", asked', tenant')>>
    BY <1>2 DEF Ask, Sends
  <2> QED
    BY <1>2, <2>1, ReloadSent DEF Ask, Loads
<1>3. CASE Refresh
  <2>1. PICK kind \in Loads : calls' = calls \o <<Call(kind, asked', tenant')>>
    BY <1>3 DEF Refresh, Sends, Loads
  <2> QED
    BY <1>3, <2>1, ReloadSent DEF Refresh
<1>4. CASE Tick
  <2>1. calls' = calls \o <<Call("load", asked', tenant')>>
    BY <1>4, AppendIsConcat DEF Tick
  <2> QED
    BY <1>4, <2>1, ReloadSent DEF Tick, Loads
<1>5. ASSUME NEW kind \in {"reload", "install", "patch"}, Save(kind) PROVE ViewInv'
  BY <1>5, ChangeSent DEF Save, Sends, Changes
<1>6. CASE DropActive
  BY <1>6, ChangeSent DEF DropActive, Sends, Changes
<1>7. ASSUME NEW i, Fails(i) PROVE ViewInv'
  <2>1. failed' = TRUE /\ UNCHANGED <<view, data>> /\ screen' \in {screen, Blank}
    BY <1>7 DEF Fails, FailLoad, FailLoose, FailBoot, FailChange, Loses
  <2>2. \E t, q, s : screen' = [tenant |-> t, q |-> q, seen |-> s]
    BY <2>1 DEF ViewInv, Blank
  <2> QED
    BY <2>1, <2>2 DEF ViewInv
<1> QED
  BY <1>1, <1>2, <1>3, <1>4, <1>5, <1>6, <1>7, ViewMounted, TenantSwitched, ViewAnswered,
     ViewDelivered DEF ViewsNext

(* A user whose calls neither overlap nor fail is shown the answer to what  *)
(* the controls say, in each of the fifteen views, for any companies,       *)
(* questions and number of acts (the effects and handlers of the views).    *)
THEOREM QuietUseShowsTheAnswer == ViewsSpec => []QuietUseIsRight
<1>1. ViewsInit => ViewInv
  <2> SUFFICES ASSUME ViewsInit PROVE ViewInv
    OBVIOUS
  <2>1. PICK times \in 1..2 : calls = MountCalls(view, times, tenant) /\ calm = (times = 1)
    BY DEF ViewsInit
  <2>2. view \in Views /\ data = 0 /\ asked = All /\ screen = Blank
    BY DEF ViewsInit
  <2>3. PICK kind \in {"load", "boot"} :
          MountCalls(view, times, tenant) = Copies(times, Call(kind, All, tenant))
    BY DEF MountCalls
  <2>4. PICK c : c = Call(kind, All, tenant)
    OBVIOUS
  <2>5. ASSUME calm PROVE OneLoadAtATime
    <3>1. times = 1
      BY <2>1, <2>5
    <3>2. calls = <<c>>
      BY <2>1, <2>3, <2>4, <3>1, CopiesSent, Zenon
    <3>3. /\ c = [kind |-> kind, tenant |-> tenant, q |-> All, got |-> Pending]
          /\ c.kind = kind /\ c.tenant = tenant /\ c.q = All /\ c.got = Pending
      BY <2>4 DEF Call
    <3>4. WillBeRight(c)
      BY <2>2, <3>3 DEF WillBeRight, Loads
    <3> QED
      BY <3>2, <3>3, <3>4 DEF OneLoadAtATime, InFlightCall
  <2> QED
    BY <2>2, <2>5 DEF ViewInv, Blank
<1>2. ViewInv => QuietUseIsRight
  <2> SUFFICES ASSUME ViewInv, calls = <<>>, calm, ~failed PROVE ScreenRight
    BY DEF QuietUseIsRight, ScreenRight
  <2> QED
    BY DEF ViewInv, OneLoadAtATime
<1> QED
  BY <1>1, <1>2, ViewSteps, PTL DEF ViewsSpec

-----------------------------------------------------------------------------
(* The list is finite, and an alert of it stands at one of its places.      *)
LEMMA PlacesInTheList ==
  /\ IsFiniteSet(Filtered) /\ Cardinality(Filtered) \in Nat
  /\ \A a \in Filtered : Place(a) \in 1..Cardinality(Filtered)
<1>1. IsFiniteSet(Filtered) /\ Cardinality(Filtered) \in Nat
  <2>1. Filtered \in SUBSET Alerts
    BY DEF Filtered
  <2> QED
    BY <2>1, LogAssumption, FS_Subset, FS_CardinalityType
<1>2. ASSUME NEW a \in Filtered PROVE Place(a) \in 1..Cardinality(Filtered)
  <2> DEFINE S == {x \in Filtered : x >= a}
  <2>1. S \in SUBSET Filtered /\ a \in S
    BY LogAssumption DEF Filtered
  <2>2. IsFiniteSet(S) /\ Cardinality(S) <= Cardinality(Filtered) /\ Cardinality(S) \in Nat
    BY <1>1, <2>1, FS_Subset, FS_CardinalityType
  <2>3. Cardinality(S) # 0
    BY <2>1, <2>2, FS_EmptySet
  <2>4. Place(a) = Cardinality(S)
    BY DEF Place
  <2> HIDE DEF S
  <2> QED
    BY <1>1, <2>2, <2>3, <2>4
<1> QED
  BY <1>1, <1>2

(* Of two alerts the newer one stands before the other.                     *)
LEMMA NewerStandsBefore ==
  ASSUME NEW a \in Filtered, NEW b \in Filtered, a < b
  PROVE  Place(b) < Place(a)
<1> DEFINE A == {x \in Filtered : x >= a}
           B == {x \in Filtered : x >= b}
<1>1. A \in SUBSET Filtered /\ B \in SUBSET A /\ a \in A /\ a \notin B
  <2>1. Filtered \subseteq Nat
    BY LogAssumption DEF Filtered
  <2>2. \A x \in Filtered : x >= b => x >= a
    BY <2>1
  <2>3. a >= a /\ ~(a >= b)
    BY <2>1
  <2> QED
    BY <2>2, <2>3
<1>2. IsFiniteSet(A) /\ Cardinality(A) \in Nat
  BY <1>1, PlacesInTheList, FS_Subset, FS_CardinalityType
<1>3. Cardinality(B) \in Nat /\ Cardinality(B) <= Cardinality(A) /\ Cardinality(A) # Cardinality(B)
  BY <1>1, <1>2, FS_Subset, FS_CardinalityType
<1>4. Place(a) = Cardinality(A) /\ Place(b) = Cardinality(B)
  BY DEF Place
<1> HIDE DEF A, B
<1> QED
  BY <1>2, <1>3, <1>4

(* No place of the list is empty: as many alerts as places, none shared.    *)
LEMMA EveryPlaceIsTaken ==
  ASSUME NEW p \in 1..Cardinality(Filtered)
  PROVE  \E a \in Filtered : Place(a) = p
<1> DEFINE n == Cardinality(Filtered)
           place == [a \in Filtered |-> Place(a)]
<1>1. n \in Nat /\ IsFiniteSet(Filtered) /\ place \in [Filtered -> 1..n]
  BY PlacesInTheList
<1>2. ASSUME NEW a \in Filtered, NEW b \in Filtered, place[a] = place[b] PROVE a = b
  <2>1. a \in Nat /\ b \in Nat
    BY LogAssumption DEF Filtered
  <2>2. Place(a) \in Nat /\ Place(b) \in Nat /\ Place(a) = Place(b)
    BY <1>2, PlacesInTheList
  <2>3. ~(a < b) /\ ~(b < a)
    BY <2>2, NewerStandsBefore
  <2> QED
    BY <2>1, <2>3
<1>. \A a \in Filtered : place[a] = Place(a)
  OBVIOUS
<1> HIDE DEF place
<1>3. place \in Injection(Filtered, 1..n)
  BY <1>1, <1>2, Fun_IsInj
<1>4. IsFiniteSet(1..n) /\ Cardinality(1..n) = Cardinality(Filtered)
  BY <1>1, FS_Interval
<1>5. place \in Surjection(Filtered, 1..n)
  BY <1>3, <1>4, FS_Injection
<1>6. \A t \in 1..n : \E a \in Filtered : place[a] = t
  BY <1>5, Fun_SurjectionProperties, Zenon
<1> QED
  BY <1>6

(* The page drawn is one of the pages there are.                            *)
LEMMA DrawnPageExists ==
  ASSUME pageSize \in Nat \ {0}, currentPage \in Nat
  PROVE  /\ TotalPages \in Nat \ {0} /\ SafePage \in 1..TotalPages
         /\ Filtered # {} =>
              (SafePage - 1) * pageSize + 1 \in 1..Cardinality(Filtered)
<1> DEFINE n == Cardinality(Filtered)
           full == (n + pageSize - 1) \div pageSize
<1>1. n \in Nat /\ (Filtered # {} => n # 0)
  BY PlacesInTheList, FS_EmptySet
<1>2. full \in Nat /\ full * pageSize <= n + pageSize - 1 /\ (n # 0 => full >= 1)
  <2> HIDE DEF n
  <2>1. n + pageSize - 1 \in Nat
    BY <1>1
  <2>2. full \in Int /\ full * pageSize <= n + pageSize - 1
        /\ n + pageSize - 1 < full * pageSize + pageSize
    BY <2>1
  <2>3. full >= 0
    BY <2>1, <2>2
  <2>4. n # 0 => full >= 1
    BY <1>1, <2>2, <2>3
  <2> QED
    BY <2>2, <2>3, <2>4
<1>3. TotalPages = IF 1 > full THEN 1 ELSE full
  BY DEF TotalPages, Larger
<1> HIDE DEF n, full
<1>4. TotalPages \in Nat \ {0} /\ SafePage \in 1..TotalPages
  BY <1>2, <1>3 DEF SafePage, Smaller, Larger
<1>5. ASSUME Filtered # {} PROVE (SafePage - 1) * pageSize + 1 \in 1..n
  <2>1. SafePage \in Nat /\ 1 <= SafePage /\ SafePage <= full
    BY <1>1, <1>2, <1>3, <1>4, <1>5
  <2>2. (SafePage - 1) * pageSize <= (full - 1) * pageSize /\ (SafePage - 1) * pageSize \in Nat
    BY <1>2, <2>1
  <2>3. (full - 1) * pageSize = full * pageSize - pageSize
    BY <1>2
  <2> QED
    BY <1>1, <1>2, <2>2, <2>3
<1> QED
  BY <1>4, <1>5 DEF n

(* The buttons turn to natural pages.                                       *)
LEMMA ButtonsTyped ==
  ASSUME pageSize \in Nat \ {0}, currentPage \in Nat
  PROVE  Buttons \subseteq Nat
BY DrawnPageExists DEF Buttons, Smaller, Larger

(* The controls of the list, and the calls sent for it, keep their types.   *)
THEOREM LogTypeCorrect == LogSpec => []LogTypeOK
<1>1. LogInit => LogTypeOK
  <2> SUFFICES ASSUME LogInit PROVE LogTypeOK
    OBVIOUS
  <2>1. server \in [Alerts -> AlertStates] /\ alertsListed \in [Alerts -> AlertStates]
    BY DEF LogInit, AlertStates
  <2>2. askedOf \in [Batches -> SUBSET Alerts]
    BY DEF LogInit
  <2>3. busyBatch \in 0..MaxBatches
    BY LogAssumption DEF LogInit
  <2> QED
    BY <2>1, <2>2, <2>3 DEF LogInit, LogTypeOK, Filters
<1>2. LogTypeOK /\ [LogNext]_logVars => LogTypeOK'
  <2> SUFFICES ASSUME LogTypeOK, [LogNext]_logVars PROVE LogTypeOK'
    OBVIOUS
  <2> USE DEF ControlsUnchanged, DrawnUnchanged, ChoosesInList
  <2>1. ASSUME NEW f \in Filters, ChooseFilter(f) PROVE LogTypeOK'
    BY <2>1 DEF ChooseFilter, LogTypeOK
  <2>2. CASE ChangeSearch
    BY <2>2 DEF ChangeSearch, LogTypeOK
  <2>3. ASSUME NEW n \in PageSizes, ChooseSize(n) PROVE LogTypeOK'
    BY <2>3 DEF ChooseSize, LogTypeOK
  <2>4. ASSUME NEW p \in Buttons, TurnPage(p) PROVE LogTypeOK'
    <3>1. pageSize \in Nat \ {0} /\ currentPage \in Nat
      BY LogAssumption DEF LogTypeOK
    <3>2. p \in Nat
      BY <3>1, <2>4, ButtonsTyped
    <3> QED
      BY <2>4, <3>2 DEF TurnPage, LogTypeOK
  <2>5. ASSUME NEW b \in Batches, AcknowledgePage(b) PROVE LogTypeOK'
    <3>1. ActiveOnPage \subseteq Alerts
      BY DEF ActiveOnPage, PageDrawn, Filtered
    <3>2. {<<b, a>> : a \in ActiveOnPage} \subseteq Batches \X Alerts
      BY <3>1
    <3>3. b \in 0..MaxBatches
      BY LogAssumption DEF Batches
    <3> QED
      BY <2>5, <3>1, <3>2, <3>3 DEF AcknowledgePage, LogTypeOK
  <2>6. ASSUME NEW b \in Batches, NEW a \in Alerts, AckAnswered(b, a) PROVE LogTypeOK'
    <3>1. ServerAck(a) \in [Alerts -> AlertStates]
      BY DEF ServerAck, LogTypeOK, AlertStates
    <3>2. 0 \in 0..MaxBatches
      BY LogAssumption
    <3>3. server' \in [Alerts -> AlertStates] /\ alertsListed' \in {alertsListed, server'}
          /\ busyBatch' \in {busyBatch, 0}
      BY <2>6, <3>1 DEF AckAnswered
    <3> QED
      BY <2>6, <3>2, <3>3 DEF AckAnswered, LogTypeOK
  <2>7. ASSUME NEW b \in Batches, NEW a \in Alerts, AckLost(b, a) PROVE LogTypeOK'
    <3>1. 0 \in 0..MaxBatches
      BY LogAssumption
    <3> QED
      BY <2>7, <3>1 DEF AckLost, CallsLeft, LogTypeOK
  <2>8. ASSUME NEW a \in Alerts, ServerChanges(a) PROVE LogTypeOK'
    BY <2>8 DEF ServerChanges, LogTypeOK, AlertStates
  <2>9. CASE ReadLog
    BY <2>9 DEF ReadLog, LogTypeOK
  <2>10. CASE UNCHANGED logVars
    BY <2>10 DEF logVars, LogTypeOK
  <2> QED
    BY <2>1, <2>2, <2>3, <2>4, <2>5, <2>6, <2>7, <2>8, <2>9, <2>10 DEF LogNext
<1> QED
  BY <1>1, <1>2, PTL DEF LogSpec

(* However the list shrinks under the page the user is on, the page drawn   *)
(* has rows as long as the list has any, for any alerts and page sizes      *)
(* (safeCurrentPage of TelemetryView).                                      *)
THEOREM PagesAreNeverEmpty == LogSpec => []PagesShowTheList
<1>1. LogTypeOK => PagesShowTheList
  <2> SUFFICES ASSUME LogTypeOK, Filtered # {} PROVE PageDrawn # {}
    BY DEF PagesShowTheList
  <2>1. pageSize \in Nat \ {0} /\ currentPage \in Nat
    BY LogAssumption DEF LogTypeOK
  <2>2. PICK a \in Filtered : Place(a) = (SafePage - 1) * pageSize + 1
    BY <2>1, DrawnPageExists, EveryPlaceIsTaken
  <2>3. SafePage \in Nat
    BY <2>1, DrawnPageExists
  <2>4. (SafePage - 1) * pageSize + pageSize = SafePage * pageSize /\ (SafePage - 1) * pageSize \in Int
    BY <2>1, <2>3
  <2>5. Place(a) \in (SafePage - 1) * pageSize + 1 .. SafePage * pageSize
    BY <2>1, <2>2, <2>3, <2>4
  <2> QED
    BY <2>5 DEF PageDrawn
<1> QED
  BY <1>1, LogTypeCorrect, PTL

(* The places of a page, and the pages that hold n places.                  *)
InPage(p, k, size) == k \in (p - 1) * size + 1 .. p * size

Enough(full, n, size) == full \in Int /\ n + size - 1 < full * size + size

(* Whether a page of the list shows an alert.                               *)
OnPage(p, a) == InPage(p, Place(a), pageSize)

(* Every alert of the list is on one page, the page drawn shows those that  *)
(* are on it, and from there the buttons lead to the pages beside it.       *)
EveryAlertHasItsPage ==
  /\ \A a \in Filtered :
       \E p \in 1..TotalPages : OnPage(p, a) /\ \A q \in 1..TotalPages : OnPage(q, a) => q = p
  /\ SafePage \in 1..TotalPages /\ PageDrawn = {a \in Filtered : OnPage(SafePage, a)}
  /\ {SafePage - 1, SafePage + 1} \cap 1..TotalPages \subseteq Buttons

(* A place of a list that is cut in pages is on one of them.                *)
LEMMA PlacesAreCut ==
  ASSUME NEW size \in Nat \ {0}, NEW n \in Nat, NEW k \in 1..n, NEW full, Enough(full, n, size)
  PROVE  \E p \in 1..full : InPage(p, k, size) /\ \A q \in Nat : InPage(q, k, size) => q = p
<1>e. full \in Int /\ n + size - 1 < full * size + size
  BY DEF Enough
<1> DEFINE d == (k - 1) \div size
<1>1. d \in Int /\ d * size <= k - 1 /\ k - 1 < d * size + size
  OBVIOUS
<1> HIDE DEF d
<1>2. d >= 0
  BY <1>1
<1>3. d < full
  <2>1. d * size < full * size
    BY <1>1, <1>e
  <2> QED
    BY <1>1, <1>e, <2>1
<1>4. (d + 1) * size = d * size + size /\ (d + 1) - 1 = d
  BY <1>1
<1>5. d + 1 \in 1..full /\ InPage(d + 1, k, size)
  BY <1>1, <1>2, <1>3, <1>4, <1>e DEF InPage
<1>6. ASSUME NEW q \in Nat, InPage(q, k, size) PROVE q = d + 1
  <2>1. (q - 1) * size = q * size - size
    OBVIOUS
  <2>2. k >= (q - 1) * size + 1 /\ k <= q * size
    BY <1>6 DEF InPage
  <2>3. (q - 1) * size < (d + 1) * size /\ d * size < q * size
    BY <1>1, <1>4, <2>1, <2>2
  <2>4. q - 1 < d + 1 /\ d < q
    BY <1>1, <2>3
  <2> QED
    BY <1>1, <2>4
<1> QED
  BY <1>5, <1>6

(* However the list shrinks and is filtered, no alert is left out by the    *)
(* pages or shown by two of them, and every page can be turned to.          *)
THEOREM PagesSplitTheList == LogSpec => []EveryAlertHasItsPage
<1>1. LogTypeOK => EveryAlertHasItsPage
  <2> SUFFICES ASSUME LogTypeOK PROVE EveryAlertHasItsPage
    OBVIOUS
  <2> DEFINE n == Cardinality(Filtered)
             full == (n + pageSize - 1) \div pageSize
  <2>1. pageSize \in Nat \ {0} /\ currentPage \in Nat /\ n \in Nat
    BY LogAssumption, PlacesInTheList DEF LogTypeOK
  <2>2. SafePage \in 1..TotalPages /\ TotalPages \in Nat \ {0}
    BY <2>1, DrawnPageExists
  <2>3. Enough(full, n, pageSize)
    <3> HIDE DEF n
    <3> QED
      BY <2>1 DEF Enough
  <2>4. TotalPages = IF 1 > full THEN 1 ELSE full
    BY DEF TotalPages, Larger
  <2>5. ASSUME NEW a \in Filtered
        PROVE  \E p \in 1..TotalPages : OnPage(p, a) /\ \A q \in 1..TotalPages : OnPage(q, a) => q = p
    <3> HIDE DEF n, full
    <3>1. Place(a) \in 1..n
      BY PlacesInTheList DEF n
    <3>2. PICK p \in 1..full : /\ InPage(p, Place(a), pageSize)
                               /\ \A q \in Nat : InPage(q, Place(a), pageSize) => q = p
      BY <2>1, <2>3, <3>1, PlacesAreCut
    <3>3. p \in 1..TotalPages
      BY <2>3, <2>4 DEF Enough
    <3>4. \A q \in 1..TotalPages : q \in Nat
      BY <2>2
    <3> QED
      BY <3>2, <3>3, <3>4 DEF OnPage
  <2>6. PageDrawn = {a \in Filtered : OnPage(SafePage, a)}
    BY DEF PageDrawn, OnPage, InPage
  <2>7. ASSUME NEW p \in {SafePage - 1, SafePage + 1}, p \in 1..TotalPages PROVE p \in Buttons
    <3>1. TotalPages > 1
      BY <2>2, <2>7
    <3>2. p \in SafePage - 1 .. SafePage + 1
      BY <2>2, <2>7
    <3>3. p \in {x \in 1..TotalPages : x \in {1, TotalPages} \cup SafePage - 1 .. SafePage + 1}
      BY <2>7, <3>2
    <3> QED
      BY <3>1, <3>3 DEF Buttons
  <2> QED
    BY <2>2, <2>5, <2>6, <2>7 DEF EveryAlertHasItsPage
<1> QED
  BY <1>1, LogTypeCorrect, PTL

-----------------------------------------------------------------------------
(* A screen without its last line.                                          *)
LEMMA FrontOfSeq ==
  ASSUME NEW S, NEW s \in Seq(S), s # <<>>
  PROVE  /\ Front(s) \in Seq(S) /\ Len(Front(s)) = Len(s) - 1
         /\ \A k \in 1..(Len(s) - 1) : Front(s)[k] = s[k]
<1>1. Len(s) \in Nat \ {0} /\ \A k \in 1..(Len(s) - 1) : s[k] \in S
  BY EmptySeq, ElementOfSeq
<1>2. /\ SubSeq(s, 1, Len(s) - 1) \in Seq(S)
      /\ Len(SubSeq(s, 1, Len(s) - 1)) = IF 1 <= Len(s) - 1 THEN Len(s) - 1 - 1 + 1 ELSE 0
      /\ \A k \in 1..(Len(s) - 1 - 1 + 1) : SubSeq(s, 1, Len(s) - 1)[k] = s[1 + k - 1]
  BY <1>1, SubSeqProperties
<1>3. \A k \in 1..(Len(s) - 1) : k \in 1..(Len(s) - 1 - 1 + 1) /\ 1 + k - 1 = k
  BY <1>1
<1>4. ASSUME NEW n \in Nat \ {0} PROVE (IF 1 <= n - 1 THEN n - 1 - 1 + 1 ELSE 0) = n - 1
  OBVIOUS
<1>5. \A k \in 1..(Len(s) - 1) : SubSeq(s, 1, Len(s) - 1)[k] = s[k]
  BY <1>2, <1>3
<1> QED
  BY <1>1, <1>2, <1>4, <1>5 DEF Front

ToolCommand == [run : 1..MaxToolActs, target : Hosts]

TerminalLine ==
  [what : {"prompt", "notice", "output", "error"}, run : 1..MaxToolActs, target : Hosts]

(* Each command counts as an act, so the numbers of the runs suffice; a     *)
(* ping is under way on the ping tool only.                                 *)
ToolsTyped ==
  /\ ToolsTypeOK /\ OneTimerWhileContinuous
  /\ toolActs \in 0..MaxToolActs /\ runs \in 0..toolActs
  /\ tool # "ping" => pings = 0

(* The tools, their timer and their answers keep their types.               *)
LEMMA ToolsStayTyped == ToolsTyped /\ [ToolsNext]_toolVars => ToolsTyped'
<1> SUFFICES ASSUME ToolsTyped, [ToolsNext]_toolVars PROVE ToolsTyped'
  OBVIOUS
<1>0. /\ TimerInv /\ HistoryLimit \in Nat /\ MaxToolActs \in Nat /\ MaxPings \in Nat
      /\ ToolsTypeOK
  BY ToolsAssumption DEF ToolsTyped, ToolsTypeOK, TimerInv, PingTyped
<1>1. TimerInv'
  BY <1>0, ToolsKeepTimer
<1>2. timers' \in 0..1 /\ OneTimerWhileContinuous'
  BY <1>1 DEF TimerInv, PingTyped, OneTimerWhileContinuous
<1>3. /\ toolActs \in 0..MaxToolActs /\ runs \in 0..toolActs /\ pings \in 0..MaxPings
      /\ history \in 0..HistoryLimit /\ commands \in Seq(ToolCommand)
      /\ console \in Seq(TerminalLine) /\ torn \subseteq 1..MaxToolActs
      /\ result \in 0..MaxToolActs /\ target \in Hosts /\ tool \in Tools \cup {"left"}
      /\ waiting \in BOOLEAN /\ continuous \in BOOLEAN /\ (tool # "ping" => pings = 0)
  BY DEF ToolsTyped, ToolsTypeOK, ToolCommand, TerminalLine
<1> USE DEF ToolAct, pingVars, terminalVars
<1>4. ASSUME /\ tool' \in Tools \cup {"left"} /\ target' \in Hosts
             /\ waiting' \in BOOLEAN /\ continuous' \in BOOLEAN
             /\ torn' \subseteq 1..MaxToolActs /\ commands' \in Seq(ToolCommand)
             /\ console' \in Seq(TerminalLine) /\ pings' \in 0..MaxPings
             /\ history' \in 0..HistoryLimit /\ result' \in 0..MaxToolActs
             /\ toolActs' \in 0..MaxToolActs /\ runs' \in 0..toolActs'
             /\ (tool' # "ping" => pings' = 0)
      PROVE  ToolsTyped'
  BY <1>2, <1>4 DEF ToolsTyped, ToolsTypeOK, ToolCommand, TerminalLine
<1>5. CASE RunCommand
  <2>1. /\ toolActs' = toolActs + 1 /\ runs' = runs + 1 /\ toolActs < MaxToolActs
        /\ runs' \in 1..MaxToolActs /\ runs' \in 0..toolActs' /\ toolActs' \in 0..MaxToolActs
    BY <1>0, <1>3, <1>5 DEF RunCommand
  <2>2. [run |-> runs', target |-> target] \in ToolCommand
    BY <1>3, <2>1 DEF ToolCommand
  <2>3. commands' \in Seq(ToolCommand)
    BY <1>3, <1>5, <2>2, AppendProperties DEF RunCommand
  <2>4. Line("prompt", runs') \in TerminalLine /\ Line("notice", runs') \in TerminalLine
    BY <1>3, <2>1 DEF Line, TerminalLine
  <2>5. <<Line("prompt", runs'), Line("notice", runs')>> \in Seq(TerminalLine)
    BY <2>4
  <2>6. console' \in Seq(TerminalLine)
    BY <1>3, <1>5, <2>5, ConcatProperties DEF RunCommand
  <2> QED
    BY <1>3, <1>4, <1>5, <2>1, <2>3, <2>6 DEF RunCommand
<1>6. CASE ClearConsole
  <2>1. \A i \in DOMAIN commands : commands[i].run \in 1..MaxToolActs
    <3>1. commands \in [1..Len(commands) -> ToolCommand] /\ DOMAIN commands = 1..Len(commands)
      BY <1>3, LenProperties
    <3> QED
      BY <3>1 DEF ToolCommand
  <2>2. console' \in Seq(TerminalLine) /\ torn' \subseteq 1..MaxToolActs
    BY <1>3, <1>6, <2>1, EmptySeq DEF ClearConsole
  <2>3. toolActs' \in 0..MaxToolActs /\ runs' \in 0..toolActs'
    BY <1>0, <1>3, <1>6 DEF ClearConsole
  <2> QED
    BY <1>3, <1>4, <1>6, <2>2, <2>3 DEF ClearConsole
<1>7. CASE ToggleContinuous
  <2>1. toolActs' \in 0..MaxToolActs /\ runs' \in 0..toolActs'
    BY <1>0, <1>3, <1>7 DEF ToggleContinuous
  <2>2. pings' \in 0..MaxPings /\ waiting' \in BOOLEAN /\ continuous' \in BOOLEAN
    BY <1>0, <1>3, <1>7 DEF ToggleContinuous, PingEffect
  <2> QED
    BY <1>3, <1>4, <1>7, <2>1, <2>2 DEF ToggleContinuous
<1>8. CASE SendPing
  <2>1. toolActs' \in 0..MaxToolActs /\ runs' \in 0..toolActs' /\ pings' \in 0..MaxPings
    BY <1>0, <1>3, <1>8 DEF SendPing
  <2> QED
    BY <1>3, <1>4, <1>8, <2>1 DEF SendPing
<1>9. CASE TimerPings
  <2>1. tool = "ping" /\ pings' \in 0..MaxPings
    BY <1>0, <1>3, <1>9 DEF TimerPings, TimerInv, OneTimerWhileContinuous
  <2> QED
    BY <1>3, <1>4, <1>9, <2>1 DEF TimerPings
<1>10. CASE PingEnds
  <2>1. tool = "ping" /\ pings' \in 0..MaxPings /\ history' \in 0..HistoryLimit
    BY <1>0, <1>3, <1>10 DEF PingEnds
  <2> QED
    BY <1>3, <1>4, <1>10, <2>1 DEF PingEnds
<1>11. CASE ClearHistory
  <2>1. toolActs' \in 0..MaxToolActs /\ runs' \in 0..toolActs' /\ history' \in 0..HistoryLimit
    BY <1>0, <1>3, <1>11 DEF ClearHistory
  <2> QED
    BY <1>3, <1>4, <1>11, <2>1 DEF ClearHistory
<1>12. CASE LeaveTool
  <2>1. pings' \in 0..MaxPings /\ commands' \in Seq(ToolCommand) /\ console' \in Seq(TerminalLine)
    BY <1>0, <1>12 DEF LeaveTool
  <2> QED
    BY <1>3, <1>4, <1>12, <2>1 DEF LeaveTool
<1>13. ASSUME NEW host \in Hosts, ChooseTarget(host) PROVE ToolsTyped'
  <2>1. toolActs' \in 0..MaxToolActs /\ runs' \in 0..toolActs'
    BY <1>0, <1>3, <1>13 DEF ChooseTarget
  <2>2. pings' \in 0..MaxPings /\ (tool # "ping" => pings' = 0)
    BY <1>0, <1>3, <1>13 DEF ChooseTarget, PingEffect
  <2>3. waiting' \in BOOLEAN
    BY <1>3, <1>13 DEF ChooseTarget, PingEffect
  <2> QED
    BY <1>3, <1>4, <1>13, <2>1, <2>2, <2>3 DEF ChooseTarget
<1>14. ASSUME NEW i \in 1..MaxToolActs, NEW ok \in BOOLEAN, CommandEnds(i, ok) PROVE ToolsTyped'
  <2>1. PICK c : c = commands[i]
    OBVIOUS
  <2>2. c \in ToolCommand /\ c.run \in 1..MaxToolActs /\ c.target \in Hosts
    <3>1. commands \in [1..Len(commands) -> ToolCommand] /\ DOMAIN commands = 1..Len(commands)
      BY <1>3, LenProperties
    <3> QED
      BY <1>14, <2>1, <3>1 DEF CommandEnds, ToolCommand
  <2>3. commands' \in Seq(ToolCommand)
    BY <1>3, <1>14, RemovedFromSeq DEF CommandEnds
  <2>4. Output("output", c) \in TerminalLine /\ Output("error", c) \in TerminalLine
    BY <2>2 DEF Output, TerminalLine
  <2>5. Front(console) \in Seq(TerminalLine) \/ console = <<>>
    BY <1>3, FrontOfSeq
  <2>6. ReplacesNotice(c) \in Seq(TerminalLine) /\ Append(console, Output("error", c)) \in Seq(TerminalLine)
    BY <1>3, <2>4, <2>5, AppendProperties, EmptySeq DEF ReplacesNotice
  <2>7. console' \in {console, ReplacesNotice(c), Append(console, Output("error", c))}
    BY <1>14, <2>1 DEF CommandEnds
  <2>8. result' \in 0..MaxToolActs
    BY <1>0, <1>3, <1>14, <2>1, <2>2 DEF CommandEnds
  <2>9. UNCHANGED <<tool, target, torn, toolActs, runs, continuous, timers, pings, history>> /\ waiting' = FALSE
    BY <1>14 DEF CommandEnds
  <2> QED
    BY <1>3, <1>4, <2>3, <2>6, <2>7, <2>8, <2>9
<1>15. CASE UNCHANGED toolVars
  BY <1>3, <1>4, <1>15 DEF toolVars
<1> QED
  BY <1>5, <1>6, <1>7, <1>8, <1>9, <1>10, <1>11, <1>12, <1>13, <1>14, <1>15 DEF ToolsNext

(* The tools as they are mounted.                                           *)
LEMMA ToolsStartTyped == ToolsInit => ToolsTyped
<1> SUFFICES ASSUME ToolsInit PROVE ToolsTyped
  OBVIOUS
<1>1. 0 \in 0..MaxToolActs /\ 0 \in 0..MaxPings /\ 0 \in 0..HistoryLimit
  BY ToolsAssumption
<1>2. <<>> \in Seq(ToolCommand) /\ <<>> \in Seq(TerminalLine)
  OBVIOUS
<1>3. ToolsTypeOK
  <2>1. /\ tool \in Tools /\ target \in Hosts /\ waiting = FALSE /\ commands = <<>>
        /\ console = <<>> /\ torn = {} /\ continuous = FALSE /\ timers = 0 /\ pings = 0
        /\ history = 0 /\ result = 0
    BY DEF ToolsInit
  <2>2. {waiting, continuous} \subseteq BOOLEAN
    BY <2>1, Zenon
  <2>3. timers \in 0..1
    BY <2>1
  <2> QED
    BY <1>1, <1>2, <2>1, <2>2, <2>3 DEF ToolsTypeOK, ToolCommand, TerminalLine
<1> QED
  BY <1>1, <1>3 DEF ToolsInit, ToolsTyped, OneTimerWhileContinuous

(* The tools keep their types: the numbers of commands, lines, pings and    *)
(* rows stay within their bounds.                                           *)
THEOREM ToolsTypeCorrect == ToolsSpec => []ToolsTypeOK
<1>1. ToolsTyped => ToolsTypeOK
  BY DEF ToolsTyped
<1> QED
  BY <1>1, ToolsStartTyped, ToolsStayTyped, PTL DEF ToolsSpec

(* The last two lines of the terminal: the prompt and the notice of a       *)
(* command that has not been answered.                                      *)
NoticeStands(c) ==
  /\ Len(console) > 1
  /\ console[Len(console) - 1] = [what |-> "prompt", run |-> c.run, target |-> c.target]
  /\ console[Len(console)] = [what |-> "notice", run |-> c.run, target |-> c.target]

(* The terminal waits for one command at most, whose notice ends the screen *)
(* unless the screen was cleared after it was sent.                         *)
OneCommandWaits ==
  tool = "terminal" =>
    \/ commands = <<>>
    \/ waiting /\ \E c \in ToolCommand : commands = <<c>> /\ (c.run \in torn \/ NoticeStands(c))

TerminalInv == ToolsTyped /\ OneCommandWaits /\ OutputFollowsItsCommand

(* Nothing but what touches the terminal can disturb it.                    *)
LEMMA TerminalLeftAlone ==
  ASSUME TerminalInv, UNCHANGED <<console, torn, commands>>,
         tool' = "terminal" => tool = "terminal" /\ waiting' = waiting
  PROVE  OneCommandWaits' /\ OutputFollowsItsCommand'
BY DEF TerminalInv, OneCommandWaits, NoticeStands, OutputFollowsItsCommand, UnderItsPrompt

(* A command is sent: its prompt and its notice end the screen.             *)
LEMMA CommandSent ==
  ASSUME TerminalInv, RunCommand
  PROVE  OneCommandWaits' /\ OutputFollowsItsCommand'
<1>1. /\ console \in Seq(TerminalLine) /\ target \in Hosts /\ torn' = torn /\ tool' = tool
      /\ runs' \in 1..MaxToolActs /\ target' = target /\ waiting' = TRUE
      /\ commands' = Append(commands, [run |-> runs', target |-> target])
  <2>1. toolActs < MaxToolActs /\ runs' = runs + 1 /\ runs \in 0..toolActs /\ toolActs \in 0..MaxToolActs
    BY DEF RunCommand, ToolAct, TerminalInv, ToolsTyped
  <2>2. runs' \in 1..MaxToolActs
    BY <2>1, ToolsAssumption
  <2> QED
    BY <2>2 DEF RunCommand, TerminalInv, ToolsTyped, ToolsTypeOK, TerminalLine
<1>2. CASE tool # "terminal"
  <2>1. console' = console
    BY <1>2 DEF RunCommand
  <2> QED
    BY <1>1, <1>2, <2>1 DEF TerminalInv, OneCommandWaits, OutputFollowsItsCommand, UnderItsPrompt
<1>3. CASE tool = "terminal"
  <2>1. PICK c : c = [run |-> runs', target |-> target]
    OBVIOUS
  <2>2. c \in ToolCommand /\ c.run = runs' /\ c.target = target
    BY <1>1, <2>1 DEF ToolCommand
  <2>3. PICK p, q : p = Line("prompt", runs') /\ q = Line("notice", runs')
    OBVIOUS
  <2>4. /\ p = [what |-> "prompt", run |-> c.run, target |-> c.target]
        /\ q = [what |-> "notice", run |-> c.run, target |-> c.target]
        /\ p \in TerminalLine /\ q \in TerminalLine
        /\ p.what = "prompt" /\ q.what = "notice"
    BY <1>1, <2>2, <2>3 DEF Line, TerminalLine
  <2>5. PICK n \in Nat : n = Len(console)
    BY <1>1, LenProperties
  <2>6. /\ console' \in Seq(TerminalLine) /\ Len(console') = n + 2 /\ DOMAIN console' = 1..(n + 2)
        /\ DOMAIN console = 1..n
        /\ \A k \in 1..n : console'[k] = console[k]
        /\ console'[n + 1] = p /\ console'[n + 2] = q
    <3>1. <<p, q>> \in Seq(TerminalLine) /\ Len(<<p, q>>) = 2 /\ <<p, q>>[1] = p /\ <<p, q>>[2] = q
      BY <2>4
    <3>2. console' = console \o <<p, q>>
      BY <1>3, <2>3 DEF RunCommand
    <3>3. /\ console' \in Seq(TerminalLine) /\ Len(console') = n + 2
          /\ \A k \in 1..(n + 2) : console'[k] = IF k <= n THEN console[k] ELSE <<p, q>>[k - n]
      BY <1>1, <2>5, <3>1, <3>2, ConcatProperties
    <3>4. /\ n + 1 \in 1..(n + 2) /\ n + 2 \in 1..(n + 2) /\ ~(n + 1 <= n) /\ ~(n + 2 <= n)
          /\ (n + 1) - n = 1 /\ (n + 2) - n = 2 /\ \A k \in 1..n : k \in 1..(n + 2) /\ k <= n
      OBVIOUS
    <3>5. DOMAIN console = 1..n
      BY <1>1, <2>5, LenProperties
    <3>6. DOMAIN console' = 1..(n + 2)
      BY <3>3, LenProperties
    <3> QED
      BY <3>1, <3>3, <3>4, <3>5, <3>6
  <2>7. OneCommandWaits'
    <3>1. commands = <<>>
      BY <1>3 DEF TerminalInv, OneCommandWaits, RunCommand, MayRun, EnterKeyWaits
    <3>2. commands' = <<>> \o <<c>>
      BY <1>1, <2>1, <3>1
    <3>3. commands' = <<c>>
      BY <3>2, CopiesSent, Zenon
    <3>4. n + 2 > 1 /\ n + 2 - 1 = n + 1
      OBVIOUS
    <3>5. NoticeStands(c)'
      BY <2>4, <2>6, <3>4 DEF NoticeStands
    <3> QED
      BY <1>1, <2>2, <3>3, <3>5 DEF OneCommandWaits
  <2>8. ASSUME NEW k \in DOMAIN console', console'[k].what \in {"output", "error"}, console'[k].run \notin torn'
        PROVE  UnderItsPrompt(k)'
    <3>1. k \in 1..n
      BY <2>4, <2>6, <2>8
    <3>2. console'[k] = console[k]
      BY <2>6, <3>1
    <3>3. UnderItsPrompt(k)
      BY <1>1, <2>6, <2>8, <3>1, <3>2 DEF TerminalInv, OutputFollowsItsCommand
    <3>4. k > 1
      BY <3>3 DEF UnderItsPrompt
    <3>5. k - 1 \in 1..n
      BY <3>1, <3>4
    <3>6. console'[k - 1] = console[k - 1]
      BY <2>6, <3>5
    <3> QED
      BY <3>2, <3>3, <3>6 DEF UnderItsPrompt
  <2> QED
    BY <2>7, <2>8 DEF OutputFollowsItsCommand
<1> QED
  BY <1>2, <1>3

(* The line of an answer, put where its notice stood or below it, stands    *)
(* under the right line; those above it stay under theirs.                  *)
LEMMA AnswerWritten ==
  ASSUME TerminalInv, NEW c \in ToolCommand, c.run \in torn \/ NoticeStands(c), torn' = torn,
         NEW l \in TerminalLine, l.run = c.run, l.target = c.target,
         \/ l.what = "output" /\ console' = Append(IF console = <<>> THEN <<>> ELSE Front(console), l)
         \/ l.what = "error" /\ console' = Append(console, l)
  PROVE  OutputFollowsItsCommand'
<1>1. console \in Seq(TerminalLine)
  BY DEF TerminalInv, ToolsTyped, ToolsTypeOK, TerminalLine
<1>2. PICK n \in Nat : n = Len(console) /\ DOMAIN console = 1..n
  BY <1>1, LenProperties
<1>3. PICK above \in Seq(TerminalLine), m \in Nat :
        /\ m = Len(above) /\ m <= n /\ (\A k \in 1..m : above[k] = console[k])
        /\ console' = Append(above, l)
        /\ (IF l.what = "output" THEN n # 0 => m = n - 1 ELSE m = n)
        /\ (n = 0 => m = 0)
  <2>1. CASE l.what = "output" /\ console' = Append(IF console = <<>> THEN <<>> ELSE Front(console), l)
    <3>1. CASE console = <<>>
      <4>1. <<>> \in Seq(TerminalLine) /\ Len(<<>>) = 0 /\ n = 0 /\ console' = Append(<<>>, l)
        BY <1>2, <2>1, <3>1
      <4>2. 1..0 = {} /\ 0 <= n
        OBVIOUS
      <4> WITNESS <<>> \in Seq(TerminalLine), 0 \in Nat
      <4> QED
        BY <2>1, <4>1, <4>2
    <3>2. CASE console # <<>>
      <4>1. n # 0
        BY <1>1, <1>2, <3>2, EmptySeq
      <4>2. /\ Front(console) \in Seq(TerminalLine) /\ Len(Front(console)) = n - 1
            /\ \A k \in 1..(n - 1) : Front(console)[k] = console[k]
        BY <1>1, <1>2, <3>2, FrontOfSeq
      <4>3. n - 1 \in Nat /\ n - 1 <= n
        BY <4>1
      <4> QED
        BY <2>1, <3>2, <4>1, <4>2, <4>3
    <3> QED
      BY <3>1, <3>2
  <2>2. CASE l.what = "error" /\ console' = Append(console, l)
    BY <1>1, <1>2, <2>2
  <2> QED
    BY <2>1, <2>2
<1>4. /\ DOMAIN console' = 1..(m + 1) /\ console'[m + 1] = l
      /\ \A k \in 1..m : console'[k] = console[k] /\ k \in DOMAIN console
  <2>1. /\ console' \in Seq(TerminalLine) /\ Len(console') = m + 1
        /\ (\A k \in 1..m : console'[k] = above[k]) /\ console'[m + 1] = l
    BY <1>3, AppendProperties
  <2>2. DOMAIN console' = 1..(m + 1)
    BY <2>1, LenProperties
  <2>3. \A k \in 1..m : k \in DOMAIN console
    BY <1>2, <1>3
  <2> QED
    BY <1>3, <2>1, <2>2, <2>3
<1>5. ASSUME NEW k \in DOMAIN console', console'[k].what \in {"output", "error"}, console'[k].run \notin torn'
      PROVE  UnderItsPrompt(k)'
  <2>1. CASE k \in 1..m
    <3>1. UnderItsPrompt(k)
      BY <1>4, <1>5, <2>1 DEF TerminalInv, OutputFollowsItsCommand
    <3>2. k - 1 \in 1..m /\ k > 1
      BY <2>1, <3>1 DEF UnderItsPrompt
    <3> QED
      BY <1>4, <2>1, <3>1, <3>2 DEF UnderItsPrompt
  <2>2. CASE k = m + 1
    <3>1. NoticeStands(c)
      BY <1>4, <1>5, <2>2
    <3>2. n > 1 /\ m > 0 /\ k - 1 = m /\ k > 1 /\ m \in 1..m
      BY <1>2, <1>3, <2>2, <3>1 DEF NoticeStands
    <3>3. console'[k - 1] = console[m] /\ console'[k] = l
      BY <1>4, <2>2, <3>2
    <3>4. CASE l.what = "output"
      <4>1. m = n - 1
        BY <1>3, <3>2, <3>4
      <4>2. console[m] = [what |-> "prompt", run |-> c.run, target |-> c.target]
        BY <1>2, <3>1, <4>1 DEF NoticeStands
      <4> QED
        BY <3>2, <3>3, <3>4, <4>2 DEF UnderItsPrompt
    <3>5. CASE l.what # "output"
      <4>1. m = n
        BY <1>3, <3>5
      <4>2. console[m] = [what |-> "notice", run |-> c.run, target |-> c.target]
        BY <1>2, <3>1, <4>1 DEF NoticeStands
      <4> QED
        BY <3>2, <3>3, <3>5, <4>2 DEF UnderItsPrompt
    <3> QED
      BY <3>4, <3>5
  <2> QED
    BY <1>3, <1>4, <2>1, <2>2
<1> QED
  BY <1>5 DEF OutputFollowsItsCommand

(* An answer or an error ends the one command of the terminal.              *)
LEMMA CommandAnswered ==
  ASSUME TerminalInv, NEW i \in 1..MaxToolActs, NEW ok \in BOOLEAN, CommandEnds(i, ok)
  PROVE  OneCommandWaits' /\ OutputFollowsItsCommand'
<1>1. tool' = tool /\ torn' = torn /\ i \in DOMAIN commands
  BY DEF CommandEnds
<1>2. CASE tool # "terminal"
  <2>1. console' = console
    BY <1>2 DEF CommandEnds
  <2> QED
    BY <1>1, <1>2, <2>1 DEF TerminalInv, OneCommandWaits, OutputFollowsItsCommand, UnderItsPrompt
<1>3. CASE tool = "terminal"
  <2>1. PICK c \in ToolCommand : commands = <<c>> /\ (c.run \in torn \/ NoticeStands(c))
    BY <1>1, <1>3 DEF TerminalInv, OneCommandWaits
  <2>2. i = 1 /\ commands[i] = c
    BY <1>1, <2>1
  <2>3. commands' = <<>>
    BY <2>1, <2>2, OnlyOneRemoved DEF CommandEnds
  <2>4. PICK l : l = IF ok THEN Output("output", c) ELSE Output("error", c)
    OBVIOUS
  <2>5. /\ l \in TerminalLine /\ l.run = c.run /\ l.target = c.target
        /\ l.what = IF ok THEN "output" ELSE "error"
    BY <2>4 DEF Output, TerminalLine, ToolCommand
  <2>6. \/ l.what = "output" /\ console' = Append(IF console = <<>> THEN <<>> ELSE Front(console), l)
        \/ l.what = "error" /\ console' = Append(console, l)
    BY <1>3, <2>2, <2>4, <2>5 DEF CommandEnds, ReplacesNotice
  <2>7. OutputFollowsItsCommand'
    BY <1>1, <2>1, <2>5, <2>6, AnswerWritten
  <2> QED
    BY <2>3, <2>7 DEF OneCommandWaits
<1> QED
  BY <1>2, <1>3

(* The screen is cleared, also while a command runs.                        *)
LEMMA ScreenCleared ==
  ASSUME TerminalInv, ClearConsole
  PROVE  OneCommandWaits' /\ OutputFollowsItsCommand'
<1>1. /\ console' = <<>> /\ UNCHANGED <<tool, waiting, commands>>
      /\ torn' = torn \cup {commands[i].run : i \in DOMAIN commands}
  BY DEF ClearConsole
<1>2. OutputFollowsItsCommand'
  BY <1>1 DEF OutputFollowsItsCommand
<1>3. ASSUME NEW c \in ToolCommand, commands = <<c>> PROVE c.run \in torn'
  BY <1>1, <1>3
<1> QED
  BY <1>1, <1>2, <1>3 DEF TerminalInv, OneCommandWaits

(* Whatever the user sends, clears, chooses and leaves: an output stands    *)
(* right under the prompt of its own command, for any routers and number of *)
(* commands, unless the screen was cleared while it ran (TerminalView).     *)
THEOREM OutputsStayWithTheirCommand == ToolsSpec => []OutputFollowsItsCommand
<1>1. ToolsInit => TerminalInv
  <2>1. ToolsInit => ToolsTyped
    BY ToolsStartTyped
  <2> QED
    BY <2>1 DEF ToolsInit, TerminalInv, OneCommandWaits, OutputFollowsItsCommand
<1>2. TerminalInv /\ [ToolsNext]_toolVars => TerminalInv'
  <2> SUFFICES ASSUME TerminalInv, [ToolsNext]_toolVars
               PROVE  OneCommandWaits' /\ OutputFollowsItsCommand'
    BY ToolsStayTyped DEF TerminalInv
  <2>1. CASE ToggleContinuous \/ SendPing \/ TimerPings \/ PingEnds \/ ClearHistory
    <3>1. UNCHANGED <<console, torn, commands, tool>>
      BY <2>1 DEF ToggleContinuous, SendPing, TimerPings, PingEnds, ClearHistory, terminalVars
    <3>2. tool = "ping"
      BY <2>1 DEF ToggleContinuous, SendPing, TimerPings, PingEnds, ClearHistory, TerminalInv,
                  ToolsTyped, OneTimerWhileContinuous
    <3> QED
      BY <3>1, <3>2, TerminalLeftAlone
  <2>2. ASSUME NEW host \in Hosts, ChooseTarget(host) PROVE OneCommandWaits' /\ OutputFollowsItsCommand'
    BY <2>2, TerminalLeftAlone DEF ChooseTarget, terminalVars
  <2>3. CASE LeaveTool
    BY <2>3 DEF LeaveTool, OneCommandWaits, OutputFollowsItsCommand
  <2>4. CASE UNCHANGED toolVars
    BY <2>4, TerminalLeftAlone DEF toolVars
  <2> QED
    BY <2>1, <2>2, <2>3, <2>4, CommandSent, CommandAnswered, ScreenCleared DEF ToolsNext
<1>3. TerminalInv => OutputFollowsItsCommand
  BY DEF TerminalInv
<1> QED
  BY <1>1, <1>2, <1>3, PTL DEF ToolsSpec

-----------------------------------------------------------------------------
(* A section and a sub-tab that draw something.                             *)
Drawn(s, t) == s \in Sections /\ Panel(s, t) # {}

(* The sub-tabs there are.                                                  *)
Tabs == {"download", "upload", "sessions", "churn", "rpki", "neighbors", "areas", "diagnostics",
         "inventory", "terminal", "overview", "alerts", "ping", "logs", "list", "same"}

(* What the palette holds.                                                  *)
Palettes == [open : BOOLEAN, query : Queries, index : -1..Len(AllCommands)]

(* What a row of the palette may be: an action, or a place that is drawn.   *)
GoodCommands ==
  {c \in [kind : {"nav", "device", "link", "action"}, section : Sections \cup {"same"}, tab : Tabs] :
     c.kind = "action" \/ Drawn(c.section, c.tab)}

(* Loads of the alert view are in flight only while it is shown.            *)
ShellInv ==
  /\ ShellTypeOK
  /\ Drawn(section, subTab)
  /\ section # "telemetry" => viewCalls = 0

-----------------------------------------------------------------------------
(* A section opens with a sub-tab of its own.                               *)
LEMMA DefaultIsDrawn == ASSUME NEW s \in Sections PROVE Drawn(s, DefaultTab(s))
BY DEF Sections, Drawn, DefaultTab, Panel, BgpPanel, OspfPanel, DevicesPanel,
       TelemetryPanel, DiagnosticsPanel

(* Every sub-tab of the strip, and every shortcut, draws something.         *)
LEMMA SubTabsAreDrawn ==
  ASSUME NEW s \in Sections, NEW t \in StripOf(s) \cup ShortcutsOf(s)
  PROVE  Drawn(s, t)
BY DEF Sections, Drawn, StripOf, ShortcutsOf, Panel, BgpPanel, OspfPanel, DevicesPanel,
       TelemetryPanel, DiagnosticsPanel

(* The commands of the palette lead to places that are drawn.               *)
LEMMA CommandsAreGood == AllCommands \in Seq(GoodCommands)
<1>1. Routers \in Nat
  BY ShellAssumption
<1>2. NavCommands \in Seq(GoodCommands)
  <2>1. \A s \in Sections, t \in Tabs :
          Panel(s, t) # {} => Command("nav", s, t) \in GoodCommands
    BY DEF GoodCommands, Command, Drawn, Tabs
  <2> DEFINE G == GoodCommands
  <2>2. /\ \A t \in {"download", "upload", "sessions", "churn", "rpki"} :
             Command("nav", "bgp", t) \in G
        /\ \A t \in {"neighbors", "areas", "diagnostics"} : Command("nav", "ospf", t) \in G
        /\ \A t \in {"inventory", "terminal"} : Command("nav", "devices", t) \in G
        /\ \A t \in {"overview", "alerts"} : Command("nav", "telemetry", t) \in G
        /\ Command("nav", "diagnostics", "ping") \in G /\ Command("nav", "audit", "logs") \in G
        /\ Command("nav", "tenants", "list") \in G /\ Command("nav", "users", "list") \in G
        /\ Command("nav", "license", "overview") \in G
    BY <2>1 DEF Sections, Tabs, Panel, BgpPanel, OspfPanel, DevicesPanel, TelemetryPanel, DiagnosticsPanel
  <2> HIDE DEF G
  <2>3. NavCommands \in Seq(G)
    BY <2>2 DEF NavCommands
  <2> QED
    BY <2>3 DEF G
<1>3. \A kind \in {"device", "link"}, s \in Sections, t \in Tabs :
         Panel(s, t) # {} => Command(kind, s, t) \in GoodCommands
  BY DEF GoodCommands, Command, Drawn, Tabs
<1>4. DeviceCommands \in Seq(GoodCommands)
  <2>1. Command("device", "devices", "terminal") \in GoodCommands
    BY <1>3 DEF Sections, Tabs, Panel, DevicesPanel
  <2>2. DeviceCommands \in [1..Routers -> GoodCommands]
    BY <2>1 DEF DeviceCommands
  <2> QED
    BY <1>1, <2>2, SeqDef
<1>5. LinkCommands \in Seq(GoodCommands)
  <2>1. Command("link", "bgp", "download") \in GoodCommands
    BY <1>3 DEF Sections, Tabs, Panel, BgpPanel
  <2>2. LinkCommands \in [1..6 -> GoodCommands]
    BY <2>1 DEF LinkCommands
  <2> QED
    BY <2>2, SeqDef
<1>6. ActionCommands \in Seq(GoodCommands)
  <2>1. Command("action", "same", "same") \in GoodCommands
    BY DEF GoodCommands, Command, Tabs
  <2> QED
    BY <2>1 DEF ActionCommands
<1> QED
  BY <1>2, <1>4, <1>5, <1>6, ConcatProperties DEF AllCommands

(* The palette opens empty, on its first row.                               *)
LEMMA PaletteTyped ==
  /\ Closed \in Palettes /\ [Closed EXCEPT !.open = TRUE] \in Palettes
  /\ \A p \in Palettes, q \in Queries :
        [p EXCEPT !.query = q, !.index = 0] \in Palettes /\ [p EXCEPT !.query = q] \in Palettes
<1>1. Len(AllCommands) \in Nat
  BY CommandsAreGood, LenProperties
<1> DEFINE rows == -1..Len(AllCommands)
<1>2. 0 \in rows
  BY <1>1
<1> HIDE DEF rows
<1> QED
  BY <1>2 DEF Palettes, Closed, Queries, rows

(* A query keeps a part of the commands.                                    *)
LEMMA RowsOfTheList ==
  ASSUME NEW q
  PROVE  /\ Cardinality(FilteredCommands(q)) \in 0..Len(AllCommands)
         /\ \A k \in FilteredCommands(q) : AllCommands[k] \in GoodCommands
         /\ Len(AllCommands) \in Nat
<1>1. Len(AllCommands) \in Nat /\ DOMAIN AllCommands = 1..Len(AllCommands)
  BY CommandsAreGood, LenProperties
<1>2. FilteredCommands(q) \subseteq 1..Len(AllCommands)
  BY <1>1 DEF FilteredCommands
<1>3. \A n \in Nat : IsFiniteSet(1..n) /\ Cardinality(1..n) = n
  BY FS_Interval
<1>4. IsFiniteSet(FilteredCommands(q)) /\ Cardinality(FilteredCommands(q)) <= Len(AllCommands)
  BY <1>2, <1>3, FS_Subset
<1>5. Cardinality(FilteredCommands(q)) \in Nat
  BY <1>4, FS_CardinalityType
<1>6. \A k \in 1..Len(AllCommands) : AllCommands[k] \in GoodCommands
  BY CommandsAreGood, ElementOfSeq
<1> QED
  BY <1>1, <1>2, <1>4, <1>5, <1>6

(* An act of the user loads the alert view once more, or ends its loads.    *)
LEMMA UserActsCounts ==
  ASSUME viewCalls \in Nat, NEW s, UserActs(s)
  PROVE  /\ viewCalls' \in Nat /\ (s # "telemetry" => viewCalls' = 0)
         /\ UNCHANGED <<badge, pollCall, polls, away>>
BY DEF UserActs, Redraws, countVars

(* The shell opens on the sessions of the routers.                          *)
LEMMA ShellStarts == ShellInit => ShellInv
<1> SUFFICES ASSUME ShellInit PROVE ShellInv
  OBVIOUS
<1>1. Len(AllCommands) \in Nat /\ {MaxPolls, Active, Acknowledged} \subseteq Nat
  BY RowsOfTheList, ShellAssumption
<1>2. palette \in Palettes
  BY PaletteTyped DEF ShellInit
<1>3. ShellTypeOK
  <2>1. {mobile, profile, pollCall, away} \subseteq BOOLEAN
    BY Zenon DEF ShellInit
  <2> QED
    BY <1>1, <1>2, <2>1 DEF ShellInit, ShellTypeOK, Palettes
<1>4. Drawn(section, subTab)
  BY DEF ShellInit, Drawn, Sections, Panel, BgpPanel
<1> QED
  BY <1>3, <1>4 DEF ShellInv, ShellInit

(* The menus, the strip and the buttons open what is drawn.                 *)
LEMMA SectionOpened ==
  ASSUME ShellInv, NEW s, NEW t, Drawn(s, t), SectionChange(s, t),
         {mobile', profile'} \subseteq BOOLEAN, palette' \in {palette, Closed}
  PROVE  ShellInv'
<1>1. viewCalls' \in Nat /\ (s # "telemetry" => viewCalls' = 0)
      /\ UNCHANGED <<badge, pollCall, polls, away>>
  BY UserActsCounts DEF ShellInv, ShellTypeOK, Palettes, SectionChange
<1>2. section' = s /\ subTab' = t /\ navStyle' = navStyle
  BY DEF SectionChange
<1>3. Closed \in Palettes
  BY PaletteTyped
<1>4. palette' \in Palettes
  BY <1>3 DEF ShellInv, ShellTypeOK, Palettes
<1>5. {mobile', profile', pollCall', away'} \subseteq BOOLEAN
  BY <1>1, Zenon DEF ShellInv, ShellTypeOK, Palettes
<1>6. ShellTypeOK'
  BY <1>1, <1>2, <1>4, <1>5 DEF ShellInv, ShellTypeOK, Palettes
<1>7. Drawn(section, subTab)'
  BY <1>2 DEF Drawn
<1> QED
  BY <1>1, <1>2, <1>6, <1>7 DEF ShellInv

(* The windows leave the place alone.                                       *)
LEMMA WindowChanged ==
  ASSUME ShellInv, UserActs(section), UNCHANGED <<section, subTab>>,
         navStyle' \in {"dock", "sidebar", "both"}, {mobile', profile'} \subseteq BOOLEAN,
         palette' \in Palettes
  PROVE  ShellInv'
<1>1. viewCalls' \in Nat /\ (section # "telemetry" => viewCalls' = 0)
      /\ UNCHANGED <<badge, pollCall, polls, away>>
  BY UserActsCounts DEF ShellInv, ShellTypeOK, Palettes
<1>2. {mobile', profile', pollCall', away'} \subseteq BOOLEAN
  BY <1>1, Zenon DEF ShellInv, ShellTypeOK, Palettes
<1>3. ShellTypeOK'
  BY <1>1, <1>2 DEF ShellInv, ShellTypeOK, Palettes
<1>4. Drawn(section, subTab)'
  BY DEF ShellInv, Drawn
<1> QED
  BY <1>1, <1>3, <1>4 DEF ShellInv

(* Typing and the arrows keep the highlighted row a row of the list.        *)
LEMMA PaletteSet ==
  ASSUME ShellInv, NEW p \in Palettes,
         SetPalette(p)
  PROVE  ShellInv'
<1>1. UNCHANGED <<section, subTab, navStyle, mobile, profile, badge, pollCall, polls, away, viewCalls>>
      /\ palette' = p
  BY DEF SetPalette, countVars
<1> QED
  BY <1>1 DEF ShellInv, ShellTypeOK, Palettes, Drawn

(* An arrow goes on to the next row, or round to the other end.             *)
LEMMA ArrowMoves ==
  ASSUME ShellInv, NEW step \in {-1, 1}, Arrow(step) PROVE ShellInv'
<1> DEFINE last == Cardinality(FilteredCommands(palette.query)) - 1
           next == palette.index + step
           to == IF step = 1 THEN IF next <= last THEN next ELSE 0
                  ELSE IF next >= 0 THEN next ELSE last
<1>1. SetPalette([palette EXCEPT !.index = to])
  BY DEF Arrow
<1>2. PICK n \in Nat : n = Len(AllCommands)
  BY RowsOfTheList
<1>3. palette \in [open : BOOLEAN, query : Queries, index : -1..n]
  BY <1>2 DEF ShellInv, ShellTypeOK, Palettes
<1>4. last \in -1..(n - 1)
  BY <1>2, RowsOfTheList
<1>5. to \in -1..n
  BY <1>3, <1>4
<1>6. [palette EXCEPT !.index = to] \in [open : BOOLEAN, query : Queries, index : -1..n]
  BY <1>3, <1>5
<1> QED
  BY <1>1, <1>2, <1>6, PaletteSet DEF Palettes

(* A row that is chosen leads to a place that is drawn, or stays.           *)
LEMMA RowChosen ==
  ASSUME ShellInv, ChooseRow PROVE ShellInv'
<1>1. PICK k \in FilteredCommands(palette.query) :
         /\ section' = (IF AllCommands[k].kind = "action" THEN section ELSE AllCommands[k].section)
         /\ subTab' = (IF AllCommands[k].kind = "action" THEN subTab ELSE AllCommands[k].tab)
  BY DEF ChooseRow
<1>2. AllCommands[k] \in GoodCommands
  BY RowsOfTheList
<1>3. Drawn(section', subTab')
  BY <1>1, <1>2 DEF GoodCommands, ShellInv
<1>4. palette' = Closed /\ UNCHANGED <<navStyle, mobile, profile>> /\ UserActs(section')
  BY DEF ChooseRow
<1>5. SectionChange(section', subTab')
  BY <1>4 DEF SectionChange
<1>6. {mobile', profile'} \subseteq BOOLEAN
  BY <1>4, Zenon DEF ShellInv, ShellTypeOK, Palettes
<1> QED
  BY <1>3, <1>4, <1>5, <1>6, SectionOpened

(* The answers write the badge; the loads stay those of the alert view.     *)
LEMMA CountsWritten ==
  ASSUME ShellInv, \/ ~pollCall /\ Timer(0)
                   \/ section = "telemetry" /\ Timer(1)
                   \/ AppAnswer \/ ViewAnswer
  PROVE  ShellInv'
<1>1. {MaxPolls, Active, Acknowledged} \subseteq Nat
  BY ShellAssumption
<1>2. /\ viewCalls \in Nat /\ polls \in 0..MaxPolls /\ badge \in 0..(Active + Acknowledged)
      /\ section # "telemetry" => viewCalls = 0
      /\ pollCall \in BOOLEAN /\ mobile \in BOOLEAN /\ profile \in BOOLEAN /\ away \in BOOLEAN
  BY DEF ShellInv, ShellTypeOK, Palettes
<1>3. UNCHANGED <<section, subTab, navStyle, mobile, profile, palette, away>>
  BY DEF Timer, AppAnswer, ViewAnswer, navVars
<1>4. pollCall' \in BOOLEAN
  <2>1. CASE \E n \in {0, 1} : Timer(n)
    BY <2>1, <1>2, Zenon DEF Timer
  <2>2. CASE AppAnswer
    BY <2>2 DEF AppAnswer
  <2>3. CASE ViewAnswer
    BY <2>3, <1>2 DEF ViewAnswer
  <2> QED
    BY <2>1, <2>2, <2>3
<1>5. /\ viewCalls' \in Nat /\ polls' \in 0..MaxPolls /\ badge' \in 0..(Active + Acknowledged)
      /\ section # "telemetry" => viewCalls' = 0
  <2>1. CASE Timer(0)
    BY <2>1, <1>1, <1>2 DEF Timer
  <2>2. CASE section = "telemetry" /\ Timer(1)
    BY <2>2, <1>1, <1>2 DEF Timer
  <2>3. CASE AppAnswer
    <3>1. viewCalls' \in {Redraws(section), viewCalls} /\ badge' = Active /\ polls' = polls
      BY <2>3 DEF AppAnswer
    <3> QED
      BY <3>1, <1>1, <1>2 DEF Redraws
  <2>4. CASE ViewAnswer
    <3>1. /\ viewCalls > 0 /\ viewCalls' \in {Redraws(section) - 1, viewCalls - 1}
          /\ badge' = Active + Acknowledged /\ polls' = polls
      BY <2>4 DEF ViewAnswer
    <3> QED
      BY <3>1, <1>1, <1>2 DEF Redraws
  <2> QED
    BY <2>1, <2>2, <2>3, <2>4
<1>6. {mobile', profile', pollCall', away'} \subseteq BOOLEAN
  BY <1>2, <1>3, <1>4, Zenon
<1> QED
  BY <1>3, <1>5, <1>6 DEF ShellInv, ShellTypeOK, Palettes, Drawn

(* Every act, answer and timer keeps the invariant.                         *)
LEMMA ShellSteps == ShellInv /\ [ShellNext]_shellVars => ShellInv'
<1> SUFFICES ASSUME ShellInv, [ShellNext]_shellVars PROVE ShellInv'
  OBVIOUS
<1>1. /\ mobile \in BOOLEAN /\ profile \in BOOLEAN /\ section \in Sections
      /\ Drawn(section, subTab) /\ navStyle \in {"dock", "sidebar", "both"}
      /\ palette \in Palettes
  BY DEF ShellInv, ShellTypeOK, Palettes, Drawn
<1>2. ASSUME UNCHANGED profile, mobile' \in BOOLEAN PROVE {mobile', profile'} \subseteq BOOLEAN
  BY <1>1, <1>2, Zenon
<1>3. ASSUME NEW s \in Sections, Dock(s) \/ Sidebar(s) PROVE ShellInv'
  <2>1. SectionChange(s, DefaultTab(s)) /\ UNCHANGED <<profile, palette>> /\ mobile' \in BOOLEAN
    BY <1>1, <1>3 DEF Dock, Sidebar, SameWindows
  <2> QED
    BY <2>1, <1>2, DefaultIsDrawn, SectionOpened
<1>4. ASSUME NEW t \in UNION {StripOf(section), ShortcutsOf(section)}, SubTab(t) PROVE ShellInv'
  <2>1. SectionChange(section, t) /\ UNCHANGED <<mobile, profile, palette>>
        /\ t \in StripOf(section) \cup ShortcutsOf(section)
    BY <1>4 DEF SubTab, SameWindows
  <2> QED
    BY <2>1, <1>1, <1>2, SubTabsAreDrawn, SectionOpened
<1>5. ASSUME NEW to \in {<<"devices", "terminal">>, <<"bgp", "sessions">>}, DeviceButton(to)
      PROVE  ShellInv'
  <2>1. SectionChange(to[1], to[2]) /\ UNCHANGED <<mobile, profile, palette>>
    BY <1>5 DEF DeviceButton, SameWindows
  <2>2. Drawn(to[1], to[2])
    BY <1>5 DEF Drawn, Sections, Panel, DevicesPanel, BgpPanel
  <2> QED
    BY <2>1, <2>2, <1>1, <1>2, SectionOpened
<1>6. CASE AlertsPill
  <2>1. SectionChange("telemetry", "alerts") /\ UNCHANGED <<mobile, profile, palette>>
    BY <1>6 DEF AlertsPill, SameWindows
  <2>2. Drawn("telemetry", "alerts")
    BY DEF Drawn, Sections, Panel, TelemetryPanel
  <2> QED
    BY <2>1, <2>2, <1>1, <1>2, SectionOpened
<1>7. CASE ToggleDrawer
  <2>1. /\ UserActs(section) /\ UNCHANGED <<section, subTab, navStyle, profile, palette>>
        /\ mobile' \in BOOLEAN
    BY <1>7, <1>1 DEF ToggleDrawer
  <2> QED
    BY <2>1, <1>1, <1>2, WindowChanged
<1>8. CASE ToggleProfile
  <2>1. /\ UserActs(section) /\ UNCHANGED <<section, subTab, navStyle, mobile, palette>>
        /\ profile' \in BOOLEAN
    BY <1>8, <1>1 DEF ToggleProfile
  <2>2. {mobile', profile'} \subseteq BOOLEAN
    BY <2>1, <1>1, Zenon
  <2> QED
    BY <2>1, <2>2, <1>1, WindowChanged
<1>9. CASE \E n \in {"dock", "sidebar", "both"} : ChooseNavStyle(n)
  <2>1. /\ UserActs(section) /\ UNCHANGED <<section, subTab, mobile, profile, palette>>
        /\ navStyle' \in {"dock", "sidebar", "both"}
    BY <1>9 DEF ChooseNavStyle
  <2> QED
    BY <2>1, <1>1, <1>2, WindowChanged
<1>10. CASE TogglePalette
  <2>1. /\ UserActs(section) /\ UNCHANGED <<section, subTab, navStyle, mobile, profile>>
        /\ palette' \in {Closed, [Closed EXCEPT !.open = TRUE]}
    BY <1>10 DEF TogglePalette
  <2>2. palette' \in Palettes
    BY <2>1, PaletteTyped
  <2> QED
    BY <2>1, <2>2, <1>1, <1>2, WindowChanged
<1>11. CASE LeaveOpen
  BY <1>11 DEF LeaveOpen, navVars, ShellInv, ShellTypeOK, Drawn
<1>12. CASE ClearQuery \/ \E q \in Queries : TypeQuery(q)
  <2>1. PICK p \in Palettes : SetPalette(p)
    <3>1. CASE ClearQuery
      <4>1. "" \in Queries /\ SetPalette([palette EXCEPT !.query = ""])
        BY <3>1 DEF ClearQuery, Queries
      <4> QED
        BY <4>1, <1>1, PaletteTyped
    <3>2. ASSUME NEW q \in Queries, TypeQuery(q)
          PROVE  \E p \in Palettes : SetPalette(p)
      <4>1. [palette EXCEPT !.query = q, !.index = 0]
              \in Palettes
        BY <1>1, <3>2, PaletteTyped
      <4> QED
        BY <3>2, <4>1 DEF TypeQuery
    <3> QED
      BY <1>12, <3>1, <3>2
  <2> QED
    BY <2>1, PaletteSet
<1>13. CASE UNCHANGED shellVars
  BY <1>13 DEF shellVars, ShellInv, ShellTypeOK, Drawn
<1> QED
  BY <1>3, <1>4, <1>5, <1>6, <1>7, <1>8, <1>9, <1>10, <1>11, <1>12, <1>13,
     ArrowMoves, RowChosen, CountsWritten DEF ShellNext

(* The invariant holds in every reachable state.                            *)
LEMMA ShellInvariant == ShellSpec => []ShellInv
BY ShellStarts, ShellSteps, PTL DEF ShellSpec

(* Windows, palette and counts keep their types: the highlighted row is one *)
(* of the list or just outside it, and no load is answered twice.           *)
THEOREM ShellTypeCorrect == ShellSpec => []ShellTypeOK
<1>1. ShellInv => ShellTypeOK
  BY DEF ShellInv
<1> QED
  BY ShellInvariant, <1>1, PTL

(* Whatever menu, command, shortcut or badge was followed, the section and  *)
(* the sub-tab draw a view.                                                 *)
THEOREM AViewIsAlwaysDrawn == ShellSpec => []SectionShowsAView
<1>1. ShellInv => SectionShowsAView
  BY DEF ShellInv, Drawn, SectionShowsAView
<1> QED
  BY ShellInvariant, <1>1, PTL

-----------------------------------------------------------------------------
Tokens == [upstream : Upstreams, level : Levels]

(* A line mentions every upstream once at most.                             *)
OneLevel(line) ==
  \A u \in Upstreams, j, k \in DOMAIN line : IsOf(u, line[j]) /\ IsOf(u, line[k]) => j = k

(* While nothing was pasted blindly the router, the table the console read  *)
(* from it and the line an operator has copied all mention an upstream once.*)
ScriptsInv ==
  /\ community \in Seq(Tokens) /\ table.community \in Seq(Tokens) /\ window \in Tokens
  /\ clipboard.what = "community" => clipboard.value \in Seq(Tokens)
  /\ clipboard.what = "set" => clipboard.value[1] \in Tokens
  /\ ~blindly =>
       /\ OneLevel(community) /\ OneLevel(table.community)
       /\ clipboard.what = "community" /\ ~clipboard.blind => OneLevel(clipboard.value)

-----------------------------------------------------------------------------
(* A finite set written down as a sequence: every element stands in it once.*)
LEMMA InSomeOrder ==
  ASSUME NEW S, IsFiniteSet(S)
  PROVE  SetToSeq(S) \in Seq(S) /\ IsInjective(SetToSeq(S))
<1> DEFINE n == Cardinality(S)
<1>1. n \in Nat /\ \E f : ExistsBijection(1..n, S)
  BY FS_CardinalityType
<1>2. PICK f : f \in Bijection(1..n, S)
  BY <1>1, FS_CardinalityType DEF ExistsBijection
<1>3. f \in [1..n -> S] /\ IsInjective(f)
  BY <1>2 DEF Bijection, Injection, IsInjective
<1>4. SetToSeq(S) \in [1..n -> S] /\ IsInjective(SetToSeq(S))
  BY <1>3 DEF SetToSeq
<1> QED
  BY <1>1, <1>4, SeqDef

(* Tokens of finitely many upstreams.                                       *)
LEMMA FiniteTokens ==
  ASSUME NEW U, IsFiniteSet(U), NEW f
  PROVE  IsFiniteSet({Token(u, f[u]) : u \in U})
<1> DEFINE said == {Token(u, f[u]) : u \in U}
           g == [u \in U |-> Token(u, f[u])]
<1>1. g \in Surjection(U, said)
  BY DEF Surjection
<1> QED
  BY <1>1, FS_Surjection

(* A line that is not mentioned twice keeps so when a token takes the place *)
(* of its upstream's, or is added where there was none.                     *)
LEMMA NewLineHasOneLevel ==
  ASSUME NEW line \in Seq(Tokens), NEW new \in Tokens
  PROVE  /\ NewLine(line, new) \in Seq(Tokens)
         /\ OneLevel(line) => OneLevel(NewLine(line, new))
<1> DEFINE updated == [k \in DOMAIN line |-> IF IsOf(new.upstream, line[k]) THEN new ELSE line[k]]
<1>1. Len(line) \in Nat /\ DOMAIN line = 1..Len(line) /\ \A k \in 1..Len(line) : line[k] \in Tokens
  BY LenProperties, ElementOfSeq
<1>2. updated \in [1..Len(line) -> Tokens]
  BY <1>1
<1>3. updated \in Seq(Tokens) /\ Len(updated) = Len(line)
  BY <1>1, <1>2, SeqDef, LenProperties
<1>4. \A k \in 1..Len(line) : updated[k].upstream = line[k].upstream
  BY <1>1 DEF IsOf
<1>5. OneLevel(line) => OneLevel(updated)
  BY <1>1, <1>4 DEF OneLevel, IsOf
<1>6. CASE HasOne(new.upstream, line)
  BY <1>3, <1>5, <1>6 DEF NewLine
<1>7. CASE ~HasOne(new.upstream, line)
  <2> DEFINE added == Append(updated, new)
  <2>1. NewLine(line, new) = added
    BY <1>7 DEF NewLine
  <2>2. added \in Seq(Tokens) /\ Len(added) = Len(line) + 1 /\ added[Len(line) + 1] = new
        /\ \A k \in 1..Len(line) : added[k] = updated[k]
    BY <1>3, AppendProperties
  <2>3. DOMAIN added = 1..(Len(line) + 1)
    BY <2>2, LenProperties
  <2>4. \A k \in 1..Len(line) : line[k].upstream # new.upstream
    BY <1>1, <1>7 DEF HasOne, IsOf
  <2>5. ASSUME OneLevel(line) PROVE OneLevel(added)
    <3> SUFFICES ASSUME NEW u \in Upstreams, NEW j \in DOMAIN added, NEW k \in DOMAIN added,
                        added[j].upstream = u, added[k].upstream = u
                 PROVE  j = k
      BY DEF OneLevel, IsOf
    <3>1. \A i \in 1..Len(line) : added[i].upstream = line[i].upstream
      BY <2>2, <1>4
    <3>2. \A i \in DOMAIN added : i \in 1..Len(line) \/ i = Len(line) + 1
      BY <2>3, <1>1
    <3>3. CASE j \in 1..Len(line) /\ k \in 1..Len(line)
      BY <3>1, <3>3, <2>5, <1>1 DEF OneLevel, IsOf
    <3> QED
      BY <3>1, <3>2, <3>3, <2>2, <2>4
  <2> QED
    BY <2>1, <2>2, <2>5
<1> QED
  BY <1>6, <1>7

(* The levels change together: what a MikroTik command pastes mentions the  *)
(* upstreams the router mentioned before.                                   *)
LEMMA LevelSetOnAll ==
  ASSUME community \in Seq(Tokens), NEW new \in Tokens
  PROVE  /\ SetLevel(new) \in Seq(Tokens)
         /\ OneLevel(community) => OneLevel(SetLevel(new))
<1>1. Len(community) \in Nat /\ DOMAIN community = 1..Len(community)
      /\ \A k \in 1..Len(community) : community[k] \in Tokens
  BY LenProperties, ElementOfSeq
<1>2. SetLevel(new) \in [1..Len(community) -> Tokens]
  BY <1>1 DEF SetLevel, Token, Tokens
<1>3. DOMAIN SetLevel(new) = DOMAIN community
      /\ \A k \in DOMAIN community : SetLevel(new)[k].upstream = community[k].upstream
  BY DEF SetLevel, Token
<1>4. OneLevel(community) => OneLevel(SetLevel(new))
  BY <1>3 DEF OneLevel, IsOf
<1> QED
  BY <1>1, <1>2, <1>4, SeqDef

(* Without a table the preset upstreams are told the plain level; the line  *)
(* is one of tokens, and may mention the chosen upstream twice.             *)
LEMMA DefaultLineTyped ==
  ASSUME NEW new \in Tokens PROVE DefaultLine(new) \in Seq(Tokens)
<1> DEFINE preset == {Token(u, Plain) : u \in Preset}
<1>1. IsFiniteSet(preset) /\ preset \subseteq Tokens
  <2>1. IsFiniteSet(Preset)
    BY ScriptsAssumption, FS_Subset
  <2>2. preset = {Token(u, [w \in Preset |-> Plain][u]) : u \in Preset}
    OBVIOUS
  <2>3. IsFiniteSet(preset)
    BY <2>1, <2>2, FiniteTokens
  <2> QED
    BY <2>3, ScriptsAssumption DEF Token, Tokens
<1>2. SetToSeq(preset) \in Seq(preset)
  BY <1>1, InSomeOrder
<1>3. SetToSeq(preset) \in Seq(Tokens)
  BY <1>1, <1>2
<1>4. <<new>> \in Seq(Tokens)
  OBVIOUS
<1> QED
  BY <1>3, <1>4, ConcatProperties DEF DefaultLine

(* The router starts with one community per upstream it mentions.           *)
LEMMA ScriptsStart == ScriptsInit => ScriptsInv
<1> SUFFICES ASSUME ScriptsInit PROVE ScriptsInv
  OBVIOUS
<1>1. PICK U \in {Upstreams, Preset}, f \in [Upstreams -> Levels] :
         community = SetToSeq({Token(u, f[u]) : u \in U})
  BY Zenon DEF ScriptsInit
<1> DEFINE said == {Token(u, f[u]) : u \in U}
<1>2. IsFiniteSet(U) /\ U \subseteq Upstreams
  BY ScriptsAssumption, FS_Subset
<1>3. IsFiniteSet(said)
  BY <1>2, FiniteTokens
<1>4. said \subseteq Tokens /\ \A s, t \in said : s.upstream = t.upstream => s = t
  BY <1>2 DEF Token, Tokens
<1>5. community \in Seq(said) /\ IsInjective(community)
  BY <1>1, <1>3, InSomeOrder
<1>6. \A k \in DOMAIN community : community[k] \in said
  BY <1>5, LenProperties, ElementOfSeq
<1>7. OneLevel(community)
  BY <1>4, <1>5, <1>6 DEF OneLevel, IsOf, IsInjective
<1>8. community \in Seq(Tokens)
  BY <1>4, <1>5
<1>9. table.community = <<>> /\ <<>> \in Seq(Tokens) /\ OneLevel(<<>>)
  BY EmptySeq DEF ScriptsInit, OneLevel
<1>10. window \in Tokens
  BY ScriptsAssumption DEF ScriptsInit, Token, Tokens
<1>11. clipboard.what = "nothing"
  BY DEF ScriptsInit, Nothing
<1> QED
  BY <1>7, <1>8, <1>9, <1>10, <1>11 DEF ScriptsInv

(* What is copied mentions an upstream once, unless it was written blindly. *)
LEMMA PrependCopied ==
  ASSUME ScriptsInv, CopyPrepend PROVE ScriptsInv'
<1>1. UNCHANGED <<community, table, window, blindly>>
  BY DEF CopyPrepend, CopyCommands
<1>2. /\ community' \in Seq(Tokens) /\ table'.community \in Seq(Tokens) /\ window' \in Tokens
      /\ ~blindly' => OneLevel(community)' /\ OneLevel(table.community)'
  BY <1>1 DEF ScriptsInv, OneLevel
<1>3. CASE vendor = "huawei" /\ CopyCommands("community", HuaweiLine, table.community = <<>>)
  <2>1. clipboard'.what = "community" /\ clipboard'.value = HuaweiLine
        /\ clipboard'.blind = (table.community = <<>>)
    BY <1>3 DEF CopyCommands
  <2>2. HuaweiLine \in Seq(Tokens)
    BY NewLineHasOneLevel, DefaultLineTyped DEF ScriptsInv, HuaweiLine
  <2>3. ~blindly /\ table.community # <<>> => OneLevel(HuaweiLine)
    BY NewLineHasOneLevel DEF ScriptsInv, HuaweiLine
  <2>4. ~blindly' /\ ~clipboard'.blind => OneLevel(clipboard'.value)
    BY <2>1, <2>3, <1>1
  <2>5. OneLevel(clipboard'.value) => OneLevel(clipboard.value)'
    BY DEF OneLevel
  <2> QED
    BY <1>2, <2>1, <2>2, <2>4, <2>5 DEF ScriptsInv
<1>4. CASE vendor = "mikrotik" /\ CopyCommands("set", <<window>>, FALSE)
  <2>1. clipboard'.what = "set" /\ clipboard'.value[1] = window
    BY <1>4 DEF CopyCommands
  <2> QED
    BY <1>1, <1>2, <2>1 DEF ScriptsInv
<1> QED
  BY <1>3, <1>4 DEF CopyPrepend

(* A paste hands the router what was copied: the communities of the line,   *)
(* or one level for all of its own.                                         *)
LEMMA LinePasted ==
  ASSUME ScriptsInv, Paste PROVE ScriptsInv'
<1>1. UNCHANGED <<table, window, clipboard>> /\ blindly' = (blindly \/ clipboard.blind)
  BY DEF Paste
<1>2. community' \in Seq(Tokens) /\ (~blindly' => OneLevel(community'))
  <2>1. CASE clipboard.what = "community"
    <3>1. community' = clipboard.value
      BY <2>1 DEF Paste
    <3>2. clipboard.value \in Seq(Tokens) /\ (~blindly /\ ~clipboard.blind => OneLevel(clipboard.value))
      BY <2>1 DEF ScriptsInv
    <3> QED
      BY <1>1, <3>1, <3>2
  <2>2. CASE clipboard.what = "set"
    <3>1. community' = SetLevel(clipboard.value[1])
      BY <2>2 DEF Paste
    <3>2. clipboard.value[1] \in Tokens
      BY <2>2 DEF ScriptsInv
    <3>3. /\ SetLevel(clipboard.value[1]) \in Seq(Tokens)
          /\ OneLevel(community) => OneLevel(SetLevel(clipboard.value[1]))
      BY <3>2, LevelSetOnAll DEF ScriptsInv
    <3> QED
      BY <1>1, <3>1, <3>3 DEF ScriptsInv
  <2>3. CASE clipboard.what \notin {"community", "set"}
    <3>1. community' = community
      BY <2>3 DEF Paste
    <3> QED
      BY <1>1, <3>1 DEF ScriptsInv
  <2> QED
    BY <2>1, <2>2, <2>3
<1>3. OneLevel(community') => OneLevel(community)'
  BY DEF OneLevel
<1>4. /\ OneLevel(table.community) => OneLevel(table.community)'
      /\ OneLevel(clipboard.value) => OneLevel(clipboard.value)'
  BY <1>1 DEF OneLevel
<1> QED
  BY <1>1, <1>2, <1>3, <1>4 DEF ScriptsInv

(* Every act of the operator and of the page keeps the invariant.           *)
LEMMA ScriptsSteps == ScriptsInv /\ [ScriptsNext]_scriptVars => ScriptsInv'
<1> SUFFICES ASSUME ScriptsInv, [ScriptsNext]_scriptVars PROVE ScriptsInv'
  OBVIOUS
<1>1. CASE ReadRouter
  <2>1. UNCHANGED <<community, window, clipboard, blindly>> /\ table'.community = community
    BY <1>1 DEF ReadRouter
  <2>2. OneLevel(community) => OneLevel(community)' /\ OneLevel(table.community)'
    BY <2>1 DEF OneLevel
  <2>3. OneLevel(clipboard.value) => OneLevel(clipboard.value)'
    BY <2>1 DEF OneLevel
  <2> QED
    BY <2>1, <2>2, <2>3 DEF ScriptsInv
<1>2. CASE \E u \in Upstreams, l \in Levels : ChooseLevel(u, l)
  <2>1. UNCHANGED <<community, table, clipboard, blindly>> /\ window' \in Tokens
    BY <1>2 DEF ChooseLevel, Token, Tokens
  <2> QED
    BY <2>1 DEF ScriptsInv, OneLevel
<1>3. ASSUME NEW what, NEW value, what \notin {"community", "set"},
             CopyCommands(what, value, FALSE)
      PROVE  ScriptsInv'
  <2>1. UNCHANGED <<community, table, window, blindly>> /\ clipboard'.what = what
    BY <1>3 DEF CopyCommands
  <2> QED
    BY <1>3, <2>1 DEF ScriptsInv, OneLevel
<1>4. CASE \E l \in Levels : CopyLocalPref(l)
  BY <1>3, <1>4 DEF CopyLocalPref
<1>5. CASE CopyAddRoute(Width - 1)
  BY <1>3, <1>5 DEF CopyAddRoute
<1>6. CASE CopyDeleteRoute(Width - 1)
  BY <1>3, <1>6 DEF CopyDeleteRoute
<1>7. CASE UNCHANGED scriptVars
  BY <1>7 DEF scriptVars, ScriptsInv, OneLevel
<1> QED
  BY <1>1, <1>2, <1>4, <1>5, <1>6, <1>7, PrependCopied, LinePasted DEF ScriptsNext

(* However old the table a line was written from, and however often it is   *)
(* pasted, the router is told one thing about an upstream, unless the line  *)
(* was written without any table.                                           *)
THEOREM OneLevelIsTold == ScriptsSpec => []OneLevelPerUpstream
<1>1. ScriptsInv => OneLevelPerUpstream
  BY DEF ScriptsInv, OneLevel, OneLevelPerUpstream
<1> QED
  BY ScriptsStart, ScriptsSteps, <1>1, PTL DEF ScriptsSpec
=============================================================================
