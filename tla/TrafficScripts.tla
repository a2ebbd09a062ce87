--------------------------- MODULE TrafficScripts ---------------------------
(***************************************************************************)
(* The commands the console writes for an operator to paste into a router  *)
(* (trafficHelpers and the windows of TrafficModals that show them): the   *)
(* communities that prepend or block a prefix towards an upstream, the     *)
(* local preference, and static routes.  The console never sends them: it  *)
(* works from the table it last read, and the operator pastes later.       *)
(***************************************************************************)
EXTENDS Integers, Sequences, FiniteSets, SequencesExt

CONSTANTS
    Upstreams,   \* community bases, one per upstream
    Preset,      \* those the default line of commands mentions: 4000 to 4300
    Levels,      \* what a prefix may be towards an upstream: prepends, or blocked
    Plain,       \* the level of the default line: no prepend
    Width,       \* bits of an address, 32 in the code; a multiple of 4
    MaxPastes    \* bound

ASSUME ScriptsAssumption ==
    /\ IsFiniteSet(Upstreams) /\ Upstreams # {} /\ Preset \subseteq Upstreams
    /\ Plain \in Levels /\ MaxPastes \in Nat
    /\ Width \in {8, 16, 32}

-----------------------------------------------------------------------------
\* cidrToNetmask: a shift in Width bits, then four parts.
Part(word, k) == (word \div 2^(k * (Width \div 4))) % 2^(Width \div 4)

CidrToNetmask(prefix) ==
    LET mask == IF prefix <= 0 THEN 0 ELSE IF prefix >= Width THEN 2^Width - 1
                ELSE ((2^Width - 1) * 2^(Width - prefix)) % 2^Width
    IN  [k \in 1..4 |-> Part(mask, 4 - k)]

\* Reference: part k of the mask of a prefix starts with its share of the ones.
Ones(prefix, k) == LET w == Width \div 4  n == prefix - (k - 1) * w
                   IN IF n <= 0 THEN 0 ELSE IF n >= w THEN w ELSE n

\* The mask of every prefix length has that many leading ones, whatever the shift
\* does at its ends (cidrToNetmask, checked for every length).
ASSUME NetmaskHasThePrefix ==
    \A p \in 0..Width, k \in 1..4 :
        CidrToNetmask(p)[k] = 2^(Width \div 4) - 2^(Width \div 4 - Ones(p, k))

-----------------------------------------------------------------------------
VARIABLES
    vendor,
    community, \* the router: what it tells each upstream about the prefix, in order
    localPref, \* the router: the level of preference of the peer
    routes,    \* the router: [length, mask] of its static routes
    table,     \* what the console read last: [community, routes]; <<>>: not known
    window,    \* the window: [upstream, level]
    clipboard, \* the commands copied: [what, value, blind]
    pastes,
    blindly    \* commands written without knowing the communities were pasted

scriptVars == <<vendor, community, localPref, routes, table, window, clipboard, pastes, blindly>>

Token(u, l) == [upstream |-> u, level |-> l]

\* The test of the regular expression [01]:base followed by one digit.
IsOf(u, t) == t.upstream = u

HasOne(u, line) == \E k \in DOMAIN line : IsOf(u, line[k])

Nothing == [what |-> "nothing", value |-> <<>>, blind |-> FALSE]

\* Each upstream is mentioned at most once.  Communities of other forms stay where they
\* are and are left out.
ScriptsInit ==
    /\ vendor \in {"huawei", "mikrotik", "datacom"}
    /\ \E U \in {Upstreams, Preset}, f \in [Upstreams -> Levels] :
          community = SetToSeq({Token(u, f[u]) : u \in U})
    /\ localPref = Plain /\ routes = {} /\ table = [community |-> <<>>, routes |-> {}]
    /\ window = Token(CHOOSE u \in Upstreams : TRUE, Plain) /\ clipboard = Nothing
    /\ pastes = 0 /\ blindly = FALSE

ReadRouter == /\ table' = [community |-> community, routes |-> routes]
              /\ UNCHANGED <<vendor, community, localPref, routes, window, clipboard, pastes, blindly>>

\* openPrependModal starts from the level shown; the buttons of the window choose another.
ChooseLevel(u, l) == /\ window' = Token(u, l)
                     /\ UNCHANGED <<vendor, community, localPref, routes, table, clipboard, pastes, blindly>>

\* With no community known, a default line for the upstream and the preset ones.
DefaultLine(new) == <<new>> \o SetToSeq({Token(u, Plain) : u \in Preset})

\* Mutant: the new community is added and the old ones stay.
NewLineAdded(line, new) == Append(line, new)

\* Tokens of the upstream are replaced; without one, the new token is added.
NewLine(line, new) ==
    LET updated == [k \in DOMAIN line |-> IF IsOf(new.upstream, line[k]) THEN new ELSE line[k]]
    IN  IF HasOne(new.upstream, line) THEN updated ELSE Append(updated, new)

CopyCommands(what, value, blind) ==
    /\ clipboard' = [what |-> what, value |-> value, blind |-> blind]
    /\ UNCHANGED <<vendor, community, localPref, routes, table, window, pastes, blindly>>

HuaweiLine == IF table.community = <<>> THEN DefaultLine(window) ELSE NewLine(table.community, window)

\* getPrependCliPreviewForDevice: nothing for a Datacom router.
CopyPrepend ==
    \/ /\ vendor = "huawei"
       /\ CopyCommands("community", HuaweiLine, table.community = <<>>)
    \/ /\ vendor = "mikrotik"
       /\ CopyCommands("set", <<window>>, FALSE)

\* getLocalPrefCliPreview.
CopyLocalPref(l) == CopyCommands("local_pref", <<l>>, FALSE)

\* How a router names the destination of a static route.
RouteKey(length) ==
    [length |-> length, mask |-> IF vendor = "huawei" THEN CidrToNetmask(length) ELSE <<>>]

\* getStaticRouteCliPreview and getDeleteStaticRouteCliPreview.
CopyAddRoute(length) == CopyCommands("add_route", <<RouteKey(length)>>, FALSE)

CopyDeleteRoute(length) ==
    /\ \E r \in table.routes : r.length = length
    /\ CopyCommands("delete_route", <<RouteKey(length)>>, FALSE)

\* The MikroTik command finds the filters by the prefix only: those of every upstream.
SetLevel(new) == [k \in DOMAIN community |-> Token(community[k].upstream, new.level)]

\* The operator pastes what was copied, once or again.
Paste ==
    LET v == clipboard.value IN
    /\ clipboard # Nothing /\ pastes < MaxPastes /\ pastes' = pastes + 1
    /\ community' = CASE clipboard.what = "community" -> v
                      [] clipboard.what = "set"       -> SetLevel(v[1])
                      [] OTHER                        -> community
    /\ localPref' = IF clipboard.what = "local_pref" THEN v[1] ELSE localPref
    /\ routes' = CASE clipboard.what = "add_route"    -> routes \cup {v[1]}
                   [] clipboard.what = "delete_route" -> routes \ {v[1]}
                   [] OTHER                           -> routes
    /\ blindly' = (blindly \/ clipboard.blind)
    /\ UNCHANGED <<vendor, table, window, clipboard>>

ScriptsNext ==
    \/ ReadRouter \/ CopyPrepend \/ Paste
    \/ \E u \in Upstreams, l \in Levels : ChooseLevel(u, l)
    \/ \E l \in Levels : CopyLocalPref(l)
    \/ CopyAddRoute(Width - 1) \/ CopyDeleteRoute(Width - 1)

ScriptsSpec == ScriptsInit /\ [][ScriptsNext]_scriptVars

-----------------------------------------------------------------------------
(***************************************************************************)
(* However often an operator copies and pastes, from a table as old as it  *)
(* may be, a prefix never tells the router two things about one upstream:  *)
(* the new community takes the place of the old one.  The exception is a   *)
(* line written before any table was read, whose preset communities may    *)
(* contradict the one chosen (getPrependCliPreviewForDevice).              *)
(***************************************************************************)
OneLevelPerUpstream ==
    ~blindly => \A u \in Upstreams, j, k \in DOMAIN community :
                    IsOf(u, community[j]) /\ IsOf(u, community[k]) => j = k
=============================================================================
