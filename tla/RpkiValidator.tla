--------------------------- MODULE RpkiValidator ---------------------------
(***************************************************************************)
(* The RPKI validator (rpki/validator.go): handlers look a route and its   *)
(* origin up in a cache that holds for six hours, then in the list of the  *)
(* provider's own ROAs, and ask a public service only when none matches.   *)
(* Addresses are numbers of AddressBits bits.                              *)
(***************************************************************************)
EXTENDS Integers, Sequences

CONSTANTS
    AddressBits, \* bits of an address
    Roas,        \* ownROAs, in the order of the code
    Routes,      \* prefixes asked for: [first, len]
    Malformed,   \* a prefix that does not parse
    Asns,        \* origins asked for
    Askers,      \* handlers under way at a time
    MaxQuestions \* bound: calls of Validate in a behaviour

Network == [first : 0..2^AddressBits - 1, len : 0..AddressBits]

\* roaNet.Contains(address)
NetContains(roa, address) ==
    address \div 2^(AddressBits - roa.len) = roa.first \div 2^(AddressBits - roa.len)

\* ROAs of the list that share an address name one holder and one maximal length.
ASSUME RpkiAssumption ==
    /\ AddressBits \in Nat /\ Asns # {} /\ Routes \subseteq Network /\ Malformed \notin Network
    /\ Roas \in Seq([first : 0..2^AddressBits - 1, len : 0..AddressBits, max : 0..AddressBits, asn : Asns])
    /\ \A i, j \in DOMAIN Roas, n \in 0..2^AddressBits - 1 :
          NetContains(Roas[i], n) /\ NetContains(Roas[j], n)
              => Roas[i].max = Roas[j].max /\ Roas[i].asn = Roas[j].asn

AskedPrefixes == Routes \cup {Malformed}

Keys == AskedPrefixes \X Asns

RpkiStatuses == {"valid", "invalid", "notfound"}

VARIABLES
    rpkiCache, \* rpkiCache[k]: "none", or a status
    rpkiFresh, \* entries younger than six hours
    askStage,  \* of each handler: idle, missed (not in the cache), asking (the service)
    rpkiKey,   \* rpkiKey[a]: the key handler a was asked about
    verdict,   \* verdict[a]: what it answered last, "none" before
    questions  \* calls so far

rpkiVars == <<rpkiCache, rpkiFresh, askStage, rpkiKey, verdict, questions>>

-----------------------------------------------------------------------------
\* Mutant: a ROA of another holder is passed over, the service decides.
MatchesHolder(key) ==
    {i \in DOMAIN Roas : /\ Roas[i].asn = key[2]
                         /\ key[1] # Malformed /\ NetContains(Roas[i], key[1].first)}

\* The ROAs that the loop of checkLocalROAs stops at.
MatchingRoas(key) ==
    {i \in DOMAIN Roas : key[1] # Malformed /\ NetContains(Roas[i], key[1].first)}

LocalVerdict(roa, key) ==
    IF roa.asn = key[2] /\ key[1].len <= roa.max THEN "valid" ELSE "invalid"

\* Any key: it is read only where a call has set it.
FirstKey == CHOOSE k \in Keys : TRUE

RpkiInit ==
    /\ rpkiCache = [k \in Keys |-> "none"] /\ rpkiFresh = {}
    /\ askStage = [a \in Askers |-> "idle"] /\ rpkiKey = [a \in Askers |-> FirstKey]
    /\ verdict = [a \in Askers |-> "none"] /\ questions = 0

\* Validate, up to the first RUnlock.
Hit(a, k) ==
    /\ askStage[a] = "idle" /\ questions < MaxQuestions /\ k \in rpkiFresh
    /\ rpkiKey' = [rpkiKey EXCEPT ![a] = k] /\ verdict' = [verdict EXCEPT ![a] = rpkiCache[k]]
    /\ questions' = questions + 1
    /\ UNCHANGED <<rpkiCache, rpkiFresh, askStage>>

Miss(a, k) ==
    /\ askStage[a] = "idle" /\ questions < MaxQuestions /\ k \notin rpkiFresh
    /\ rpkiKey' = [rpkiKey EXCEPT ![a] = k] /\ verdict' = [verdict EXCEPT ![a] = "none"]
    /\ askStage' = [askStage EXCEPT ![a] = "missed"] /\ questions' = questions + 1
    /\ UNCHANGED <<rpkiCache, rpkiFresh>>

\* storeResult, and the answer of the handler.
Conclude(a, status) ==
    /\ rpkiCache' = [rpkiCache EXCEPT ![rpkiKey[a]] = status] /\ rpkiFresh' = rpkiFresh \cup {rpkiKey[a]}
    /\ verdict' = [verdict EXCEPT ![a] = status] /\ askStage' = [askStage EXCEPT ![a] = "idle"]
    /\ UNCHANGED <<rpkiKey, questions>>

Unparsable(a) ==
    /\ askStage[a] = "missed" /\ rpkiKey[a][1] = Malformed
    /\ Conclude(a, "invalid")

\* checkLocalROAs: the first ROA of the list that matches decides.
DecideLocally(a) ==
    /\ askStage[a] = "missed"
    /\ \E i \in MatchingRoas(rpkiKey[a]) :
          /\ \A j \in MatchingRoas(rpkiKey[a]) : i <= j
          /\ Conclude(a, LocalVerdict(Roas[i], rpkiKey[a]))

AskService(a) ==
    /\ askStage[a] = "missed" /\ rpkiKey[a][1] # Malformed /\ MatchingRoas(rpkiKey[a]) = {}
    /\ askStage' = [askStage EXCEPT ![a] = "asking"]
    /\ UNCHANGED <<rpkiCache, rpkiFresh, rpkiKey, verdict, questions>>

\* The service's word; an error, a refusal or a time-out counts as "notfound".
ServiceAnswers(a) ==
    /\ askStage[a] = "asking" /\ \E status \in RpkiStatuses : Conclude(a, status)

\* Six hours later.
Expire(k) ==
    /\ k \in rpkiFresh /\ rpkiFresh' = rpkiFresh \ {k}
    /\ UNCHANGED <<rpkiCache, askStage, rpkiKey, verdict, questions>>

RpkiNext ==
    \/ \E a \in Askers : \/ \E k \in Keys : Hit(a, k) \/ Miss(a, k)
                         \/ Unparsable(a) \/ DecideLocally(a)
                         \/ AskService(a) \/ ServiceAnswers(a)
    \/ \E k \in Keys : Expire(k)

RpkiSpec == RpkiInit /\ [][RpkiNext]_rpkiVars

-----------------------------------------------------------------------------
RpkiTypeOK ==
    /\ rpkiCache \in [Keys -> RpkiStatuses \cup {"none"}] /\ rpkiFresh \subseteq Keys
    /\ askStage \in [Askers -> {"idle", "missed", "asking"}] /\ rpkiKey \in [Askers -> Keys]
    /\ verdict \in [Askers -> RpkiStatuses \cup {"none"}] /\ questions \in Nat

\* RFC 6811, section 2: a ROA covers the routes inside its network.
CoveringRoas(route) ==
    {i \in DOMAIN Roas : Roas[i].len <= route.len /\ NetContains(Roas[i], route.first)}

Rfc6811(route, asn) ==
    IF CoveringRoas(route) = {} THEN "notfound"
    ELSE IF \E i \in CoveringRoas(route) : Roas[i].asn = asn /\ route.len <= Roas[i].max
         THEN "valid" ELSE "invalid"

AgreesWithRfc(key, status) ==
    (status # "none" /\ key[1] \in Routes /\ CoveringRoas(key[1]) # {})
        => status = Rfc6811(key[1], key[2])

(***************************************************************************)
(* A route inside the provider's own address space gets the verdict of     *)
(* RFC 6811 over all the provider's ROAs, in every answer and every entry  *)
(* of the cache: the nested networks of the list, of which the first that  *)
(* matches decides, a failing service and an old entry change nothing      *)
(* (Validate and checkLocalROAs).  It rests on the list: where ROAs that   *)
(* overlap name two holders or two lengths, the first match is not the     *)
(* RFC's answer.                                                           *)
(***************************************************************************)
OwnRoutesFollowRfc6811 ==
    /\ \A k \in Keys : AgreesWithRfc(k, rpkiCache[k])
    /\ \A a \in Askers : AgreesWithRfc(rpkiKey[a], verdict[a])
=============================================================================
