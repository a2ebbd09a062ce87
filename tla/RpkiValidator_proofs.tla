------------------------ MODULE RpkiValidator_proofs ------------------------
(***************************************************************************)
(* The RPKI validator agrees with RFC 6811 inside the provider's own       *)
(* address space, for any routes, any number of handlers and any list in   *)
(* which ROAs that overlap name one holder and one maximal length.         *)
(***************************************************************************)
EXTENDS RpkiValidator, TLAPS

(* Only keys without a matching ROA are put to the public service.          *)
AskedAreForeign ==
  \A a \in Askers : askStage[a] = "asking" => rpkiKey[a][1] # Malformed /\ MatchingRoas(rpkiKey[a]) = {}

RpkiInv == RpkiTypeOK /\ AskedAreForeign /\ OwnRoutesFollowRfc6811

-----------------------------------------------------------------------------
(* A ROA that covers a route in the RFC's sense is one the loop of          *)
(* checkLocalROAs stops at.                                                 *)
LEMMA CoveringRoasMatch ==
  ASSUME NEW key \in Keys, key[1] # Malformed
  PROVE  CoveringRoas(key[1]) \subseteq MatchingRoas(key)
BY DEF CoveringRoas, MatchingRoas

(* Whichever matching ROA comes first, its verdict on a covered route is    *)
(* the RFC's: it shares the route's first address with every ROA that       *)
(* covers the route, so they name one holder and one maximal length.        *)
LEMMA FirstMatchDecides ==
  ASSUME NEW key \in Keys, NEW i \in MatchingRoas(key)
  PROVE  AgreesWithRfc(key, LocalVerdict(Roas[i], key))
<1>1. SUFFICES ASSUME key[1] \in Routes, CoveringRoas(key[1]) # {}
               PROVE  LocalVerdict(Roas[i], key) = Rfc6811(key[1], key[2])
  BY DEF AgreesWithRfc
<1>2. i \in DOMAIN Roas /\ NetContains(Roas[i], key[1].first)
  BY DEF MatchingRoas
<1>3. \A j \in CoveringRoas(key[1]) : Roas[j].asn = Roas[i].asn /\ Roas[j].max = Roas[i].max
  <2> SUFFICES ASSUME NEW j \in CoveringRoas(key[1])
               PROVE  Roas[j].asn = Roas[i].asn /\ Roas[j].max = Roas[i].max
    OBVIOUS
  <2>1. j \in DOMAIN Roas /\ NetContains(Roas[j], key[1].first)
    BY DEF CoveringRoas
  <2>2. key[1].first \in 0..2^AddressBits - 1
    <3>1. key[1] \in Network
      BY <1>1, RpkiAssumption, Zenon
    <3> QED
      BY <3>1 DEF Network
  <2> QED
    BY <1>2, <2>1, <2>2, RpkiAssumption, Zenon
<1>4. (\E j \in CoveringRoas(key[1]) : Roas[j].asn = key[2] /\ key[1].len <= Roas[j].max)
        <=> (Roas[i].asn = key[2] /\ key[1].len <= Roas[i].max)
  BY <1>1, <1>3
<1> QED
  BY <1>1, <1>4 DEF LocalVerdict, Rfc6811

(* A first key exists, and is one that can be asked for.                    *)
LEMMA FirstKeyIsAKey == FirstKey \in Keys
<1>1. PICK n \in Asns : TRUE
  BY RpkiAssumption
<1>2. <<Malformed, n>> \in Keys
  BY <1>1 DEF Keys, AskedPrefixes
<1> QED
  BY <1>2, Zenon DEF FirstKey

(* Nothing is cached or answered in the beginning.                          *)
LEMMA RpkiStarts == RpkiInit => RpkiInv
BY FirstKeyIsAKey DEF RpkiInit, RpkiInv, RpkiTypeOK, AskedAreForeign, OwnRoutesFollowRfc6811,
   AgreesWithRfc, RpkiStatuses

-----------------------------------------------------------------------------
(* An answer that agrees with the RFC can be stored and given.              *)
LEMMA ConcludeKeepsInv ==
  ASSUME RpkiInv, NEW a \in Askers, NEW status \in RpkiStatuses, Conclude(a, status),
         AgreesWithRfc(rpkiKey[a], status)
  PROVE  RpkiInv'
<1> USE DEF RpkiInv, Conclude
<1>1. rpkiKey[a] \in Keys /\ rpkiKey' = rpkiKey
  BY DEF RpkiTypeOK
<1>2. RpkiTypeOK'
  BY <1>1 DEF RpkiTypeOK, RpkiStatuses
<1>3. AskedAreForeign'
  BY <1>1 DEF AskedAreForeign, RpkiTypeOK, MatchingRoas
<1>4. \A k \in Keys : AgreesWithRfc(k, rpkiCache'[k])
  <2> SUFFICES ASSUME NEW k \in Keys PROVE AgreesWithRfc(k, rpkiCache'[k])
    OBVIOUS
  <2>1. CASE k = rpkiKey[a]
    BY <2>1 DEF RpkiTypeOK
  <2>2. CASE k # rpkiKey[a]
    BY <2>2 DEF RpkiTypeOK, OwnRoutesFollowRfc6811
  <2> QED
    BY <2>1, <2>2
<1>5. \A b \in Askers : AgreesWithRfc(rpkiKey'[b], verdict'[b])
  <2> SUFFICES ASSUME NEW b \in Askers PROVE AgreesWithRfc(rpkiKey[b], verdict'[b])
    BY <1>1
  <2>1. CASE b = a
    BY <2>1 DEF RpkiTypeOK
  <2>2. CASE b # a
    BY <2>2 DEF RpkiTypeOK, OwnRoutesFollowRfc6811
  <2> QED
    BY <2>1, <2>2
<1>6. OwnRoutesFollowRfc6811'
  BY <1>4, <1>5 DEF OwnRoutesFollowRfc6811, AgreesWithRfc, CoveringRoas, Rfc6811
<1> QED
  BY <1>2, <1>3, <1>6

(* A hit answers what the cache holds, a miss answers nothing yet.          *)
LEMMA LookUpKeepsInv ==
  ASSUME RpkiInv, NEW a \in Askers, NEW k \in Keys, Hit(a, k) \/ Miss(a, k)
  PROVE  RpkiInv'
<1> USE DEF RpkiInv
<1>1. RpkiTypeOK'
  BY DEF RpkiTypeOK, Hit, Miss, RpkiStatuses
<1>2. AskedAreForeign'
  BY DEF AskedAreForeign, RpkiTypeOK, MatchingRoas, Hit, Miss
<1>3. rpkiCache' = rpkiCache /\ verdict'[a] \in {rpkiCache[k], "none"} /\ rpkiKey'[a] = k
  BY DEF Hit, Miss, RpkiTypeOK
<1>4. \A b \in Askers \ {a} : rpkiKey'[b] = rpkiKey[b] /\ verdict'[b] = verdict[b]
  BY DEF Hit, Miss, RpkiTypeOK
<1>5. \A b \in Askers : AgreesWithRfc(rpkiKey'[b], verdict'[b])
  BY <1>3, <1>4 DEF OwnRoutesFollowRfc6811, AgreesWithRfc
<1>6. OwnRoutesFollowRfc6811'
  BY <1>3, <1>5 DEF OwnRoutesFollowRfc6811, AgreesWithRfc, CoveringRoas, Rfc6811
<1> QED
  BY <1>1, <1>2, <1>6

(* What does not parse is no route.                                         *)
LEMMA UnparsableKeepsInv ==
  ASSUME RpkiInv, NEW a \in Askers, Unparsable(a)
  PROVE  RpkiInv'
<1>1. AgreesWithRfc(rpkiKey[a], "invalid")
  BY RpkiAssumption DEF Unparsable, AgreesWithRfc
<1> QED
  BY <1>1, ConcludeKeepsInv DEF Unparsable, RpkiStatuses

(* The first matching ROA answers as the RFC would.                         *)
LEMMA DecideKeepsInv ==
  ASSUME RpkiInv, NEW a \in Askers, DecideLocally(a)
  PROVE  RpkiInv'
<1>1. rpkiKey[a] \in Keys
  BY DEF RpkiInv, RpkiTypeOK
<1>2. PICK i \in MatchingRoas(rpkiKey[a]) : Conclude(a, LocalVerdict(Roas[i], rpkiKey[a]))
  BY DEF DecideLocally
<1>3. LocalVerdict(Roas[i], rpkiKey[a]) \in RpkiStatuses
  BY DEF LocalVerdict, RpkiStatuses
<1> QED
  BY <1>1, <1>2, <1>3, FirstMatchDecides, ConcludeKeepsInv

(* The service may say anything about a route that no own ROA matches.      *)
LEMMA ServiceKeepsInv ==
  ASSUME RpkiInv, NEW a \in Askers, AskService(a) \/ ServiceAnswers(a)
  PROVE  RpkiInv'
<1>1. CASE AskService(a)
  <2> USE <1>1 DEF AskService, RpkiInv
  <2>1. RpkiTypeOK'
    BY DEF RpkiTypeOK
  <2>2. AskedAreForeign'
    BY DEF AskedAreForeign, RpkiTypeOK, MatchingRoas
  <2>3. OwnRoutesFollowRfc6811'
    BY DEF OwnRoutesFollowRfc6811, AgreesWithRfc, CoveringRoas, Rfc6811
  <2> QED
    BY <2>1, <2>2, <2>3
<1>2. CASE ServiceAnswers(a)
  <2>1. PICK status \in RpkiStatuses : Conclude(a, status)
    BY <1>2 DEF ServiceAnswers
  <2>2. rpkiKey[a] \in Keys /\ rpkiKey[a][1] # Malformed /\ MatchingRoas(rpkiKey[a]) = {}
    BY <1>2 DEF ServiceAnswers, RpkiInv, AskedAreForeign, RpkiTypeOK
  <2>3. AgreesWithRfc(rpkiKey[a], status)
    BY <2>2, CoveringRoasMatch DEF AgreesWithRfc
  <2> QED
    BY <2>1, <2>3, ConcludeKeepsInv
<1> QED
  BY <1>1, <1>2

(* An entry grows old without changing.                                     *)
LEMMA ExpireKeepsInv ==
  ASSUME RpkiInv, NEW k \in Keys, Expire(k)
  PROVE  RpkiInv'
<1> USE DEF Expire, RpkiInv
<1>1. RpkiTypeOK' /\ AskedAreForeign'
  BY DEF RpkiTypeOK, AskedAreForeign, MatchingRoas
<1>2. OwnRoutesFollowRfc6811'
  BY DEF OwnRoutesFollowRfc6811, AgreesWithRfc, CoveringRoas, Rfc6811
<1> QED
  BY <1>1, <1>2

(* The invariant holds in every reachable state.                            *)
LEMMA RpkiInvariant == RpkiSpec => []RpkiInv
<1>1. RpkiInv /\ [RpkiNext]_rpkiVars => RpkiInv'
  <2> SUFFICES ASSUME RpkiInv, [RpkiNext]_rpkiVars PROVE RpkiInv'
    OBVIOUS
  <2>1. CASE RpkiNext
    BY <2>1, LookUpKeepsInv, UnparsableKeepsInv, DecideKeepsInv, ServiceKeepsInv, ExpireKeepsInv
       DEF RpkiNext
  <2>2. CASE UNCHANGED rpkiVars
    BY <2>2 DEF rpkiVars, RpkiInv, RpkiTypeOK, AskedAreForeign, MatchingRoas,
       OwnRoutesFollowRfc6811, AgreesWithRfc, CoveringRoas, Rfc6811
  <2> QED
    BY <2>1, <2>2
<1> QED
  BY RpkiStarts, <1>1, PTL DEF RpkiSpec

-----------------------------------------------------------------------------
(* Cache and handlers keep their types in every reachable state.            *)
THEOREM RpkiTypeCorrect == RpkiSpec => []RpkiTypeOK
<1>1. RpkiInv => RpkiTypeOK
  BY DEF RpkiInv
<1> QED
  BY RpkiInvariant, <1>1, PTL

(* A route inside the provider's own networks is judged as RFC 6811 says,   *)
(* in every answer and every entry of the cache, whatever the service said, *)
(* provided that ROAs of the list that overlap agree (RpkiAssumption).      *)
THEOREM OwnRoutesAreJudgedByRfc6811 == RpkiSpec => []OwnRoutesFollowRfc6811
<1>1. RpkiInv => OwnRoutesFollowRfc6811
  BY DEF RpkiInv
<1> QED
  BY RpkiInvariant, <1>1, PTL
=============================================================================
