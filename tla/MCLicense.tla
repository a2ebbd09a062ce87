------------------------------ MODULE MCLicense ------------------------------
(***************************************************************************)
(* Small instances of the two licence servers.                               *)
(***************************************************************************)
EXTENDS LicenseSystem, TLC

CONSTANTS k1, k2, tr

(* What is guessed of each key; in the other instance k1 means no limit.      *)
MCGuess ==
  [k \in Key |-> [max |-> IF k = k2 THEN MaxLimit ELSE 1, days |-> IF k = tr THEN 1 ELSE 2]]

UnlimitedGuess == [MCGuess EXCEPT ![k1].max = 0]

MCTrial == [max |-> 1, days |-> 1]

MCOffer == {<<MaxLimit, 1>>}
=============================================================================
