-------------------------------- MODULE Reach --------------------------------
(***************************************************************************)
(* From a phone's search to its files: a scan finds the receiver, whose    *)
(* responder answers it, a race over its addresses connects, a code pairs  *)
(* the two, a token lets the phone in, and a run sends what was selected.  *)
(*                                                                         *)
(* The parts hand one another values (a result's addresses, a connection)  *)
(* and share no state, so that each is looked at by itself: "part" is the  *)
(* one that moves.                                                         *)
(***************************************************************************)
EXTENDS Pairing, Discovery, Responder, Race, Transfer

VARIABLE part

vars == <<pairingVars, scanVars, responderVars, raceVars, transferVars, part>>

Parts == {"pairing", "scan", "responder", "race", "transfer"}

TypeOK ==
  /\ PairingTypeOK /\ DiscoveryTypeOK /\ ResponderTypeOK /\ RaceTypeOK /\ TransferTypeOK
  /\ part \in Parts

\* The others are where they began; the addresses matter to the race alone, and the ledger
\* to the run.  One list of addresses is the first, whichever.
Init ==
  /\ part \in Parts
  /\ PairingInit /\ DiscoveryInit /\ ResponderInit /\ RaceInit /\ TransferInit
  /\ given = CHOOSE l \in Lists : TRUE
  /\ part # "race" => answers = {}
  /\ part # "transfer" => ledger = {}

Pairs    == part = "pairing" /\ PairingNext /\ UNCHANGED <<scanVars, responderVars, raceVars, transferVars, part>>
Scans    == part = "scan" /\ DiscoveryNext /\ UNCHANGED <<pairingVars, responderVars, raceVars, transferVars, part>>
Responds == part = "responder" /\ ResponderNext /\ UNCHANGED <<pairingVars, scanVars, raceVars, transferVars, part>>
Racing(step) == part = "race" /\ step /\ UNCHANGED <<pairingVars, scanVars, responderVars, transferVars, part>>
Sending(step) == part = "transfer" /\ step /\ UNCHANGED <<pairingVars, scanVars, responderVars, raceVars, part>>

Next == Pairs \/ Scans \/ Responds \/ Racing(RaceNext) \/ Sending(TransferNext)

Spec == Init /\ [][Next]_vars

\* The goroutines of a race go on, and a connection attempt ends by DialTimeout.  Nobody has
\* to dial or give up, and no candidate has to connect.  A run goes on: the
\* library and the ledger answer it, and the native side gives up an upload in the end.
FairSpec ==
  /\ Spec
  /\ \A d \in Dials : WF_raceVars(Racing(DialStep(d)))
  /\ WF_transferVars(Sending(RunStep))
=============================================================================
