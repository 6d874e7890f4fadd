---------------------------- MODULE PairingProofs ----------------------------
(***************************************************************************)
(* Codes pair one device each, and a token that was revoked lets nobody    *)
(* in: proofs for any number of codes, phones, requests and tokens.        *)
(*                                                                         *)
(* Two facts carry both results.  A code is with the receiver, then with   *)
(* one request, then with one device, and never in two of these places.  A *)
(* token is held by one phone, the one it was drawn for, in its store, in  *)
(* its requests and in its row of the ledger.                              *)
(***************************************************************************)
EXTENDS Pairing, TLAPS

\* A code is spent from the moment it is redeemed.
Saving(q, c) == request[q].pc = "save" /\ request[q].code = c

CodesInv ==
  /\ \A c \in Codes : offer[c] # "gone" => paired[c] = 0 /\ \A q \in Requests : ~Saving(q, c)
  /\ \A c \in Codes, q \in Requests : Saving(q, c) => paired[c] = 0
  /\ \A c \in Codes, q, r \in Requests : Saving(q, c) /\ Saving(r, c) => q = r
  /\ \A c \in Codes : paired[c] <= 1
  /\ \A c \in away : offer[c] \in {"late", "gone"}

\* What a phone holds.
Holds(p, t) ==
  \/ device[p].token = t
  \/ store[p] = t
  \/ \E q \in Requests : request[q].phone = p /\ request[q].token = t

TokensInv ==
  /\ \A p \in Phones, t \in Tokens : Holds(p, t) => t <= minted
  /\ \A p, r \in Phones, t \in Tokens : Holds(p, t) /\ Holds(r, t) => p = r
  /\ \A t \in dead : t <= minted

\* A token that is about to be saved is no device's yet.
Pending(q, t) == request[q].pc = "save" /\ request[q].token = t

FreshInv ==
  /\ \A q \in Requests, t \in Tokens : Pending(q, t) =>
       t \notin dead /\ \A p \in Phones : device[p].token # t
  /\ \A q, r \in Requests, t \in Tokens : Pending(q, t) /\ Pending(r, t) => q = r
  /\ \A q \in Requests : request[q].pc = "save" => request[q].token # 0

LiveInv == \A p \in Phones : device[p].st = "paired" =>
  device[p].token \in Tokens /\ device[p].token \notin dead

\* A request is a phone's, and brings a code to be redeemed and a token to be looked up.
RequestInv == \A q \in Requests :
  /\ request[q] # Quiet => request[q].phone \in Phones
  /\ request[q].pc \in {"redeem", "save"} => request[q].code \in Codes
  /\ request[q].pc \in {"answer", "lookup"} => request[q].token \in Tokens

\* The code whose addresses are being listed.
ScreenInv == screen.pair = "addrs" => screen.code \in Codes

IInv == PairingTypeOK /\ CodesInv /\ TokensInv /\ FreshInv /\ LiveInv /\ RequestInv /\ ScreenInv

USE DEF pairingVars, phoneVars, screenVars

-----------------------------------------------------------------------------
\* Putting codes away leaves a place for every code.
LEMMA DroppedTypes ==
  ASSUME offer \in [Codes -> {"new", "live", "late", "gone"}], NEW cs
  PROVE  /\ Dropped(cs) \in [Codes -> {"new", "live", "late", "gone"}]
         /\ \A c \in Codes : Dropped(cs)[c] = IF c \in cs THEN "gone" ELSE offer[c]
         /\ Entered \subseteq Codes
BY DEF Dropped, Entered

\* What a request becomes is a request.
LEMMA RequestTypes ==
  ASSUME NEW r \in Request
  PROVE  /\ \A pc \in {"save", "answer", "refused", "serve"} : [r EXCEPT !.pc = pc] \in Request
         /\ \A t \in Tokens : [r EXCEPT !.pc = "save", !.token = t] \in Request
         /\ \A p \in Phones : [r EXCEPT !.pc = "serve", !.as = p] \in Request
BY DEF Request

\* The types hold after every step.
LEMMA TypesStep ==
  ASSUME PairingTypeOK, LiveInv, RequestInv, ScreenInv, [PairingNext]_pairingVars
  PROVE  PairingTypeOK'
<1> USE PairingAssumption DEF PairingTypeOK
<1>0. Quiet \in Request
  BY DEF Quiet, Request
<1>1. CASE AskForCode
  BY <1>1 DEF AskForCode
<1>2. CASE Show
  <2>1. PICK shown \in {screen.shown, screen.shown \union {screen.code}} :
          screen' = [screen EXCEPT !.pair = "idle", !.code = None, !.shown = shown]
    BY <1>2 DEF Show
  <2>2. shown \in SUBSET Codes
    BY <1>2 DEF Show, ScreenInv
  <2> QED
    BY <1>2, <2>1, <2>2 DEF Show
<1>3. CASE Close
  <2>1. events' \in 0..MaxEvents
    BY <1>3 DEF Close
  <2>2. screen' \in [open: BOOLEAN, pair: {"idle", "issue", "addrs"}, cancel: BOOLEAN,
                      code: Codes \union {None}, shown: SUBSET Codes]
    BY <1>3 DEF Close
  <2> QED
    BY <1>3, <2>1, <2>2 DEF Close
<1>4. CASE Revoke
  BY <1>4, DroppedTypes DEF Revoke
<1>5. CASE Restart
  <2>1. events' \in 0..MaxEvents
    BY <1>5 DEF Restart
  <2>2. screen' \in [open: BOOLEAN, pair: {"idle", "issue", "addrs"}, cancel: BOOLEAN,
                      code: Codes \union {None}, shown: SUBSET Codes]
    BY <1>5 DEF Restart
  <2>3. request' \in [Requests -> Request]
    BY <1>0, <1>5 DEF Restart
  <2> QED
    BY <1>5, <2>1, <2>2, <2>3, DroppedTypes DEF Restart
<1>6. ASSUME NEW c \in Codes, Issue(c)
      PROVE  PairingTypeOK'
  BY <1>6 DEF Issue
<1>7. ASSUME NEW c \in Codes, Expire(c)
      PROVE  PairingTypeOK'
  BY <1>7 DEF Expire
<1>8. ASSUME NEW p \in Phones, Unpair(p)
      PROVE  PairingTypeOK'
  <2>1. events' \in 0..MaxEvents
    BY <1>8 DEF Unpair
  <2>2. device' \in [Phones -> [st: {"unknown", "paired", "revoked"}, token: Tokens \union {0}]]
    BY <1>8 DEF Unpair
  <2> QED
    BY <1>8, <2>1, <2>2 DEF Unpair, LiveInv
<1>9. ASSUME NEW q \in Requests, Redeem(q)
      PROVE  PairingTypeOK'
  <2>1. offer' \in [Codes -> {"new", "live", "late", "gone"}]
    BY <1>9, DroppedTypes DEF Redeem
  <2>2. CASE offer[request[q].code] = "live" /\ minted < MaxTokens
    <3>1. minted' = minted + 1 /\ minted + 1 \in Tokens /\ minted + 1 \in 0..MaxTokens
      BY <1>9, <2>2 DEF Redeem, Tokens
    <3>2. request' = [request EXCEPT ![q] = [request[q] EXCEPT !.pc = "save", !.token = minted + 1]]
      BY <1>9, <2>2 DEF Redeem, Becomes
    <3>3. request' \in [Requests -> Request]
      <4>0. request[q] \in Request
        OBVIOUS
      <4>1. [request[q] EXCEPT !.pc = "save", !.token = minted + 1] \in Request
        BY <3>1, <4>0, RequestTypes
      <4> QED
        BY <3>2, <4>1
    <3> QED
      BY <1>9, <2>1, <3>1, <3>3 DEF Redeem
  <2>3. CASE ~(offer[request[q].code] = "live" /\ minted < MaxTokens)
    <3>1. request[q] \in Request /\ [request[q] EXCEPT !.pc = "refused"] \in Request
      BY RequestTypes
    <3>2. request' = [request EXCEPT ![q] = [request[q] EXCEPT !.pc = "refused"]] /\ minted' = minted
      BY <1>9, <2>3 DEF Redeem, Proceeds
    <3>3. request' \in [Requests -> Request]
      BY <3>1, <3>2
    <3> QED
      BY <1>9, <2>1, <3>2, <3>3 DEF Redeem
  <2> QED
    BY <2>2, <2>3
<1>10. ASSUME NEW q \in Requests, SaveDevice(q)
       PROVE  PairingTypeOK'
  <2>1. request[q].phone \in Phones /\ request[q].code \in Codes /\ request[q].token \in Tokens \union {0}
    BY <1>10 DEF SaveDevice, RequestInv, Quiet, Request
  <2>2. device' \in [Phones -> [st: {"unknown", "paired", "revoked"}, token: Tokens \union {0}]]
    BY <1>10, <2>1 DEF SaveDevice
  <2>3. paired' \in [Codes -> Nat] /\ dead' \subseteq Tokens
    BY <1>10, <2>1 DEF SaveDevice
  <2>4. request' \in [Requests -> Request]
    BY <1>10, RequestTypes DEF SaveDevice, Proceeds
  <2> QED
    BY <1>10, <2>2, <2>3, <2>4 DEF SaveDevice
<1>11. ASSUME NEW q \in Requests, Lookup(q)
       PROVE  PairingTypeOK'
  <2> DEFINE owners == {p \in Phones : device[p].st = "paired" /\ device[p].token = request[q].token}
  <2>1. CASE owners = {}
    <3>1. request[q] \in Request /\ [request[q] EXCEPT !.pc = "refused"] \in Request
      BY RequestTypes
    <3>2. request' = [request EXCEPT ![q] = [request[q] EXCEPT !.pc = "refused"]]
      BY <1>11, <2>1 DEF Lookup, Proceeds
    <3>3. request' \in [Requests -> Request]
      BY <3>1, <3>2
    <3> QED
      BY <1>11, <3>3 DEF Lookup
  <2>2. CASE owners # {}
    <3>1. PICK as \in Phones : as = CHOOSE p \in owners : TRUE
      BY <2>2
    <3>2. request' = [request EXCEPT ![q] = [request[q] EXCEPT !.pc = "serve", !.as = as]]
      BY <1>11, <2>2, <3>1 DEF Lookup, Becomes
    <3>3. [request[q] EXCEPT !.pc = "serve", !.as = as] \in Request
      BY RequestTypes
    <3> QED
      BY <1>11, <3>2, <3>3 DEF Lookup
  <2> QED
    BY <2>1, <2>2
<1>12. ASSUME NEW q \in Requests, Ends(q)
       PROVE  PairingTypeOK'
  BY <1>0, <1>12 DEF Ends, Becomes, Request
<1>13. ASSUME NEW q \in Requests, NEW p \in Phones, Ask(q, p)
       PROVE  PairingTypeOK'
  BY <1>13 DEF Ask, Becomes, Quiet, Request
<1>14. ASSUME NEW q \in Requests, NEW p \in Phones, NEW c \in Codes, Present(q, p, c)
       PROVE  PairingTypeOK'
  BY <1>14 DEF Present, Becomes, Quiet, Request
<1>15. CASE UNCHANGED pairingVars
  BY <1>15
<1> QED
  BY <1>1, <1>2, <1>3, <1>4, <1>5, <1>6, <1>7, <1>8, <1>9, <1>10, <1>11, <1>12, <1>13, <1>14,
     <1>15 DEF PairingNext

\* What Redeem leaves of the request: a token that is drawn now, or a refusal.
LEMMA RedeemChanges ==
  ASSUME PairingTypeOK, NEW q \in Requests, Redeem(q)
  PROVE  /\ \A r \in Requests : r # q => request'[r] = request[r]
         /\ request'[q].phone = request[q].phone /\ request'[q].code = request[q].code
         /\ \/ /\ offer[request[q].code] = "live" /\ minted < MaxTokens
               /\ request'[q].pc = "save" /\ request'[q].token = minted + 1 /\ minted' = minted + 1
            \/ /\ request'[q].pc = "refused" /\ request'[q].token = request[q].token
               /\ minted' = minted
<1>1. request[q] \in Request /\ request \in [Requests -> Request]
  BY DEF PairingTypeOK
<1>2. CASE offer[request[q].code] = "live" /\ minted < MaxTokens
  <2>1. /\ request' = [request EXCEPT ![q] = [request[q] EXCEPT !.pc = "save", !.token = minted + 1]]
        /\ minted' = minted + 1
    BY <1>2 DEF Redeem, Becomes
  <2> QED
    BY <1>1, <1>2, <2>1 DEF Request
<1>3. CASE ~(offer[request[q].code] = "live" /\ minted < MaxTokens)
  <2>1. request' = [request EXCEPT ![q] = [request[q] EXCEPT !.pc = "refused"]] /\ minted' = minted
    BY <1>3 DEF Redeem, Proceeds
  <2> QED
    BY <1>1, <2>1 DEF Request
<1> QED
  BY <1>2, <1>3

\* What Lookup leaves of it: the device that holds the token, or a refusal.
LEMMA LookupChanges ==
  ASSUME PairingTypeOK, NEW q \in Requests, Lookup(q)
  PROVE  /\ \A r \in Requests : r # q => request'[r] = request[r]
         /\ request'[q].phone = request[q].phone /\ request'[q].code = request[q].code
         /\ request'[q].token = request[q].token
         /\ \/ request'[q].pc = "refused"
            \/ /\ request'[q].pc = "serve" /\ request'[q].as \in Phones
               /\ device[request'[q].as].st = "paired"
               /\ device[request'[q].as].token = request[q].token
<1> DEFINE owners == {p \in Phones : device[p].st = "paired" /\ device[p].token = request[q].token}
<1>1. request[q] \in Request /\ request \in [Requests -> Request]
  BY DEF PairingTypeOK
<1>2. CASE owners = {}
  <2>1. request' = [request EXCEPT ![q] = [request[q] EXCEPT !.pc = "refused"]]
    BY <1>2 DEF Lookup, Proceeds
  <2> QED
    BY <1>1, <2>1 DEF Request
<1>3. CASE owners # {}
  <2>1. PICK as \in owners : as = CHOOSE p \in owners : TRUE
    BY <1>3
  <2>2. request' = [request EXCEPT ![q] = [request[q] EXCEPT !.pc = "serve", !.as = as]]
    BY <1>3, <2>1 DEF Lookup, Becomes
  <2> QED
    BY <1>1, <2>1, <2>2 DEF Request
<1> QED
  BY <1>2, <1>3

\* Every request keeps what its next section needs.
LEMMA RequestStep ==
  ASSUME IInv, PairingTypeOK', [PairingNext]_pairingVars
  PROVE  RequestInv'
<1> USE DEF IInv, RequestInv
<1>1. CASE AskForCode
  BY <1>1 DEF AskForCode
<1>2. CASE Show
  BY <1>2 DEF Show
<1>3. CASE Close
  BY <1>3 DEF Close
<1>4. CASE Revoke
  BY <1>4 DEF Revoke
<1>5. CASE Restart
  BY <1>5 DEF Restart, Quiet
<1>6. ASSUME NEW c \in Codes, Issue(c)
      PROVE  RequestInv'
  BY <1>6 DEF Issue
<1>7. ASSUME NEW c \in Codes, Expire(c)
      PROVE  RequestInv'
  BY <1>7 DEF Expire
<1>8. ASSUME NEW p \in Phones, Unpair(p)
      PROVE  RequestInv'
  BY <1>8 DEF Unpair
<1>9. ASSUME NEW q \in Requests, Redeem(q)
      PROVE  RequestInv'
  <2>1. request[q].pc = "redeem" /\ request[q].code \in Codes /\ request[q].phone \in Phones
    BY <1>9 DEF Redeem, Quiet
  <2>2. \A r \in Requests : r # q => request'[r] = request[r]
    BY <1>9, RedeemChanges
  <2>3. request'[q].phone \in Phones /\ request'[q].code \in Codes /\ request'[q].pc \in {"save", "refused"}
    BY <1>9, <2>1, RedeemChanges
  <2> QED
    BY <2>2, <2>3
<1>10. ASSUME NEW q \in Requests, SaveDevice(q)
       PROVE  RequestInv'
  BY <1>10 DEF SaveDevice, Proceeds, PairingTypeOK, Request, Quiet, FreshInv
<1>11. ASSUME NEW q \in Requests, Lookup(q)
       PROVE  RequestInv'
  <2>1. request[q].pc = "lookup" /\ request[q].phone \in Phones
    BY <1>11 DEF Lookup, Quiet
  <2>2. \A r \in Requests : r # q => request'[r] = request[r]
    BY <1>11, LookupChanges
  <2>3. request'[q].phone \in Phones /\ request'[q].pc \in {"serve", "refused"}
    BY <1>11, <2>1, LookupChanges
  <2> QED
    BY <2>2, <2>3
<1>12. ASSUME NEW q \in Requests, Ends(q)
       PROVE  RequestInv'
  BY <1>12 DEF Ends, Becomes, PairingTypeOK, Request, Quiet
<1>13. ASSUME NEW q \in Requests, NEW p \in Phones, Ask(q, p)
       PROVE  RequestInv'
  BY <1>13 DEF Ask, Becomes, PairingTypeOK, Request, Quiet
<1>14. ASSUME NEW q \in Requests, NEW p \in Phones, NEW c \in Codes, Present(q, p, c)
       PROVE  RequestInv'
  BY <1>14 DEF Present, Becomes, PairingTypeOK, Request, Quiet
<1>15. CASE UNCHANGED pairingVars
  BY <1>15
<1> QED
  BY <1>1, <1>2, <1>3, <1>4, <1>5, <1>6, <1>7, <1>8, <1>9, <1>10, <1>11, <1>12,
     <1>13, <1>14, <1>15 DEF PairingNext

\* The code whose addresses are listed is the one just drawn.
LEMMA ScreenStep ==
  ASSUME IInv, PairingTypeOK', [PairingNext]_pairingVars
  PROVE  ScreenInv'
<1> USE DEF IInv, ScreenInv
<1>1. CASE AskForCode
  BY <1>1 DEF AskForCode, PairingTypeOK
<1>2. CASE Show
  BY <1>2 DEF Show, PairingTypeOK
<1>3. CASE Close
  BY <1>3 DEF Close, PairingTypeOK
<1>4. CASE Revoke
  BY <1>4 DEF Revoke, PairingTypeOK
<1>5. CASE Restart
  BY <1>5 DEF Restart, PairingTypeOK
<1>6. ASSUME NEW c \in Codes, Issue(c)
      PROVE  ScreenInv'
  BY <1>6 DEF Issue, PairingTypeOK
<1>7. ASSUME NEW c \in Codes, Expire(c)
      PROVE  ScreenInv'
  BY <1>7 DEF Expire
<1>8. ASSUME NEW p \in Phones, Unpair(p)
      PROVE  ScreenInv'
  BY <1>8 DEF Unpair
<1>9. ASSUME NEW q \in Requests, Redeem(q)
      PROVE  ScreenInv'
  BY <1>9 DEF Redeem
<1>10. ASSUME NEW q \in Requests, SaveDevice(q)
       PROVE  ScreenInv'
  BY <1>10 DEF SaveDevice
<1>11. ASSUME NEW q \in Requests, Lookup(q)
       PROVE  ScreenInv'
  BY <1>11 DEF Lookup
<1>12. ASSUME NEW q \in Requests, Ends(q)
       PROVE  ScreenInv'
  BY <1>12 DEF Ends
<1>13. ASSUME NEW q \in Requests, NEW p \in Phones, Ask(q, p)
       PROVE  ScreenInv'
  BY <1>13 DEF Ask
<1>14. ASSUME NEW q \in Requests, NEW p \in Phones, NEW c \in Codes, Present(q, p, c)
       PROVE  ScreenInv'
  BY <1>14 DEF Present
<1>15. CASE UNCHANGED pairingVars
  BY <1>15
<1> QED
  BY <1>1, <1>2, <1>3, <1>4, <1>5, <1>6, <1>7, <1>8, <1>9, <1>10, <1>11, <1>12,
     <1>13, <1>14, <1>15 DEF PairingNext

\* A code is in one place: with the receiver, with one request, or with one device.
LEMMA CodesStep ==
  ASSUME IInv, PairingTypeOK', [PairingNext]_pairingVars
  PROVE  CodesInv'
<1> USE DEF IInv, CodesInv, Saving
<1>1. CASE AskForCode
  BY <1>1 DEF AskForCode
<1>2. CASE Show
  BY <1>2 DEF Show
<1>3. CASE Close
  BY <1>3 DEF Close
<1>4. CASE Revoke
  BY <1>4, DroppedTypes DEF Revoke, PairingTypeOK
<1>5. CASE Restart
  BY <1>5, DroppedTypes DEF Restart, Quiet, PairingTypeOK
<1>6. ASSUME NEW c \in Codes, Issue(c)
      PROVE  CodesInv'
  BY <1>6 DEF Issue, PairingTypeOK
<1>7. ASSUME NEW c \in Codes, Expire(c)
      PROVE  CodesInv'
  BY <1>7 DEF Expire, PairingTypeOK
<1>8. ASSUME NEW p \in Phones, Unpair(p)
      PROVE  CodesInv'
  BY <1>8 DEF Unpair
<1>9. ASSUME NEW q \in Requests, Redeem(q)
      PROVE  CodesInv'
  <2> DEFINE c == request[q].code
  <2>1. c \in Codes /\ offer \in [Codes -> {"new", "live", "late", "gone"}]
    BY <1>9 DEF Redeem, RequestInv, PairingTypeOK
  <2>2. \A d \in Codes : offer'[d] = offer[d] \/ (offer'[d] = "gone" /\ offer[d] \in {"live", "late"})
    BY <1>9, <2>1, DroppedTypes DEF Redeem, Entered
  <2>3. UNCHANGED <<paired, away>>
    BY <1>9 DEF Redeem
  <2>4. \A r \in Requests, d \in Codes :
          Saving(r, d)' => Saving(r, d) \/ (r = q /\ d = c /\ offer[c] = "live")
    BY <1>9, RedeemChanges DEF Redeem
  <2>5. offer[c] = "live" => offer'[c] = "gone"
    BY <1>9, <2>1, DroppedTypes DEF Redeem, Entered
  <2> HIDE DEF c, Saving
  <2> QED
    BY <2>1, <2>2, <2>3, <2>4, <2>5 DEF PairingTypeOK
<1>10. ASSUME NEW q \in Requests, SaveDevice(q)
       PROVE  CodesInv'
  <2> DEFINE c == request[q].code
  <2>1. c \in Codes /\ Saving(q, c) /\ paired[c] = 0 /\ offer[c] = "gone"
    BY <1>10 DEF SaveDevice, RequestInv
  <2>2. paired' = [paired EXCEPT ![c] = @ + 1] /\ UNCHANGED <<offer, away>>
    BY <1>10 DEF SaveDevice
  <2>3. \A r \in Requests, d \in Codes : Saving(r, d)' => Saving(r, d) /\ r # q
    BY <1>10 DEF SaveDevice, Proceeds, PairingTypeOK, Request
  <2> HIDE DEF c, Saving
  <2> QED
    BY <2>1, <2>2, <2>3 DEF PairingTypeOK
<1>11. ASSUME NEW q \in Requests, Lookup(q)
       PROVE  CodesInv'
  <2>1. UNCHANGED <<offer, paired, away>>
    BY <1>11 DEF Lookup
  <2>2. \A r \in Requests, c \in Codes : Saving(r, c)' => Saving(r, c)
    BY <1>11, LookupChanges
  <2> HIDE DEF Saving
  <2> QED
    BY <2>1, <2>2
<1>12. ASSUME NEW q \in Requests, Ends(q)
       PROVE  CodesInv'
  BY <1>12 DEF Ends, Becomes, Proceeds, PairingTypeOK, Request, Quiet
<1>13. ASSUME NEW q \in Requests, NEW p \in Phones, Ask(q, p)
       PROVE  CodesInv'
  BY <1>13 DEF Ask, Becomes, Proceeds, PairingTypeOK, Request, Quiet
<1>14. ASSUME NEW q \in Requests, NEW p \in Phones, NEW c \in Codes, Present(q, p, c)
       PROVE  CodesInv'
  BY <1>14 DEF Present, Becomes, Proceeds, PairingTypeOK, Request, Quiet
<1>15. CASE UNCHANGED pairingVars
  BY <1>15
<1> QED
  BY <1>1, <1>2, <1>3, <1>4, <1>5, <1>6, <1>7, <1>8, <1>9, <1>10, <1>11, <1>12,
     <1>13, <1>14, <1>15 DEF PairingNext

-----------------------------------------------------------------------------
\* Nobody is handed a token by a step, but the phone for which one is drawn.
Kept ==
  /\ minted' >= minted
  /\ \A p \in Phones, t \in Tokens : Holds(p, t)' =>
       \/ Holds(p, t)
       \/ /\ t = minted + 1 /\ minted' = minted + 1
          /\ \E q \in Requests : Redeem(q) /\ request[q].phone = p

\* The only step that hands out a token is Redeem.
LEMMA KeptStep ==
  ASSUME IInv, PairingTypeOK', [PairingNext]_pairingVars
  PROVE  Kept
<1> USE DEF IInv, Kept, Holds
<1>0. minted >= minted
  BY DEF PairingTypeOK
<1>1. CASE AskForCode
  BY <1>0, <1>1 DEF AskForCode
<1>2. CASE Show
  BY <1>0, <1>2 DEF Show
<1>3. CASE Close
  BY <1>0, <1>3 DEF Close
<1>4. CASE Revoke
  BY <1>0, <1>4 DEF Revoke
<1>5. CASE Restart
  BY <1>5 DEF Restart, Becomes, Proceeds, PairingTypeOK, Request, Quiet, Tokens
<1>6. ASSUME NEW c \in Codes, Issue(c)
      PROVE  Kept
  BY <1>6 DEF Issue, PairingTypeOK
<1>7. ASSUME NEW c \in Codes, Expire(c)
      PROVE  Kept
  BY <1>0, <1>7 DEF Expire
<1>8. ASSUME NEW p \in Phones, Unpair(p)
      PROVE  Kept
  BY <1>8 DEF Unpair, PairingTypeOK
<1>9. ASSUME NEW q \in Requests, Redeem(q)
      PROVE  Kept
  <2>1. UNCHANGED <<device, store>>
    BY <1>9 DEF Redeem
  <2>2. minted' >= minted
    BY <1>9, RedeemChanges DEF PairingTypeOK
  <2>3. ASSUME NEW p \in Phones, NEW t \in Tokens, Holds(p, t)', ~Holds(p, t)
        PROVE  t = minted + 1 /\ minted' = minted + 1 /\ request[q].phone = p
    <3>1. request'[q].phone = p /\ request'[q].token = t
      BY <1>9, <2>1, <2>3, RedeemChanges DEF Holds
    <3> QED
      BY <1>9, <2>3, <3>1, RedeemChanges DEF Holds
  <2> HIDE DEF Holds
  <2> QED
    BY <1>9, <2>2, <2>3
<1>10. ASSUME NEW q \in Requests, SaveDevice(q)
       PROVE  Kept
  <2>1. minted' >= minted /\ store' = store
    BY <1>10 DEF SaveDevice, PairingTypeOK
  <2>2. \A r \in Requests : request'[r].phone = request[r].phone /\ request'[r].token = request[r].token
    BY <1>10 DEF SaveDevice, Proceeds, PairingTypeOK, Request
  <2>3. \A p \in Phones : device'[p].token = device[p].token
                          \/ (p = request[q].phone /\ device'[p].token = request[q].token)
    <3>1. device' = [device EXCEPT ![request[q].phone] = [st |-> "paired", token |-> request[q].token]]
      BY <1>10 DEF SaveDevice
    <3>2. device \in [Phones -> [st: {"unknown", "paired", "revoked"}, token: Tokens \union {0}]]
      BY DEF PairingTypeOK
    <3> QED
      BY <3>1, <3>2
  <2> QED
    BY <2>1, <2>2, <2>3
<1>11. ASSUME NEW q \in Requests, Lookup(q)
       PROVE  Kept
  <2>1. minted' >= minted /\ UNCHANGED <<device, store>>
    BY <1>11 DEF Lookup, PairingTypeOK
  <2>2. \A r \in Requests : request'[r].phone = request[r].phone /\ request'[r].token = request[r].token
    BY <1>11, LookupChanges
  <2> QED
    BY <2>1, <2>2
<1>12. ASSUME NEW q \in Requests, Ends(q)
       PROVE  Kept
  <2>1. minted' >= minted /\ device' = device
    BY <1>12 DEF Ends, PairingTypeOK
  <2>2. \A r \in Requests : request'[r] = request[r] \/ request'[r].token = 0
    BY <1>12 DEF Ends, Becomes, PairingTypeOK, Quiet
  <2>3. \A p \in Phones : store'[p] = store[p] \/ (p = request[q].phone /\ store'[p] = request[q].token)
    <3>1. store' = store \/ store' = [store EXCEPT ![request[q].phone] = request[q].token]
      BY <1>12 DEF Ends
    <3>2. store \in [Phones -> Tokens \union {0}]
      BY DEF PairingTypeOK
    <3> QED
      BY <3>1, <3>2
  <2> QED
    BY <2>1, <2>2, <2>3 DEF Tokens
<1>13. ASSUME NEW q \in Requests, NEW p \in Phones, Ask(q, p)
       PROVE  Kept
  <2>1. minted' >= minted /\ UNCHANGED <<device, store>>
    BY <1>13 DEF Ask, PairingTypeOK
  <2>2. /\ \A r \in Requests : r # q => request'[r] = request[r]
        /\ request'[q].phone = p /\ request'[q].token = store[p]
    BY <1>13 DEF Ask, Becomes, PairingTypeOK, Quiet
  <2> QED
    BY <2>1, <2>2
<1>14. ASSUME NEW q \in Requests, NEW p \in Phones, NEW c \in Codes, Present(q, p, c)
       PROVE  Kept
  <2>1. minted' >= minted /\ UNCHANGED <<device, store>>
    BY <1>14 DEF Present, PairingTypeOK
  <2>2. /\ \A r \in Requests : r # q => request'[r] = request[r]
        /\ request'[q].token = 0
    BY <1>14 DEF Present, Becomes, PairingTypeOK, Quiet
  <2> QED
    BY <2>1, <2>2 DEF Tokens
<1>15. CASE UNCHANGED pairingVars
  BY <1>0, <1>15
<1> QED
  BY <1>1, <1>2, <1>3, <1>4, <1>5, <1>6, <1>7, <1>8, <1>9, <1>10, <1>11, <1>12,
     <1>13, <1>14, <1>15 DEF PairingNext

\* Only one request is redeemed in a step.
LEMMA OneRedeem ==
  ASSUME PairingTypeOK, NEW q \in Requests, NEW r \in Requests, Redeem(q), Redeem(r)
  PROVE  q = r
<1>1. request[q].pc = "redeem" /\ request[r].pc = "redeem"
  BY DEF Redeem
<1>2. request'[q].pc # "redeem"
  BY RedeemChanges
<1>3. q # r => request'[q] = request[q]
  BY RedeemChanges
<1> QED
  BY <1>1, <1>2, <1>3

\* Only the token of a device dies.
Died == \A t \in dead' : t \in dead \/ \E p \in Phones : device[p].token = t

\* A step kills a token only by taking it from the device whose token it was.
LEMMA DeadStep ==
  ASSUME IInv, PairingTypeOK', [PairingNext]_pairingVars
  PROVE  Died
<1> USE DEF Died
<1>1. CASE AskForCode
  BY <1>1 DEF AskForCode
<1>2. CASE Show
  BY <1>2 DEF Show
<1>3. CASE Close
  BY <1>3 DEF Close
<1>4. CASE Revoke
  BY <1>4 DEF Revoke
<1>5. CASE Restart
  BY <1>5 DEF Restart
<1>6. ASSUME NEW c \in Codes, Issue(c)
      PROVE  Died
  BY <1>6 DEF Issue
<1>7. ASSUME NEW c \in Codes, Expire(c)
      PROVE  Died
  BY <1>7 DEF Expire
<1>8. ASSUME NEW p \in Phones, Unpair(p)
      PROVE  Died
  BY <1>8 DEF Unpair
<1>9. ASSUME NEW q \in Requests, Redeem(q)
      PROVE  Died
  BY <1>9 DEF Redeem
<1>10. ASSUME NEW q \in Requests, SaveDevice(q)
       PROVE  Died
  BY <1>10 DEF SaveDevice, IInv, RequestInv, Quiet
<1>11. ASSUME NEW q \in Requests, Lookup(q)
       PROVE  Died
  BY <1>11 DEF Lookup
<1>12. ASSUME NEW q \in Requests, Ends(q)
       PROVE  Died
  BY <1>12 DEF Ends
<1>13. ASSUME NEW q \in Requests, NEW p \in Phones, Ask(q, p)
       PROVE  Died
  BY <1>13 DEF Ask
<1>14. ASSUME NEW q \in Requests, NEW p \in Phones, NEW c \in Codes, Present(q, p, c)
       PROVE  Died
  BY <1>14 DEF Present
<1>15. CASE UNCHANGED pairingVars
  BY <1>15
<1> QED
  BY <1>1, <1>2, <1>3, <1>4, <1>5, <1>6, <1>7, <1>8, <1>9, <1>10, <1>11, <1>12,
     <1>13, <1>14, <1>15 DEF PairingNext

\* A token is one phone's.
LEMMA TokensStep ==
  ASSUME IInv, PairingTypeOK', [PairingNext]_pairingVars
  PROVE  TokensInv'
<1>1. Kept /\ Died
  BY KeptStep, DeadStep
<1>2. minted \in Nat /\ minted' \in Nat /\ dead' \subseteq Tokens /\ Tokens \subseteq Nat
  BY DEF IInv, PairingTypeOK, Tokens
<1>3. \A p \in Phones, t \in Tokens : Holds(p, t)' => t <= minted'
  <2> SUFFICES ASSUME NEW p \in Phones, NEW t \in Tokens, Holds(p, t)'
               PROVE  t <= minted'
    OBVIOUS
  <2>1. Holds(p, t) \/ (t = minted + 1 /\ minted' = minted + 1)
    BY <1>1 DEF Kept
  <2>2. Holds(p, t) => t <= minted
    BY DEF IInv, TokensInv
  <2> QED
    BY <1>1, <1>2, <2>1, <2>2 DEF Kept
<1>4. ASSUME NEW p \in Phones, NEW r \in Phones, NEW t \in Tokens, Holds(p, t)', Holds(r, t)'
      PROVE  p = r
  <2>1. CASE Holds(p, t) /\ Holds(r, t)
    BY <2>1 DEF IInv, TokensInv
  <2>2. CASE ~(Holds(p, t) /\ Holds(r, t))
    <3>1. t = minted + 1
      BY <1>1, <1>4, <2>2 DEF Kept
    <3>2. ~Holds(p, t) /\ ~Holds(r, t)
      BY <1>2, <3>1 DEF IInv, TokensInv
    <3>3. PICK q \in Requests : Redeem(q) /\ request[q].phone = p
      BY <1>1, <1>4, <3>2 DEF Kept
    <3>4. PICK k \in Requests : Redeem(k) /\ request[k].phone = r
      BY <1>1, <1>4, <3>2 DEF Kept
    <3>5. q = k
      BY <3>3, <3>4, OneRedeem DEF IInv
    <3> QED
      BY <3>3, <3>4, <3>5
  <2> QED
    BY <2>1, <2>2
<1>5. \A t \in dead' : t <= minted'
  <2> SUFFICES ASSUME NEW t \in dead'
               PROVE  t <= minted'
    OBVIOUS
  <2>1. t \in dead \/ \E p \in Phones : Holds(p, t)
    BY <1>1 DEF Died, Holds
  <2>2. t <= minted
    BY <1>2, <2>1 DEF IInv, TokensInv
  <2> QED
    BY <1>1, <1>2, <2>2 DEF Kept
<1> QED
  BY <1>3, <1>4, <1>5 DEF TokensInv

\* A request is about to save a device only after Redeem, and with the token it drew.
Saves ==
  \A q \in Requests : request'[q].pc = "save" =>
    \/ request[q].pc = "save" /\ request'[q].token = request[q].token /\ ~SaveDevice(q)
    \/ Redeem(q) /\ request'[q].token = minted + 1 /\ minted' = minted + 1

\* No other step leaves a request about to save.
LEMMA SavesStep ==
  ASSUME IInv, PairingTypeOK', [PairingNext]_pairingVars
  PROVE  Saves
<1> USE DEF IInv, Saves
<1>0. \A r \in Requests : SaveDevice(r) => request'[r].pc = "answer"
  BY DEF SaveDevice, Proceeds, PairingTypeOK, Request
<1>1. CASE AskForCode
  BY <1>0, <1>1 DEF AskForCode
<1>2. CASE Show
  BY <1>0, <1>2 DEF Show
<1>3. CASE Close
  BY <1>0, <1>3 DEF Close
<1>4. CASE Revoke
  BY <1>0, <1>4 DEF Revoke
<1>5. CASE Restart
  BY <1>5 DEF Restart, Quiet
<1>6. ASSUME NEW c \in Codes, Issue(c)
      PROVE  Saves
  BY <1>0, <1>6 DEF Issue
<1>7. ASSUME NEW c \in Codes, Expire(c)
      PROVE  Saves
  BY <1>0, <1>7 DEF Expire
<1>8. ASSUME NEW p \in Phones, Unpair(p)
      PROVE  Saves
  BY <1>0, <1>8 DEF Unpair
<1>9. ASSUME NEW q \in Requests, Redeem(q)
      PROVE  Saves
  <2>1. \A r \in Requests : request'[r].pc = "save" => r = q \/ request'[r] = request[r]
    BY <1>9, RedeemChanges
  <2>2. request'[q].pc = "save" => request'[q].token = minted + 1 /\ minted' = minted + 1
    BY <1>9, RedeemChanges
  <2> QED
    BY <1>0, <1>9, <2>1, <2>2
<1>10. ASSUME NEW q \in Requests, SaveDevice(q)
       PROVE  Saves
  <2>1. request'[q].pc = "answer" /\ \A r \in Requests : r # q => request'[r] = request[r]
    BY <1>10 DEF SaveDevice, Proceeds, PairingTypeOK, Request
  <2> QED
    BY <1>0, <2>1
<1>11. ASSUME NEW q \in Requests, Lookup(q)
       PROVE  Saves
  <2>1. request'[q].pc # "save" /\ \A r \in Requests : r # q => request'[r] = request[r]
    BY <1>11, LookupChanges
  <2> QED
    BY <1>0, <2>1
<1>12. ASSUME NEW q \in Requests, Ends(q)
       PROVE  Saves
  <2>1. request'[q].pc # "save" /\ \A r \in Requests : r # q => request'[r] = request[r]
    BY <1>12 DEF Ends, Becomes, PairingTypeOK, Quiet
  <2> QED
    BY <1>0, <2>1
<1>13. ASSUME NEW q \in Requests, NEW p \in Phones, Ask(q, p)
       PROVE  Saves
  <2>1. request'[q].pc # "save" /\ \A r \in Requests : r # q => request'[r] = request[r]
    BY <1>13 DEF Ask, Becomes, PairingTypeOK, Quiet
  <2> QED
    BY <1>0, <2>1
<1>14. ASSUME NEW q \in Requests, NEW p \in Phones, NEW c \in Codes, Present(q, p, c)
       PROVE  Saves
  <2>1. request'[q].pc # "save" /\ \A r \in Requests : r # q => request'[r] = request[r]
    BY <1>14 DEF Present, Becomes, PairingTypeOK, Quiet
  <2> QED
    BY <1>0, <2>1
<1>15. CASE UNCHANGED pairingVars
  BY <1>0, <1>15
<1> QED
  BY <1>1, <1>2, <1>3, <1>4, <1>5, <1>6, <1>7, <1>8, <1>9, <1>10, <1>11, <1>12,
     <1>13, <1>14, <1>15 DEF PairingNext

\* The row of a phone changes by its being saved or unpaired.
Rows ==
  \/ device' = device /\ dead' = dead
  \/ \E p \in Phones : Unpair(p)
  \/ \E q \in Requests : SaveDevice(q)

\* No other step changes a row.
LEMMA RowsStep ==
  ASSUME [PairingNext]_pairingVars
  PROVE  Rows
BY DEF Rows, PairingNext, AskForCode, Show, Close, Revoke, Restart, Issue, Expire, Redeem, Lookup, Ends,
       Ask, Present

\* What a step saves of a device.
LEMMA SavedRow ==
  ASSUME PairingTypeOK, RequestInv, NEW q \in Requests, SaveDevice(q)
  PROVE  /\ request[q].pc = "save" /\ request[q].phone \in Phones
         /\ dead' = dead \union ({device[request[q].phone].token} \ {0})
         /\ device'[request[q].phone].token = request[q].token
         /\ \A p \in Phones : p # request[q].phone => device'[p] = device[p]
<1>1. device \in [Phones -> [st: {"unknown", "paired", "revoked"}, token: Tokens \union {0}]]
  BY DEF PairingTypeOK
<1>2. request[q].pc = "save" /\ request[q].phone \in Phones
  BY DEF SaveDevice, RequestInv, Quiet
<1>3. device' = [device EXCEPT ![request[q].phone] = [st |-> "paired", token |-> request[q].token]]
  BY DEF SaveDevice
<1>4. dead' = dead \union ({device[request[q].phone].token} \ {0})
  BY DEF SaveDevice
<1> QED
  BY <1>1, <1>2, <1>3, <1>4

\* And what unpairing leaves of it.
LEMMA UnpairedRow ==
  ASSUME PairingTypeOK, NEW p \in Phones, Unpair(p)
  PROVE  /\ device[p].st = "paired" /\ device'[p].st = "revoked"
         /\ dead' = dead \union {device[p].token}
         /\ \A r \in Phones : device'[r].token = device[r].token
         /\ \A r \in Phones : r # p => device'[r] = device[r]
BY DEF Unpair, PairingTypeOK

\* A token that is about to be saved is alive, and nobody's.
LEMMA FreshStep ==
  ASSUME IInv, PairingTypeOK', [PairingNext]_pairingVars
  PROVE  FreshInv'
<1>1. Kept /\ Died /\ Saves /\ Rows
  BY KeptStep, DeadStep, SavesStep, RowsStep
<1>2. minted \in Nat /\ Tokens \subseteq Nat /\ dead \subseteq Tokens
  BY DEF IInv, PairingTypeOK, Tokens
<1>3. \A q \in Requests, t \in Tokens : Pending(q, t)' =>
        \/ Pending(q, t) /\ ~SaveDevice(q)
        \/ Redeem(q) /\ t = minted + 1
  BY <1>1 DEF Saves, Pending
<1>4. ASSUME NEW q \in Requests, NEW t \in Tokens, Pending(q, t)
      PROVE  Holds(request[q].phone, t) /\ request[q].phone \in Phones /\ t <= minted
  <2>1. request[q].phone \in Phones
    BY <1>4 DEF Pending, IInv, RequestInv, Quiet
  <2>2. Holds(request[q].phone, t)
    BY <1>4 DEF Pending, Holds
  <2> QED
    BY <2>1, <2>2 DEF IInv, TokensInv
<1>5. ASSUME NEW t \in Tokens, t = minted + 1
      PROVE  t \notin dead /\ \A p \in Phones : device[p].token # t
  <2>1. ~(t <= minted)
    BY <1>2, <1>5
  <2> QED
    BY <2>1 DEF IInv, TokensInv, Holds
<1>6. ASSUME NEW q \in Requests, NEW t \in Tokens, Pending(q, t)'
      PROVE  t \notin dead' /\ \A p \in Phones : device'[p].token # t
  <2>1. t \notin dead /\ \A p \in Phones : device[p].token # t
    BY <1>3, <1>5, <1>6 DEF IInv, FreshInv
  <2>2. t \notin dead'
    BY <1>1, <2>1 DEF Died
  <2>3. ASSUME NEW k \in Requests, SaveDevice(k)
        PROVE  request[k].token # t
    <3>1. SUFFICES ASSUME request[k].token = t
                   PROVE  FALSE
      OBVIOUS
    <3>2. Pending(k, t)
      BY <2>3, <3>1 DEF SaveDevice, Pending
    <3>3. CASE Pending(q, t) /\ ~SaveDevice(q)
      BY <2>3, <3>2, <3>3 DEF IInv, FreshInv
    <3>4. CASE Redeem(q) /\ t = minted + 1
      BY <1>2, <1>4, <3>2, <3>4
    <3> QED
      BY <1>3, <1>6, <3>3, <3>4
  <2>4. ASSUME NEW p \in Phones
        PROVE  device'[p].token # t
    <3>1. CASE device' = device
      BY <2>1, <3>1
    <3>2. ASSUME NEW r \in Phones, Unpair(r)
          PROVE  device'[p].token # t
      BY <2>1, <3>2, UnpairedRow DEF IInv
    <3>3. ASSUME NEW k \in Requests, SaveDevice(k)
          PROVE  device'[p].token # t
      BY <2>1, <2>3, <3>3, SavedRow DEF IInv
    <3> QED
      BY <1>1, <3>1, <3>2, <3>3 DEF Rows
  <2> QED
    BY <2>2, <2>4
<1>7. ASSUME NEW q \in Requests, NEW r \in Requests, NEW t \in Tokens, Pending(q, t)', Pending(r, t)'
      PROVE  q = r
  <2>1. CASE Redeem(q) /\ Redeem(r)
    BY <2>1, OneRedeem DEF IInv
  <2>2. CASE Pending(q, t) /\ Pending(r, t)
    BY <2>2 DEF IInv, FreshInv
  <2>3. ~(t = minted + 1 /\ (Pending(q, t) \/ Pending(r, t)))
    BY <1>2, <1>4
  <2> QED
    BY <1>3, <1>7, <2>1, <2>2, <2>3
<1>8. \A q \in Requests : request'[q].pc = "save" => request'[q].token # 0
  BY <1>1, <1>2 DEF Saves, IInv, FreshInv
<1> QED
  BY <1>6, <1>7, <1>8 DEF FreshInv

\* The token of a paired device is alive.
LEMMA LiveStep ==
  ASSUME IInv, PairingTypeOK', [PairingNext]_pairingVars
  PROVE  LiveInv'
<1>1. Rows
  BY RowsStep
<1>2. \A p \in Phones : device[p].token \in Tokens => Holds(p, device[p].token)
  BY DEF Holds
<1>3. CASE device' = device /\ dead' = dead
  BY <1>3 DEF IInv, LiveInv
<1>4. ASSUME NEW p \in Phones, Unpair(p)
      PROVE  LiveInv'
  <2>1. device[p].token \in Tokens
    BY <1>4, UnpairedRow DEF IInv, LiveInv
  <2>2. \A r \in Phones : r # p => device[r].token # device[p].token
    BY <1>2, <2>1 DEF IInv, TokensInv
  <2> QED
    BY <1>4, <2>2, UnpairedRow DEF IInv, LiveInv
<1>5. ASSUME NEW q \in Requests, SaveDevice(q)
      PROVE  LiveInv'
  <2> DEFINE p == request[q].phone
             t == request[q].token
  <2>1. request[q].pc = "save" /\ p \in Phones /\ device'[p].token = t
    BY <1>5, SavedRow DEF IInv
  <2>2. t \in Tokens /\ Pending(q, t)
    <3>1. request[q] \in Request
      BY DEF IInv, PairingTypeOK
    <3> QED
      BY <2>1, <3>1 DEF Request, Pending, IInv, FreshInv
  <2>3. t \notin dead /\ \A r \in Phones : device[r].token # t
    BY <2>2 DEF IInv, FreshInv
  <2>4. dead' = dead \union ({device[p].token} \ {0})
    BY <1>5, SavedRow DEF IInv
  <2>5. ASSUME NEW r \in Phones, r # p, device'[r].st = "paired"
        PROVE  device'[r].token \in Tokens /\ device'[r].token \notin dead'
    <3>1. device'[r] = device[r]
      BY <1>5, <2>5, SavedRow DEF IInv
    <3>2. device[r].token \in Tokens /\ device[r].token \notin dead
      BY <2>5, <3>1 DEF IInv, LiveInv
    <3>3. device[r].token # device[p].token
      BY <1>2, <2>1, <2>5, <3>2 DEF IInv, TokensInv
    <3> QED
      BY <2>4, <3>1, <3>2, <3>3
  <2> QED
    BY <2>1, <2>2, <2>3, <2>4, <2>5 DEF LiveInv
<1> QED
  BY <1>1, <1>3, <1>4, <1>5 DEF Rows

-----------------------------------------------------------------------------
\* The invariant holds at first.
LEMMA PairingStarts == PairingInit => IInv
BY PairingAssumption DEF PairingInit, IInv, PairingTypeOK, CodesInv, Saving, TokensInv, Holds, FreshInv, Pending,
     LiveInv, RequestInv, ScreenInv, Request, Quiet, Tokens

\* The invariant is kept by every step of the screen, the requests and the receiver.
LEMMA PairingSteps == IInv /\ [PairingNext]_pairingVars => IInv'
<1> SUFFICES ASSUME IInv, [PairingNext]_pairingVars
             PROVE  IInv'
  OBVIOUS
<1>1. PairingTypeOK'
  BY TypesStep DEF IInv
<1>2. RequestInv' /\ ScreenInv' /\ CodesInv'
  BY <1>1, RequestStep, ScreenStep, CodesStep
<1>3. TokensInv' /\ FreshInv' /\ LiveInv'
  BY <1>1, TokensStep, FreshStep, LiveStep
<1> QED
  BY <1>1, <1>2, <1>3 DEF IInv

\* Codes, devices and requests keep their types, and so the invariant of the proofs holds
\* in every state.
THEOREM PairingIsSound == PairingSpec => []IInv
BY PairingStarts, PairingSteps, PTL DEF PairingSpec

\* A code pairs one device at most, and none that was put away starts a pairing (CodesAreSpent).
THEOREM PairingSpendsCodes == PairingSpec => CodesAreSpent
<1> DEFINE Spent == \A c \in Codes :
      /\ paired'[c] <= 1
      /\ c \in away => \A q \in Requests : request'[q].pc = "save" /\ request'[q].code = c
                                             => request[q].pc = "save"
<1>1. IInv /\ IInv' /\ [PairingNext]_pairingVars => [Spent]_pairingVars
  <2> SUFFICES ASSUME IInv, IInv', [PairingNext]_pairingVars
               PROVE  Spent
    OBVIOUS
  <2>1. \A c \in Codes : paired'[c] <= 1
    BY DEF IInv, CodesInv
  <2>2. ASSUME NEW c \in away, NEW q \in Requests, request'[q].pc = "save", request'[q].code = c
        PROVE  request[q].pc = "save"
    <3>1. ~(Redeem(q) /\ request'[q].token = minted + 1 /\ minted' = minted + 1)
      BY <2>2, RedeemChanges DEF IInv, CodesInv, PairingTypeOK
    <3> QED
      BY <2>2, <3>1, SavesStep DEF Saves, IInv
  <2> QED
    BY <2>1, <2>2
<1> QED
  BY <1>1, PairingIsSound, PTL DEF PairingSpec, CodesAreSpent

\* A request is let in by Lookup.
Enters == \A q \in Requests : request'[q].pc = "serve" => request[q].pc = "serve" \/ Lookup(q)

\* No other step lets one in.
LEMMA EntersStep ==
  ASSUME PairingTypeOK, [PairingNext]_pairingVars
  PROVE  Enters
<1> USE DEF Enters
<1>1. CASE AskForCode
  BY <1>1 DEF AskForCode
<1>2. CASE Show
  BY <1>2 DEF Show
<1>3. CASE Close
  BY <1>3 DEF Close
<1>4. CASE Revoke
  BY <1>4 DEF Revoke
<1>5. CASE Restart
  BY <1>5 DEF Restart, Quiet
<1>6. ASSUME NEW c \in Codes, Issue(c)
      PROVE  Enters
  BY <1>6 DEF Issue
<1>7. ASSUME NEW c \in Codes, Expire(c)
      PROVE  Enters
  BY <1>7 DEF Expire
<1>8. ASSUME NEW p \in Phones, Unpair(p)
      PROVE  Enters
  BY <1>8 DEF Unpair
<1>9. ASSUME NEW q \in Requests, Redeem(q)
      PROVE  Enters
  <2>1. request'[q].pc # "serve" /\ \A r \in Requests : r # q => request'[r] = request[r]
    BY <1>9, RedeemChanges
  <2> QED
    BY <2>1
<1>10. ASSUME NEW q \in Requests, SaveDevice(q)
       PROVE  Enters
  <2>1. request'[q].pc # "serve" /\ \A r \in Requests : r # q => request'[r] = request[r]
    BY <1>10 DEF SaveDevice, Proceeds, PairingTypeOK, Request
  <2> QED
    BY <2>1
<1>11. ASSUME NEW q \in Requests, Lookup(q)
       PROVE  Enters
  <2>1. \A r \in Requests : r # q => request'[r] = request[r]
    BY <1>11, LookupChanges
  <2> QED
    BY <1>11, <2>1
<1>12. ASSUME NEW q \in Requests, Ends(q)
       PROVE  Enters
  <2>1. request'[q].pc # "serve" /\ \A r \in Requests : r # q => request'[r] = request[r]
    BY <1>12 DEF Ends, Becomes, PairingTypeOK, Quiet
  <2> QED
    BY <2>1
<1>13. ASSUME NEW q \in Requests, NEW p \in Phones, Ask(q, p)
       PROVE  Enters
  <2>1. request'[q].pc # "serve" /\ \A r \in Requests : r # q => request'[r] = request[r]
    BY <1>13 DEF Ask, Becomes, PairingTypeOK, Quiet
  <2> QED
    BY <2>1
<1>14. ASSUME NEW q \in Requests, NEW p \in Phones, NEW c \in Codes, Present(q, p, c)
       PROVE  Enters
  <2>1. request'[q].pc # "serve" /\ \A r \in Requests : r # q => request'[r] = request[r]
    BY <1>14 DEF Present, Becomes, PairingTypeOK, Quiet
  <2> QED
    BY <2>1
<1>15. CASE UNCHANGED pairingVars
  BY <1>15
<1> QED
  BY <1>1, <1>2, <1>3, <1>4, <1>5, <1>6, <1>7, <1>8, <1>9, <1>10, <1>11, <1>12,
     <1>13, <1>14, <1>15 DEF PairingNext

\* A token that was revoked or replaced lets nobody in, and a request is filed under the phone
\* that holds its token (RevokedStaysOut).
THEOREM PairingKeepsRevokedOut == PairingSpec => RevokedStaysOut
<1> DEFINE Out == \A q \in Requests : request[q].pc = "lookup" /\ request'[q].pc = "serve" =>
      request[q].token \notin dead /\ request'[q].as = request[q].phone
<1>1. IInv /\ [PairingNext]_pairingVars => [Out]_pairingVars
  <2> SUFFICES ASSUME IInv, [PairingNext]_pairingVars, NEW q \in Requests,
                      request[q].pc = "lookup", request'[q].pc = "serve"
               PROVE  request[q].token \notin dead /\ request'[q].as = request[q].phone
    OBVIOUS
  <2>1. Lookup(q)
    BY EntersStep DEF Enters, IInv
  <2>2. PICK p \in Phones : /\ p = request'[q].as /\ device[p].st = "paired"
                            /\ device[p].token = request[q].token
    BY <2>1, LookupChanges DEF IInv
  <2>3. request[q].token \in Tokens /\ request[q].token \notin dead
    BY <2>2 DEF IInv, LiveInv
  <2>4. request[q].phone \in Phones
    BY DEF IInv, RequestInv, Quiet
  <2> QED
    BY <2>2, <2>3, <2>4 DEF IInv, TokensInv, Holds
<1> QED
  BY <1>1, PairingIsSound, PTL DEF PairingSpec, RevokedStaysOut

=============================================================================
