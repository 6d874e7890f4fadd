------------------------------- MODULE Pairing -------------------------------
(***************************************************************************)
(* Pairing codes and device tokens (core/pairing, core/receiver/pair.go    *)
(* and the authentication in receiver.go), the pairing screen that asks    *)
(* for codes and withdraws them, and the phones that present them.         *)
(*                                                                         *)
(* Codes live in the memory of the receiver, devices in the ledger.  Calls *)
(* of the screen and requests of phones run concurrently; every section    *)
(* under the lock of the codes and every SQL statement is a step.  Secrets *)
(* and tokens are random and never drawn twice.  When a device was last    *)
(* seen, which is only shown, is left out.                                 *)
(***************************************************************************)
EXTENDS Naturals, FiniteSets

CONSTANTS
  Codes,      \* pairing secrets that may be drawn
  Phones,     \* identifiers phones pair under
  Requests,   \* requests of phones under way at one time
  None,       \* nothing
  MaxTokens,  \* bound: tokens drawn
  MaxEvents   \* bound: unpairings, restarts and closed screens

ASSUME PairingAssumption == MaxTokens \in Nat /\ MaxEvents \in Nat /\ None \notin Codes \union Phones

Tokens == 1..MaxTokens

VARIABLES
  offer,    \* secret -> where it is: the live ones have an entry in Offers
  screen,   \* the pairing screen, and the calls it has made
  device,   \* the devices table
  minted,   \* number of tokens drawn
  request,  \* requests of phones
  store,    \* the token each phone keeps for this receiver, 0 when it has none
  events,   \* number of unpairings, restarts and closed screens
  paired,   \* history: how many devices were saved with each code
  away,     \* history: codes that were withdrawn, forgotten or too late
  dead      \* history: tokens that were revoked or replaced

pairingVars == <<offer, screen, device, minted, request, store, events, paired, away, dead>>

Quiet == [pc |-> "idle", phone |-> None, code |-> None, token |-> 0, as |-> None]
Request == [pc: {"idle", "redeem", "save", "answer", "refused", "lookup", "serve"},
            phone: Phones \union {None}, code: Codes \union {None},
            token: Tokens \union {0}, as: Phones \union {None}]

PairingTypeOK ==
  /\ offer \in [Codes -> {"new", "live", "late", "gone"}]
  /\ screen \in [open: BOOLEAN, pair: {"idle", "issue", "addrs"}, cancel: BOOLEAN,
                 code: Codes \union {None}, shown: SUBSET Codes]
  /\ device \in [Phones -> [st: {"unknown", "paired", "revoked"}, token: Tokens \union {0}]]
  /\ minted \in 0..MaxTokens /\ events \in 0..MaxEvents
  /\ request \in [Requests -> Request]
  /\ store \in [Phones -> Tokens \union {0}]
  /\ paired \in [Codes -> Nat] /\ away \subseteq Codes /\ dead \subseteq Tokens

PairingInit ==
  /\ offer = [c \in Codes |-> "new"]
  /\ screen = [open |-> FALSE, pair |-> "idle", cancel |-> FALSE, code |-> None, shown |-> {}]
  /\ device = [p \in Phones |-> [st |-> "unknown", token |-> 0]]
  /\ minted = 0 /\ events = 0
  /\ request = [q \in Requests |-> Quiet]
  /\ store = [p \in Phones |-> 0]
  /\ paired = [c \in Codes |-> 0]
  /\ away = {} /\ dead = {}

-----------------------------------------------------------------------------
(* The screen.  Its calls are handled by goroutines of the app, so that    *)
(* one that was made first may be carried out last.                        *)

phoneVars == <<device, minted, request, store, paired, dead>>

\* pairingPanel, or its button for a new code; the earlier code is not withdrawn.
AskForCode ==
  /\ screen.pair = "idle"
  /\ screen' = [screen EXCEPT !.open = TRUE, !.pair = "issue"]
  /\ UNCHANGED <<offer, events, away, phoneVars>>

\* BeginPairing: Offers.Issue drops what has expired and adds a fresh secret.
Issue(c) ==
  /\ screen.pair = "issue" /\ offer[c] = "new"
  /\ offer' = [d \in Codes |-> IF d = c THEN "live" ELSE IF offer[d] = "late" THEN "gone" ELSE offer[d]]
  /\ screen' = [screen EXCEPT !.pair = "addrs", !.code = c]
  /\ UNCHANGED <<events, away, phoneVars>>

\* The addresses are listed: the code is shown, or the call fails with the code still live.
Show ==
  /\ screen.pair = "addrs"
  /\ \E shown \in {screen.shown, screen.shown \union {screen.code}} :
       screen' = [screen EXCEPT !.pair = "idle", !.code = None, !.shown = shown]
  /\ UNCHANGED <<offer, events, away, phoneVars>>

Close ==
  /\ screen.open /\ events < MaxEvents
  /\ screen' = [screen EXCEPT !.open = FALSE, !.cancel = TRUE]
  /\ events' = events + 1
  /\ UNCHANGED <<offer, away, phoneVars>>

Entered == {c \in Codes : offer[c] \in {"live", "late"}}
Dropped(cs) == [c \in Codes |-> IF c \in cs THEN "gone" ELSE offer[c]]

\* Mutant of Revoke: only what has expired is dropped.
RevokeExpired ==
  /\ screen.cancel
  /\ offer' = Dropped({c \in Entered : offer[c] = "late"})
  /\ away' = away \union Entered
  /\ screen' = [screen EXCEPT !.cancel = FALSE]
  /\ UNCHANGED <<events, phoneVars>>

\* Offers.Revoke, for CancelPairing.
Revoke ==
  /\ screen.cancel
  /\ offer' = Dropped(Entered)
  /\ away' = away \union Entered
  /\ screen' = [screen EXCEPT !.cancel = FALSE]
  /\ UNCHANGED <<events, phoneVars>>

Expire(c) ==
  /\ offer[c] = "live"
  /\ offer' = [offer EXCEPT ![c] = "late"]
  /\ away' = away \union {c}
  /\ UNCHANGED <<screen, events, phoneVars>>

-----------------------------------------------------------------------------
(* Requests.                                                               *)

screenVars == <<screen, events, away>>

Becomes(q, r) == request' = [request EXCEPT ![q] = r]
Proceeds(q, pc) == request' = [request EXCEPT ![q].pc = pc]

\* A phone scans a code that was shown, now or on a photograph.
Present(q, p, c) ==
  /\ request[q] = Quiet /\ c \in screen.shown /\ minted < MaxTokens
  /\ Becomes(q, [Quiet EXCEPT !.pc = "redeem", !.phone = p, !.code = c])
  /\ UNCHANGED <<offer, device, minted, store, paired, dead, screenVars>>

\* Offers.Redeem: what was presented is spent, whether or not it had expired.
Redeem(q) ==
  LET c == request[q].code IN
  /\ request[q].pc = "redeem"
  /\ offer' = Dropped({c} \intersect Entered)
  /\ IF offer[c] = "live" /\ minted < MaxTokens
       THEN Becomes(q, [request[q] EXCEPT !.pc = "save", !.token = minted + 1]) /\ minted' = minted + 1
       ELSE Proceeds(q, "refused") /\ UNCHANGED minted
  /\ UNCHANGED <<device, store, paired, dead, screenVars>>

\* savePairedDevice: the row is added, or keeps its history and gets the new token.
SaveDevice(q) ==
  LET p == request[q].phone IN
  /\ request[q].pc = "save"
  /\ device' = [device EXCEPT ![p] = [st |-> "paired", token |-> request[q].token]]
  /\ dead' = dead \union ({device[p].token} \ {0})
  /\ paired' = [paired EXCEPT ![request[q].code] = @ + 1]
  /\ Proceeds(q, "answer")
  /\ UNCHANGED <<offer, minted, store, screenVars>>

\* A request with a token: the phone has read it from its store.
Ask(q, p) ==
  /\ request[q] = Quiet /\ store[p] # 0
  /\ Becomes(q, [Quiet EXCEPT !.pc = "lookup", !.phone = p, !.token = store[p]])
  /\ UNCHANGED <<offer, device, minted, store, paired, dead, screenVars>>

\* Mutant of Lookup: the query forgets "revoked_at IS NULL".
LookupByToken(q) ==
  LET owners == {p \in Phones : device[p].token = request[q].token} IN
  /\ request[q].pc = "lookup"
  /\ IF owners = {} THEN Proceeds(q, "refused")
       ELSE Becomes(q, [request[q] EXCEPT !.pc = "serve", !.as = CHOOSE p \in owners : TRUE])
  /\ UNCHANGED <<offer, device, minted, store, paired, dead, screenVars>>

\* authenticated and lookupDevice.  A request that was let in goes on whatever happens to the
\* device.
Lookup(q) ==
  LET owners == {p \in Phones : device[p].st = "paired" /\ device[p].token = request[q].token} IN
  /\ request[q].pc = "lookup"
  /\ IF owners = {} THEN Proceeds(q, "refused")
       ELSE Becomes(q, [request[q] EXCEPT !.pc = "serve", !.as = CHOOSE p \in owners : TRUE])
  /\ UNCHANGED <<offer, device, minted, store, paired, dead, screenVars>>

\* The answer, or its loss, at any point; a phone that was paired keeps the token.  A failure
\* of the receiver before the answer spends what was redeemed.
Ends(q) ==
  LET r == request[q] IN
  /\ r # Quiet
  /\ Becomes(q, Quiet)
  /\ \/ UNCHANGED store
     \/ r.pc = "answer" /\ store' = [store EXCEPT ![r.phone] = r.token]
  /\ UNCHANGED <<offer, device, minted, paired, dead, screenVars>>

\* Unpair: one statement.
Unpair(p) ==
  /\ device[p].st = "paired" /\ events < MaxEvents
  /\ device' = [device EXCEPT ![p].st = "revoked"]
  /\ dead' = dead \union {device[p].token}
  /\ events' = events + 1
  /\ UNCHANGED <<offer, screen, minted, request, store, paired, away>>

\* The receiver is started again: the codes are forgotten, and requests have failed.
Restart ==
  /\ events < MaxEvents
  /\ offer' = Dropped(Entered)
  /\ away' = away \union Entered
  /\ screen' = [screen EXCEPT !.open = FALSE, !.pair = "idle", !.cancel = FALSE, !.code = None]
  /\ request' = [q \in Requests |-> Quiet]
  /\ events' = events + 1
  /\ UNCHANGED <<device, minted, store, paired, dead>>

PairingNext ==
  \/ AskForCode \/ Show \/ Close \/ Revoke \/ Restart
  \/ \E c \in Codes : Issue(c) \/ Expire(c)
  \/ \E p \in Phones : Unpair(p)
  \/ \E q \in Requests :
       \/ Redeem(q) \/ SaveDevice(q) \/ Lookup(q) \/ Ends(q)
       \/ \E p \in Phones : Ask(q, p) \/ \E c \in Codes : Present(q, p, c)

PairingSpec == PairingInit /\ [][PairingNext]_pairingVars

-----------------------------------------------------------------------------
\* A code pairs one device at most, however often and by whomever it is presented, and none
\* that was put away by closing the screen, by time or by a restart starts a pairing
\* (handlePair: "a replay of this request cannot pair a second device"; Offers: "an offer
\* that survives a restart is a credential the user does not know is still outstanding").
CodesAreSpent ==
  [][\A c \in Codes :
       /\ paired'[c] <= 1
       /\ c \in away => \A q \in Requests : request'[q].pc = "save" /\ request'[q].code = c
                                              => request[q].pc = "save"]_pairingVars

\* A token that was revoked, or replaced when its device paired again, lets nobody in for
\* ever after, and a request is filed under the phone that holds the token (Unpair,
\* savePairedDevice, onCreate: "file its uploads under someone else's name").
RevokedStaysOut ==
  [][\A q \in Requests : request[q].pc = "lookup" /\ request'[q].pc = "serve" =>
       request[q].token \notin dead /\ request'[q].as = request[q].phone]_pairingVars
=============================================================================
