-------------------------------- MODULE Race --------------------------------
(***************************************************************************)
(* The dialer of a client (core/client): a connection is made by racing    *)
(* every address the receiver is known under and keeping the first that    *)
(* shows the pinned key.  The HTTP transport may dial several times at     *)
(* once, while the addresses are replaced.                                 *)
(*                                                                         *)
(* Candidates are goroutines that send one result each to a channel which  *)
(* holds them all.  The stagger sets when a candidate starts and not what  *)
(* it does, and timers may be late: they start in any order.               *)
(***************************************************************************)
EXTENDS Naturals, Sequences, SequencesExt

CONSTANTS
  Addrs,      \* addresses
  Lists,      \* lists of addresses a client may be given
  Dials,      \* calls of the dialer
  NoAddr,     \* no address
  MaxSets     \* bound: calls of SetAddrs

ASSUME RaceAssumption ==
  /\ NoAddr \notin Addrs /\ MaxSets \in Nat
  /\ \A l \in Lists : l # <<>> /\ l \in Seq(Addrs) /\ IsInjective(l)

VARIABLES
  answers,  \* the addresses at which the receiver with the pinned key can be reached
  client,   \* the addresses, the last one that worked, and how often SetAddrs was called
  given,    \* history: the list last given to the client
  dial      \* the calls of the dialer

raceVars == <<answers, client, given, dial>>

NoDial == [pc |-> "idle", cand |-> [a \in Addrs |-> "none"], done |-> FALSE,
           results |-> <<>>, winner |-> NoAddr, open |-> {}, came |-> {}]

\* done: the context is cancelled; open: connections open; came: history, those ever made.
Dial == [pc: {"idle", "racing", "promote", "returned"},
         cand: [Addrs -> {"none", "waiting", "dialing", "ended"}], done: BOOLEAN,
         results: Seq([addr: Addrs, ok: BOOLEAN]), winner: Addrs \union {NoAddr},
         open: SUBSET Addrs, came: SUBSET Addrs]

RaceTypeOK ==
  /\ answers \subseteq Addrs
  /\ client.addrs \in Seq(Addrs) /\ client.good \in Addrs \union {NoAddr} /\ client.sets \in 0..MaxSets
  /\ given \in Lists
  /\ dial \in [Dials -> Dial]

RaceInit ==
  /\ answers \in SUBSET Addrs
  /\ given \in Lists
  /\ client = [addrs |-> given, good |-> NoAddr, sets |-> 0]
  /\ dial = [d \in Dials |-> NoDial]

-----------------------------------------------------------------------------
\* promoteLocked: the last address that worked changes places with the first.
Promoted(list, good) ==
  IF good \in ToSet(list)
    THEN LET at == CHOOSE i \in 1..Len(list) : list[i] = good IN
           [list EXCEPT ![1] = good, ![at] = list[1]]
    ELSE list

\* Mutant of SetAddrs: the list is taken in the order it was given.
SetAddrsOnly(list) ==
  /\ client.sets < MaxSets
  /\ client' = [client EXCEPT !.addrs = list, !.sets = @ + 1]
  /\ given' = list
  /\ UNCHANGED <<answers, dial>>

\* SetAddrs, from the answer to a pairing or by the embedder.
SetAddrs(list) ==
  /\ client.sets < MaxSets
  /\ client' = [client EXCEPT !.addrs = Promoted(list, client.good), !.sets = @ + 1]
  /\ given' = list
  /\ UNCHANGED <<answers, dial>>

Moves(d, r) == dial' = [dial EXCEPT ![d] = r] /\ UNCHANGED <<answers, given>>

\* Client.dial: the list is copied under the lock, and race starts a goroutine for each.
BeginDial(d) ==
  /\ dial[d].pc = "idle"
  /\ Moves(d, [NoDial EXCEPT !.pc = "racing",
                               !.cand = [a \in Addrs |-> IF a \in ToSet(client.addrs) THEN "waiting" ELSE "none"]])
  /\ UNCHANGED client

\* The request that asked for a connection is given up.
Cancel(d) ==
  /\ dial[d].pc = "racing" /\ ~dial[d].done
  /\ Moves(d, [dial[d] EXCEPT !.done = TRUE]) /\ UNCHANGED client

Sends(d, a, ok) ==
  /\ Moves(d, [dial[d] EXCEPT !.cand[a] = "ended", !.results = Append(@, [addr |-> a, ok |-> ok]),
                                !.open = IF ok THEN @ \union {a} ELSE @,
                                !.came = IF ok THEN @ \union {a} ELSE @])
  /\ UNCHANGED client

\* A candidate's turn has come, or the race was over before.
Start(d, a) ==
  /\ dial[d].cand[a] = "waiting"
  /\ \/ Moves(d, [dial[d] EXCEPT !.cand[a] = "dialing"]) /\ UNCHANGED client
     \/ dial[d].done /\ Sends(d, a, FALSE)

\* dialPinned: a connection whose certificate has the pinned key, which may be there just as
\* the context is cancelled ...
Connect(d, a) == dial[d].cand[a] = "dialing" /\ a \in answers /\ Sends(d, a, TRUE)

\* Mutant of Fail: nothing bounds how long a candidate dials.
FailWhenOver(d, a) == dial[d].cand[a] = "dialing" /\ dial[d].done /\ Sends(d, a, FALSE)

\* ... or an error, another key, or nothing before DialTimeout.
Fail(d, a) == dial[d].cand[a] = "dialing" /\ Sends(d, a, FALSE)

\* Mutant of Collect: a connection that comes too late is left as it is.
CollectFirst(d) ==
  LET r == Head(dial[d].results) IN
  /\ dial[d].pc = "racing" /\ dial[d].results # <<>>
  /\ Moves(d, IF r.ok /\ dial[d].winner = NoAddr
                  THEN [dial[d] EXCEPT !.results = Tail(@), !.winner = r.addr, !.done = TRUE]
                  ELSE [dial[d] EXCEPT !.results = Tail(@)])
  /\ UNCHANGED client

\* race reads one result: the first connection wins and ends the others' attempts; one that
\* comes later is closed.
Collect(d) ==
  LET r == Head(dial[d].results) IN
  /\ dial[d].pc = "racing" /\ dial[d].results # <<>>
  /\ Moves(d, IF ~r.ok THEN [dial[d] EXCEPT !.results = Tail(@)]
                ELSE IF dial[d].winner = NoAddr
                  THEN [dial[d] EXCEPT !.results = Tail(@), !.winner = r.addr, !.done = TRUE]
                  ELSE [dial[d] EXCEPT !.results = Tail(@), !.open = @ \ {r.addr}])
  /\ UNCHANGED client

\* Every candidate has sent its result and the channel is closed and empty.
RaceReturns(d) ==
  /\ dial[d].pc = "racing" /\ dial[d].results = <<>>
  /\ \A a \in Addrs : dial[d].cand[a] \in {"none", "ended"}
  /\ Moves(d, [dial[d] EXCEPT !.pc = IF dial[d].winner # NoAddr THEN "promote" ELSE "returned"])
  /\ UNCHANGED client

\* Client.dial: the winner is remembered and moved to the front of what may be another list by
\* now.
Promote(d) ==
  /\ dial[d].pc = "promote"
  /\ Moves(d, [dial[d] EXCEPT !.pc = "returned"])
  /\ client' = [client EXCEPT !.good = dial[d].winner, !.addrs = Promoted(@, dial[d].winner)]

CandidateStep(d, a) == Start(d, a) \/ Connect(d, a) \/ Fail(d, a)
DialerStep(d) == Collect(d) \/ RaceReturns(d) \/ Promote(d)
DialStep(d) == DialerStep(d) \/ \E a \in Addrs : CandidateStep(d, a)

RaceNext ==
  \/ \E list \in Lists : SetAddrs(list)
  \/ \E d \in Dials : BeginDial(d) \/ Cancel(d) \/ DialStep(d)

RaceSpec == RaceInit /\ [][RaceNext]_raceVars

-----------------------------------------------------------------------------
\* A dial returns with the winner's connection open and no other, and without one only if no
\* candidate ever connected, so that nothing is left open on the receiver by a race (race,
\* whose losers may connect between the cancellation and their own look at it).
RaceKeepsOne ==
  \A d \in Dials : dial[d].pc \in {"promote", "returned"} =>
    /\ dial[d].open = {dial[d].winner} \ {NoAddr}
    /\ dial[d].winner = NoAddr => dial[d].came = {}

\* The last address that worked is the first the next dial will try, whenever it is one of
\* those known, and promoting it loses no address and makes none up (Addrs, SetAddrs and
\* promoteLocked, called by dials that raced over an earlier list).
LastGoodFirst ==
  /\ client.good \in ToSet(client.addrs) => client.addrs[1] = client.good
  /\ ToSet(client.addrs) = ToSet(given) /\ Len(client.addrs) = Len(given)

\* Every dial returns, whatever silence its candidates meet (DefaultDialTimeout).
RaceEnds == \A d \in Dials : dial[d].pc = "racing" ~> dial[d].pc = "returned"
=============================================================================
