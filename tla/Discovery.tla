------------------------------ MODULE Discovery ------------------------------
(***************************************************************************)
(* A scan for receivers (core/discovery/discover.go, mdns.go): probes go   *)
(* to every target in rounds, answers that quote the scan's nonce are      *)
(* collected by one goroutine for each socket, and First ends the scan     *)
(* when the receiver it wants has answered.                                *)
(*                                                                         *)
(* A target may be heard by several receivers (broadcast, multicast).      *)
(* Datagrams are lost, and late ones reach the next scan on the port of    *)
(* the earlier one.  Beside the probes a goroutine of its own asks by      *)
(* mDNS, whose answers quote no nonce.                                     *)
(***************************************************************************)
EXTENDS Naturals, FiniteSets, Sequences, SequencesExt

CONSTANTS
  Receivers,  \* receivers, by their device id
  Hears,      \* target -> the receivers that hear what is sent to it
  Mdns,       \* the group the mDNS query goes to
  Plans,      \* lists of addresses a scan may be given, in the order of the layers; with Mdns,
              \* unless it is disabled
  Wanted,     \* the receiver First waits for
  Readers,    \* the sockets a scan sends probes from
  Browser,    \* the socket it asks by mDNS from
  Nobody,     \* no receiver
  Rounds,     \* how often the targets are probed
  MaxScans,   \* bound: scans
  MaxLost,    \* bound: datagrams lost in a scan
  MaxLate     \* bound: answers to an earlier scan that reach the next

ASSUME DiscoveryAssumption ==
  /\ Hears \in [DOMAIN Hears -> SUBSET Receivers]
  /\ \A p \in Plans : p \in Seq(DOMAIN Hears)
  /\ Mdns \in DOMAIN Hears /\ Wanted \in Receivers /\ Nobody \notin Receivers /\ Browser \notin Readers
  /\ Rounds \in Nat \ {0} /\ {MaxScans, MaxLost, MaxLate} \subseteq Nat

Targets == DOMAIN Hears

VARIABLES
  scan,    \* the scan under way, or the last one
  reader,  \* the receiver whose OnResult a socket's goroutine is about to call
  net,     \* datagrams on their way
  up,      \* the receivers that run
  heard,   \* history: receivers that ran all through the scan, and those that answered it
  lost     \* history: datagrams of the scan to or from each receiver that were lost

scanVars == <<scan, reader, net, up, heard, lost>>

\* to: the target asked, or the one whose probe or query is answered.
Datagrams == [kind: {"probe", "answer", "query", "response"}, of: Receivers, to: Targets, round: 1..Rounds, scan: 1..MaxScans]

NoScan == [pc |-> "idle", n |-> 0, targets |-> <<>>, next |-> 1, round |-> 1, asked |-> Rounds,
           found |-> <<>>, hit |-> Nobody, timed |-> FALSE]

DiscoveryTypeOK ==
  /\ scan \in [pc: {"idle", "open", "closed", "returned"}, n: 0..MaxScans, targets: Seq(Targets),
               next: 1..(Cardinality(Targets) + 1), round: 1..Rounds, asked: 0..Rounds,
               found: Seq([of: Receivers, to: Targets]),
               hit: Receivers \union {Nobody}, timed: BOOLEAN]
  /\ reader \in [Readers \union {Browser} -> Receivers \union {Nobody}]
  /\ net \subseteq Datagrams /\ up \subseteq Receivers
  /\ heard \in [all: SUBSET Receivers, answered: SUBSET Receivers]
  /\ lost \in [Receivers -> 0..MaxLost]

DiscoveryInit ==
  /\ scan = NoScan
  /\ reader = [r \in Readers \union {Browser} |-> Nobody]
  /\ net = {} /\ up = Receivers
  /\ heard = [all |-> {}, answered |-> {}]
  /\ lost = [r \in Receivers |-> 0]

-----------------------------------------------------------------------------
\* buildTargets: an address named by several layers is probed once, in the place of the first.
Distinct(plan) ==
  LET first == {i \in DOMAIN plan : plan[i] # Mdns /\ \A j \in 1..(i - 1) : plan[j] # plan[i]} IN
    [k \in 1..Cardinality(first) |-> plan[CHOOSE i \in first : Cardinality(first \intersect 1..i) = k]]

Of(n) == {m \in net : m.scan = n}

\* Discover: a fresh nonce, sockets, the list of targets, and mDNS if it is not disabled.
Begin(plan, late) ==
  /\ scan.pc \in {"idle", "returned"} /\ scan.n < MaxScans
  /\ scan' = [NoScan EXCEPT !.pc = "open", !.n = scan.n + 1, !.targets = Distinct(plan),
                           !.asked = IF Mdns \in ToSet(plan) THEN 0 ELSE Rounds]
  /\ late \subseteq {m \in net : m.kind \in {"answer", "response"}} /\ Cardinality(late) <= MaxLate
  /\ net' = late
  /\ heard' = [all |-> up, answered |-> {}]
  /\ lost' = [r \in Receivers |-> 0]
  /\ UNCHANGED <<reader, up>>

\* sendAll: the next target of the round.
Send ==
  LET t == scan.targets[scan.next] IN
  /\ scan.pc = "open" /\ scan.next <= Len(scan.targets)
  /\ net' = net \union [kind: {"probe"}, of: Hears[t] \intersect up, to: {t}, round: {scan.round}, scan: {scan.n}]
  /\ scan' = [scan EXCEPT !.next = @ + 1]
  /\ UNCHANGED <<reader, up, heard, lost>>

\* sendRounds: once more after RoundInterval, since a first datagram is dropped while the
\* host's address is resolved.
NextRound ==
  /\ scan.pc = "open" /\ scan.next > Len(scan.targets) /\ scan.round < Rounds
  /\ scan' = [scan EXCEPT !.next = 1, !.round = @ + 1]
  /\ UNCHANGED <<reader, net, up, heard, lost>>

\* browseMDNS, its sender: the query goes out once in every round, beside the probes.
Query ==
  /\ scan.pc = "open" /\ scan.asked < Rounds
  /\ net' = net \union [kind: {"query"}, of: Hears[Mdns] \intersect up, to: {Mdns}, round: {scan.asked + 1}, scan: {scan.n}]
  /\ scan' = [scan EXCEPT !.asked = @ + 1]
  /\ UNCHANGED <<reader, up, heard, lost>>

\* Responder.handle: an answer quotes the nonce of its probe.
Answer(m) ==
  /\ m.kind = "probe" /\ m.of \in up
  /\ net' = (net \ {m}) \union {[m EXCEPT !.kind = "answer"]}
  /\ heard' = IF m.scan = scan.n THEN [heard EXCEPT !.answered = @ \union {m.of}] ELSE heard
  /\ UNCHANGED <<scan, reader, up, lost>>

\* MDNSResponder.handleQuery: a query for the service is answered by a message of records,
\* without a nonce and past the limiter.
Respond(m) ==
  /\ m.kind = "query" /\ m.of \in up
  /\ net' = (net \ {m}) \union {[m EXCEPT !.kind = "response"]}
  /\ UNCHANGED <<scan, reader, up, heard, lost>>

\* A datagram is lost, or a probe is refused by the limiter.
Lose(m) ==
  /\ m.scan = scan.n /\ lost[m.of] < MaxLost
  /\ net' = net \ {m}
  /\ lost' = [lost EXCEPT ![m.of] = @ + 1]
  /\ UNCHANGED <<scan, reader, up, heard>>

Known == {scan.found[i].of : i \in 1..Len(scan.found)}

\* record: what is known is merged, and the lock has been left when OnResult is called for
\* what is new.
Record(r, m) ==
  IF m.of \in Known
    THEN UNCHANGED <<scan, reader>>
    ELSE /\ scan' = [scan EXCEPT !.found = Append(@, [of |-> m.of, to |-> m.to])]
         /\ reader' = [reader EXCEPT ![r] = m.of]

\* readLoop and add: an answer with another nonce is dropped.
Receive(r, m) ==
  /\ scan.pc = "open" /\ reader[r] = Nobody /\ m.kind = "answer"
  /\ net' = net \ {m}
  /\ IF m.scan = scan.n THEN Record(r, m) ELSE UNCHANGED <<scan, reader>>
  /\ UNCHANGED <<up, heard, lost>>

\* browseMDNS: whatever a response announces is recorded.
Browse(m) ==
  /\ scan.pc = "open" /\ reader[Browser] = Nobody /\ m.kind = "response"
  /\ net' = net \ {m}
  /\ Record(Browser, m)
  /\ UNCHANGED <<up, heard, lost>>

Closing == IF scan.pc = "open" THEN "closed" ELSE scan.pc

\* OnResult as First sets it: the first hit is kept, and ends the scan.
Tell(r) ==
  /\ reader[r] # Nobody
  /\ reader' = [reader EXCEPT ![r] = Nobody]
  /\ scan' = IF reader[r] = Wanted /\ scan.hit = Nobody
               THEN [scan EXCEPT !.hit = reader[r], !.pc = Closing] ELSE scan
  /\ UNCHANGED <<net, up, heard, lost>>

\* The window closes.  It is longer than the rounds and the way there and back take together
\* (Timeout, RoundInterval): what was sent to receivers that run was lost or has come.
TimeOut ==
  /\ scan.pc = "open" /\ scan.round = Rounds /\ scan.next > Len(scan.targets) /\ scan.asked = Rounds
  /\ \A m \in Of(scan.n) : m.of \notin up
  /\ scan' = [scan EXCEPT !.pc = "closed", !.timed = TRUE]
  /\ UNCHANGED <<reader, net, up, heard, lost>>

\* The caller gives up.
GiveUp ==
  /\ scan.pc = "open" /\ scan' = [scan EXCEPT !.pc = "closed"]
  /\ UNCHANGED <<reader, net, up, heard, lost>>

\* Mutant of Return: the sockets are closed and nobody waits for their goroutines.
ReturnAtOnce ==
  /\ scan.pc = "closed"
  /\ scan' = [scan EXCEPT !.pc = "returned"]
  /\ UNCHANGED <<reader, net, up, heard, lost>>

\* Discover waits for the goroutines of its sockets, and First looks for a hit after that.
Return ==
  /\ scan.pc = "closed" /\ \A r \in Readers \union {Browser} : reader[r] = Nobody
  /\ scan' = [scan EXCEPT !.pc = "returned"]
  /\ UNCHANGED <<reader, net, up, heard, lost>>

\* A receiver is started or stopped.  Bound: one is stopped at a time.
Switch(r) ==
  /\ Receivers \ up \subseteq {r}
  /\ up' = IF r \in up THEN up \ {r} ELSE up \union {r}
  /\ heard' = [heard EXCEPT !.all = @ \intersect up']
  /\ UNCHANGED <<scan, reader, net, lost>>

DiscoveryNext ==
  \/ \E plan \in Plans, late \in SUBSET net : Begin(plan, late)
  \/ Send \/ NextRound \/ Query \/ TimeOut \/ GiveUp \/ Return
  \/ \E m \in net : Answer(m) \/ Respond(m) \/ Lose(m) \/ Browse(m) \/ \E r \in Readers : Receive(r, m)
  \/ \E r \in Readers \union {Browser} : Tell(r)
  \/ \E r \in Receivers : Switch(r)

DiscoverySpec == DiscoveryInit /\ [][DiscoveryNext]_scanVars

-----------------------------------------------------------------------------
\* The receivers that hear a probe of the scan.
Asked == UNION {Hears[t] : t \in ToSet(scan.targets)}

\* What a scan returns.  A scan that ran its time has found every receiver that ran
\* throughout and was probed, unless a datagram was lost in every round ("a single round
\* systematically misses hosts that are in fact present"); First finds what it wants exactly
\* if the scan has seen it, also when the window closes just as it is reported; and nothing
\* but mDNS reports a receiver that has not answered this very scan ("either a stale reply or
\* an announce this scan did not ask for").
ScanIsRight ==
  /\ scan.pc = "returned" /\ scan.timed =>
       \A r \in heard.all : r \in Asked /\ lost[r] < Rounds => r \in Known
  /\ scan.pc = "returned" => (scan.hit = Wanted <=> Wanted \in Known)
  /\ \A i \in 1..Len(scan.found) : scan.found[i].to # Mdns => scan.found[i].of \in heard.answered
=============================================================================
