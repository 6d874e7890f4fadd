------------------------------ MODULE ReachProofs ------------------------------
(***************************************************************************)
(* From a phone's search to its files, part by part: proofs for any        *)
(* number of receivers, addresses and files.                               *)
(*                                                                         *)
(* The race: a connection that is open is the winner's or will be read     *)
(* from the channel: nobody sends two results, and who sent one has ended. *)
(* So when all have ended and the channel is empty, the winner's is left.  *)
(***************************************************************************)
EXTENDS Reach, PairingProofs, FiniteSetTheorems, SequenceTheorems, TLAPS

(***************************************************************************)
(* The race.                                                               *)

Result == [addr : Addrs, ok : BOOLEAN]

\* The addresses whose connection is announced in the channel.
Announced(r) == {a \in Addrs : \E i \in 1..Len(r.results) : r.results[i].addr = a /\ r.results[i].ok}

\* A candidate that has sent a result has ended, and sends no other.
ResultsInv(r) ==
  /\ \A i \in 1..Len(r.results) : r.cand[r.results[i].addr] = "ended" /\ r.results[i].addr # r.winner
  /\ \A i, j \in 1..Len(r.results) : r.results[i].addr = r.results[j].addr => i = j
  /\ r.winner # NoAddr => r.cand[r.winner] = "ended"

\* Where the connections that are open are.
OpenInv(r) ==
  /\ r.open = Announced(r) \union ({r.winner} \ {NoAddr})
  /\ r.winner = NoAddr => r.came = Announced(r)

\* A dial that is not racing has no candidate that may still send.
PhaseInv(r) ==
  /\ r.pc = "idle" => r = NoDial
  /\ r.pc \in {"promote", "returned"} =>
       r.results = <<>> /\ \A a \in Addrs : r.cand[a] \in {"none", "ended"}
  /\ r.pc = "promote" => r.winner # NoAddr

DialInv(r) == r \in Dial /\ ResultsInv(r) /\ OpenInv(r) /\ PhaseInv(r)

ClientInv ==
  /\ client \in [addrs : Seq(Addrs) \ {<<>>}, good : Addrs \union {NoAddr}, sets : 0..MaxSets]
  /\ given \in Lists /\ answers \subseteq Addrs

RaceInv ==
  /\ dial \in [Dials -> Dial] /\ \A d \in Dials : DialInv(dial[d])
  /\ ClientInv /\ LastGoodFirst

USE DEF raceVars

-----------------------------------------------------------------------------
\* A list is the addresses at its places.
LEMMA ListOf ==
  ASSUME NEW list \in Seq(Addrs)
  PROVE  /\ ToSet(list) = {list[i] : i \in 1..Len(list)}
         /\ \A a : a \in ToSet(list) <=> \E i \in 1..Len(list) : list[i] = a
BY DEF ToSet

\* Promoting an address puts it first, if it is there, and loses none.
LEMMA PromotedProperties ==
  ASSUME NEW list \in Seq(Addrs), list # <<>>, NEW good \in Addrs \union {NoAddr}
  PROVE  LET new == Promoted(list, good) IN
           /\ new \in Seq(Addrs) /\ new # <<>> /\ Len(new) = Len(list)
           /\ ToSet(new) = ToSet(list)
           /\ good \in ToSet(new) => new[1] = good
<1> DEFINE new == Promoted(list, good)
<1> SUFFICES /\ new \in Seq(Addrs) /\ new # <<>> /\ Len(new) = Len(list)
             /\ ToSet(new) = ToSet(list)
             /\ good \in ToSet(new) => new[1] = good
  OBVIOUS
<1>0. Len(list) \in Nat \ {0} /\ DOMAIN list = 1..Len(list)
  OBVIOUS
<1>1. CASE good \notin ToSet(list)
  BY <1>1 DEF Promoted
<1>2. CASE good \in ToSet(list)
  <2>1. PICK at \in 1..Len(list) : list[at] = good /\ at = CHOOSE i \in 1..Len(list) : list[i] = good
    BY <1>2, ListOf
  <2>2. new = [list EXCEPT ![1] = good, ![at] = list[1]]
    BY <1>2, <2>1 DEF Promoted
  <2>3. good \in Addrs /\ list[1] \in Addrs
    BY <1>0, <2>1
  <2>4. new \in Seq(Addrs) /\ Len(new) = Len(list)
    BY <1>0, <2>1, <2>2, <2>3
  <2>5. \A i \in 1..Len(list) : new[i] = IF i = at THEN list[1] ELSE IF i = 1 THEN good ELSE list[i]
    BY <1>0, <2>1, <2>2
  <2>6. new[1] = good /\ new # <<>>
    BY <1>0, <2>1, <2>4, <2>5
  <2> HIDE DEF new
  <2>7. ToSet(new) = ToSet(list)
    <3>1. ASSUME NEW i \in 1..Len(list)
          PROVE  new[i] \in ToSet(list)
      BY <1>0, <2>1, <2>5, ListOf
    <3>2. ASSUME NEW i \in 1..Len(list)
          PROVE  \E j \in 1..Len(list) : new[j] = list[i]
      <4>1. CASE i = 1
        <5>1. new[at] = list[i]
          BY <2>1, <2>5, <4>1
        <5> QED
          BY <2>1, <5>1
      <4>2. CASE i = at
        <5>1. new[1] = list[i] /\ 1 \in 1..Len(list)
          BY <1>0, <2>1, <2>6, <4>2
        <5> QED
          BY <5>1
      <4>3. CASE i # 1 /\ i # at
        BY <2>5, <4>3
      <4> QED
        BY <4>1, <4>2, <4>3
    <3>3. \A a : a \in ToSet(new) <=> \E i \in 1..Len(list) : new[i] = a
      BY <2>4, ListOf
    <3>4. \A a : a \in ToSet(list) <=> \E i \in 1..Len(list) : list[i] = a
      BY ListOf
    <3> QED
      BY <3>1, <3>2, <3>3, <3>4
  <2> QED
    BY <2>4, <2>6, <2>7
<1> QED
  BY <1>1, <1>2

-----------------------------------------------------------------------------
\* A candidate whose turn has not ended sends its only result: what becomes of its dial.
Sent(r, a, ok) ==
  [r EXCEPT !.cand[a] = "ended", !.results = Append(@, [addr |-> a, ok |-> ok]),
            !.open = IF ok THEN @ \union {a} ELSE @,
            !.came = IF ok THEN @ \union {a} ELSE @]

\* The fields of a dial after a candidate has sent its result.
LEMMA SentFields ==
  ASSUME NEW r \in Dial, NEW a \in Addrs, NEW ok \in BOOLEAN
  PROVE  /\ Sent(r, a, ok) \in Dial
         /\ Sent(r, a, ok).pc = r.pc /\ Sent(r, a, ok).winner = r.winner
         /\ Sent(r, a, ok).results = Append(r.results, [addr |-> a, ok |-> ok])
         /\ Sent(r, a, ok).cand = [r.cand EXCEPT ![a] = "ended"]
         /\ Sent(r, a, ok).open = (IF ok THEN r.open \union {a} ELSE r.open)
         /\ Sent(r, a, ok).came = (IF ok THEN r.came \union {a} ELSE r.came)
<1> DEFINE cand    == [r.cand EXCEPT ![a] = "ended"]
           results == Append(r.results, [addr |-> a, ok |-> ok])
           open    == IF ok THEN r.open \union {a} ELSE r.open
           came    == IF ok THEN r.came \union {a} ELSE r.came
<1>1. Sent(r, a, ok) = [r EXCEPT !.cand = cand, !.results = results, !.open = open, !.came = came]
  BY DEF Sent, Dial
<1>2. cand \in [Addrs -> {"none", "waiting", "dialing", "ended"}]
  BY DEF Dial
<1>3. results \in Seq([addr : Addrs, ok : BOOLEAN])
  BY DEF Dial
<1>4. open \subseteq Addrs /\ came \subseteq Addrs
  BY DEF Dial
<1> HIDE DEF cand, results, open, came
<1>5. /\ Sent(r, a, ok) \in Dial
      /\ Sent(r, a, ok).pc = r.pc /\ Sent(r, a, ok).winner = r.winner
      /\ Sent(r, a, ok).cand = cand /\ Sent(r, a, ok).results = results
      /\ Sent(r, a, ok).open = open /\ Sent(r, a, ok).came = came
  BY <1>1, <1>2, <1>3, <1>4 DEF Dial
<1> QED
  BY <1>5 DEF cand, results, open, came

\* A result that is sent is the first of its candidate, and its connection is announced.
LEMMA SendKeeps ==
  ASSUME NEW r, DialInv(r), NEW a \in Addrs, NEW ok \in BOOLEAN, r.cand[a] \in {"waiting", "dialing"}
  PROVE  DialInv(Sent(r, a, ok))
<1> DEFINE n == Len(r.results)
<1>0. PICK s : s = Sent(r, a, ok)
  OBVIOUS
<1>1. r \in Dial
  BY DEF DialInv
<1>2. /\ s \in Dial /\ s.pc = r.pc /\ s.winner = r.winner
      /\ s.results = Append(r.results, [addr |-> a, ok |-> ok])
      /\ s.cand = [r.cand EXCEPT ![a] = "ended"]
      /\ s.open = (IF ok THEN r.open \union {a} ELSE r.open)
      /\ s.came = (IF ok THEN r.came \union {a} ELSE r.came)
  BY ZenonT(60), <1>0, <1>1, SentFields
<1>3. /\ n \in Nat /\ Len(s.results) = n + 1
      /\ s.results[n + 1] = [addr |-> a, ok |-> ok]
      /\ \A i \in 1..n : s.results[i] = r.results[i] /\ r.results[i] \in Result
  <2>1. r.results \in Seq(Result)
    BY <1>1 DEF Dial, Result
  <2>2. [addr |-> a, ok |-> ok] \in Result
    BY DEF Result
  <2> QED
    BY <1>2, <2>1, <2>2
<1>4. r.cand \in [Addrs -> {"none", "waiting", "dialing", "ended"}]
  BY <1>1 DEF Dial
<1>5. ResultsInv(s)
  <2>1. \A i \in 1..n : r.results[i].addr # a
    BY DEF DialInv, ResultsInv
  <2>2. r.winner # a
    BY RaceAssumption DEF DialInv, ResultsInv
  <2>3. s.cand[a] = "ended" /\ \A b \in Addrs : b # a => s.cand[b] = r.cand[b]
    BY <1>2, <1>4
  <2>4. s.results[n + 1].addr = a /\ \A i \in 1..n : r.results[i].addr \in Addrs
    BY <1>3 DEF Result
  <2>5. ASSUME NEW i \in 1..n + 1
        PROVE  s.cand[s.results[i].addr] = "ended" /\ s.results[i].addr # s.winner
    <3>1. CASE i = n + 1
      BY <1>2, <2>2, <2>3, <2>4, <3>1
    <3>2. CASE i # n + 1
      <4>1. i \in 1..n /\ s.results[i] = r.results[i]
        BY <1>3, <3>2
      <4>2. r.cand[r.results[i].addr] = "ended" /\ r.results[i].addr # r.winner
        BY <4>1 DEF DialInv, ResultsInv
      <4> QED
        BY <1>2, <2>1, <2>3, <2>4, <4>1, <4>2
    <3> QED
      BY <3>1, <3>2
  <2>6. ASSUME NEW i \in 1..n + 1, NEW j \in 1..n + 1, s.results[i].addr = s.results[j].addr
        PROVE  i = j
    <3>1. \A k, l \in 1..n : r.results[k].addr = r.results[l].addr => k = l
      BY DEF DialInv, ResultsInv
    <3>2. CASE i = n + 1 /\ j # n + 1
      BY <1>3, <2>1, <2>4, <2>6, <3>2
    <3>3. CASE i # n + 1 /\ j = n + 1
      BY <1>3, <2>1, <2>4, <2>6, <3>3
    <3>4. CASE i # n + 1 /\ j # n + 1
      BY <1>3, <2>6, <3>1, <3>4
    <3> QED
      BY <3>2, <3>3, <3>4
  <2>7. s.winner # NoAddr => s.cand[s.winner] = "ended"
    BY <1>2, <1>4, <2>2 DEF DialInv, ResultsInv
  <2> QED
    BY <1>3, <2>5, <2>6, <2>7 DEF ResultsInv
<1>6. Announced(s) = IF ok THEN Announced(r) \union {a} ELSE Announced(r)
  <2>1. ASSUME NEW b \in Addrs
        PROVE  b \in Announced(s) <=> b \in Announced(r) \/ (b = a /\ ok)
    <3>1. s.results[n + 1].addr = a /\ s.results[n + 1].ok = ok
      BY <1>3
    <3>2. \A i \in 1..Len(s.results) : i \in 1..n \/ i = n + 1
      BY <1>3
    <3>3. b \in Announced(r) => b \in Announced(s)
      BY <1>3 DEF Announced
    <3>4. b = a /\ ok => b \in Announced(s)
      BY <1>3, <3>1 DEF Announced
    <3>5. b \in Announced(s) => b \in Announced(r) \/ (b = a /\ ok)
      BY <1>3, <3>1, <3>2 DEF Announced
    <3> QED
      BY <3>3, <3>4, <3>5
  <2>2. Announced(s) \subseteq Addrs /\ Announced(r) \subseteq Addrs
    BY DEF Announced
  <2> QED
    BY <2>1, <2>2
<1>7. OpenInv(s)
  BY <1>2, <1>6 DEF DialInv, OpenInv
<1>8. PhaseInv(s)
  BY <1>2 DEF DialInv, PhaseInv, NoDial
<1> QED
  BY <1>0, <1>2, <1>5, <1>7, <1>8 DEF DialInv

\* What reading a result makes of a dial (Collect).
Read(r) ==
  LET first == Head(r.results) IN
    IF ~first.ok THEN [r EXCEPT !.results = Tail(@)]
    ELSE IF r.winner = NoAddr
           THEN [r EXCEPT !.results = Tail(@), !.winner = first.addr, !.done = TRUE]
           ELSE [r EXCEPT !.results = Tail(@), !.open = @ \ {first.addr}]

\* A result that is read makes the winner, or its connection is closed.
LEMMA ReadKeeps ==
  ASSUME NEW r, DialInv(r), r.pc = "racing", r.results # <<>>
  PROVE  DialInv(Read(r))
<1> DEFINE n == Len(r.results)
<1>1. r \in Dial /\ r.results \in Seq(Result)
  BY DEF DialInv, Dial, Result
<1>2. PICK first \in Result : first = Head(r.results) /\ first = r.results[1]
  BY <1>1
<1>3. PICK rest \in Seq(Result) : rest = Tail(r.results)
  <2>1. Tail(r.results) \in Seq(Result)
    BY <1>1
  <2> QED
    BY <2>1
<1>4. /\ n \in Nat \ {0} /\ Len(rest) = n - 1
      /\ \A i \in 1..Len(rest) : rest[i] = r.results[i + 1] /\ i + 1 \in 1..n
  BY <1>1, <1>3
<1>5. /\ first.addr \in Addrs /\ first.addr # NoAddr /\ r.cand[first.addr] = "ended"
      /\ first.addr # r.winner
  BY <1>2, <1>4, RaceAssumption DEF DialInv, ResultsInv, Result
<1>6. \A i \in 1..Len(rest) : rest[i].addr # first.addr
  BY <1>2, <1>4 DEF DialInv, ResultsInv
<1>7. /\ \A i \in 1..Len(rest) : r.cand[rest[i].addr] = "ended" /\ rest[i].addr # r.winner
      /\ \A i, j \in 1..Len(rest) : rest[i].addr = rest[j].addr => i = j
  <2>1. \A i \in 1..n : r.cand[r.results[i].addr] = "ended" /\ r.results[i].addr # r.winner
    BY DEF DialInv, ResultsInv
  <2>2. \A i, j \in 1..n : r.results[i].addr = r.results[j].addr => i = j
    BY DEF DialInv, ResultsInv
  <2>3. ASSUME NEW i \in 1..Len(rest), NEW j \in 1..Len(rest), rest[i].addr = rest[j].addr
        PROVE  i = j
    <3>1. PICK k \in 1..n, l \in 1..n : k = i + 1 /\ l = j + 1 /\ rest[i] = r.results[k] /\ rest[j] = r.results[l]
      BY <1>4
    <3>2. k = l
      BY <2>2, <2>3, <3>1
    <3> HIDE DEF n
    <3>3. i \in Nat /\ j \in Nat /\ i + 1 = j + 1
      BY <3>1, <3>2
    <3> QED
      BY <3>3
  <2> QED
    BY <1>4, <2>1, <2>3
<1> DEFINE left == {a \in Addrs : \E i \in 1..Len(rest) : rest[i].addr = a /\ rest[i].ok}
<1>8. \A a \in Addrs : a \in Announced(r) <=> a \in left \/ (a = first.addr /\ first.ok)
  <2>1. ASSUME NEW a \in Addrs, a \in left
        PROVE  a \in Announced(r)
    BY <1>4, <2>1 DEF Announced
  <2>2. first.ok => first.addr \in Announced(r)
    BY <1>2, <1>4, <1>5 DEF Announced
  <2>3. ASSUME NEW a \in Addrs, NEW i \in 1..n, r.results[i].addr = a, r.results[i].ok
        PROVE  a \in left \/ (a = first.addr /\ first.ok)
    <3>1. CASE i = 1
      BY <1>2, <2>3, <3>1
    <3>2. CASE i # 1
      <4>1. i - 1 \in 1..Len(rest) /\ rest[i - 1] = r.results[i]
        BY <1>4, <3>2
      <4> QED
        BY <2>3, <4>1
    <3> QED
      BY <3>1, <3>2
  <2> QED
    BY <2>1, <2>2, <2>3 DEF Announced
<1>9. first.addr \notin left /\ left \subseteq Addrs /\ Announced(r) \subseteq Addrs
  BY <1>6 DEF Announced
<1>10. ASSUME NEW s \in Dial, s.pc = r.pc, s.cand = r.cand, s.results = rest, s.came = r.came,
              s.winner \in {r.winner, first.addr},
              s.open = left \union ({s.winner} \ {NoAddr}),
              s.winner = NoAddr => ~first.ok
       PROVE  DialInv(s)
  <2>1. Announced(s) = left
    BY <1>10 DEF Announced
  <2>2. ResultsInv(s)
    BY <1>5, <1>6, <1>7, <1>10 DEF ResultsInv, DialInv
  <2>3. s.winner = NoAddr => s.came = left
    BY <1>5, <1>8, <1>9, <1>10 DEF DialInv, OpenInv
  <2> QED
    BY <1>10, <2>1, <2>2, <2>3 DEF DialInv, OpenInv, PhaseInv
<1> HIDE DEF left
<1>11. CASE ~first.ok
  <2>1. Read(r) = [r EXCEPT !.results = rest]
    BY <1>2, <1>3, <1>11 DEF Read
  <2>2. r.open = left \union ({r.winner} \ {NoAddr})
    BY <1>8, <1>9, <1>11 DEF DialInv, OpenInv
  <2>3. Read(r) \in Dial
    BY <1>1, <1>3, <2>1 DEF Dial, Result
  <2> QED
    BY <1>1, <1>10, <1>11, <2>1, <2>2, <2>3 DEF Dial
<1>12. CASE first.ok /\ r.winner = NoAddr
  <2>1. Read(r) = [r EXCEPT !.results = rest, !.winner = first.addr, !.done = TRUE]
    BY <1>2, <1>3, <1>12 DEF Read
  <2>2. r.open = left \union {first.addr}
    BY <1>5, <1>8, <1>9, <1>12 DEF DialInv, OpenInv
  <2>3. Read(r) \in Dial
    BY <1>1, <1>3, <1>5, <2>1 DEF Dial, Result
  <2>4. /\ Read(r).pc = r.pc /\ Read(r).cand = r.cand /\ Read(r).results = rest
        /\ Read(r).came = r.came /\ Read(r).winner = first.addr /\ Read(r).open = r.open
    BY <1>1, <2>1 DEF Dial
  <2> QED
    BY <1>5, <1>10, <2>2, <2>3, <2>4
<1>13. CASE first.ok /\ r.winner # NoAddr
  <2>1. Read(r) = [r EXCEPT !.results = rest, !.open = @ \ {first.addr}]
    BY <1>2, <1>3, <1>13 DEF Read
  <2>2. r.open \ {first.addr} = left \union {r.winner}
    BY <1>5, <1>8, <1>9, <1>13 DEF DialInv, OpenInv
  <2>3. Read(r) \in Dial
    BY <1>1, <1>3, <2>1 DEF Dial, Result
  <2>4. /\ Read(r).pc = r.pc /\ Read(r).cand = r.cand /\ Read(r).results = rest
        /\ Read(r).came = r.came /\ Read(r).winner = r.winner /\ Read(r).open = r.open \ {first.addr}
    BY <1>1, <2>1 DEF Dial
  <2> QED
    BY <1>10, <1>13, <2>2, <2>3, <2>4
<1> QED
  BY <1>11, <1>12, <1>13

\* Changes of a dial that leave its results, its winner and its connections as they are.
LEMMA SameResults ==
  ASSUME NEW r, DialInv(r), NEW s \in Dial,
         s.results = r.results, s.winner = r.winner, s.open = r.open, s.came = r.came,
         \A a \in Addrs : r.cand[a] = "ended" => s.cand[a] = "ended",
         PhaseInv(s)
  PROVE  DialInv(s)
<1>1. r \in Dial /\ r.results \in Seq(Result)
  BY DEF DialInv, Dial, Result
<1>2. \A i \in 1..Len(r.results) : r.results[i].addr \in Addrs
  <2>1. \A i \in 1..Len(r.results) : r.results[i] \in Result
    BY <1>1
  <2> QED
    BY <2>1 DEF Result
<1>3. ResultsInv(s)
  BY <1>1, <1>2 DEF DialInv, ResultsInv, Dial
<1>4. OpenInv(s)
  BY DEF DialInv, OpenInv, Announced
<1> QED
  BY <1>3, <1>4 DEF DialInv

\* A dial begins with nothing announced and nothing open.
LEMMA NoDialKeeps ==
  /\ NoDial \in Dial /\ DialInv(NoDial)
  /\ NoDial.results = <<>> /\ NoDial.winner = NoAddr /\ NoDial.open = {} /\ NoDial.came = {}
  /\ NoDial.pc = "idle" /\ \A a \in Addrs : NoDial.cand[a] = "none"
<1>1. /\ NoDial.results = <<>> /\ NoDial.winner = NoAddr /\ NoDial.open = {} /\ NoDial.came = {}
      /\ NoDial.pc = "idle" /\ \A a \in Addrs : NoDial.cand[a] = "none"
  BY DEF NoDial
<1>2. NoDial \in Dial
  BY DEF NoDial, Dial
<1> QED
  BY <1>1, <1>2 DEF DialInv, ResultsInv, OpenInv, PhaseInv, Announced

\* One dial moves, and the others stay.
LEMMA MoveKeeps ==
  ASSUME dial \in [Dials -> Dial], \A d \in Dials : DialInv(dial[d]),
         NEW d \in Dials, NEW r, DialInv(r), Moves(d, r)
  PROVE  dial' \in [Dials -> Dial] /\ \A e \in Dials : DialInv(dial'[e])
<1>1. r \in Dial
  BY DEF DialInv
<1> QED
  BY <1>1 DEF Moves

\* Every step of the dials keeps each of them in order.
LEMMA DialsStep ==
  ASSUME RaceInv, [RaceNext]_raceVars
  PROVE  dial' \in [Dials -> Dial] /\ \A d \in Dials : DialInv(dial'[d])
<1> DEFINE Goal == dial' \in [Dials -> Dial] /\ \A d \in Dials : DialInv(dial'[d])
<1>0. dial \in [Dials -> Dial] /\ \A d \in Dials : dial[d] \in Dial /\ DialInv(dial[d])
  BY DEF RaceInv
<1>1. CASE UNCHANGED dial
  BY <1>0, <1>1
<1>2. ASSUME NEW d \in Dials, NEW r, DialInv(r), Moves(d, r)
      PROVE  Goal
  BY <1>0, <1>2, MoveKeeps
<1>3. ASSUME NEW d \in Dials, BeginDial(d)
      PROVE  Goal
  <2> DEFINE cand == [a \in Addrs |-> IF a \in ToSet(client.addrs) THEN "waiting" ELSE "none"]
  <2>1. cand \in [Addrs -> {"none", "waiting", "dialing", "ended"}]
    OBVIOUS
  <2>2. PICK s : s = [NoDial EXCEPT !.pc = "racing", !.cand = cand] /\ Moves(d, s)
    BY <1>3 DEF BeginDial
  <2> HIDE DEF cand
  <2>3. s \in Dial /\ s.pc = "racing" /\ s.results = <<>> /\ s.winner = NoAddr /\ s.open = {} /\ s.came = {}
    BY <2>1, <2>2, NoDialKeeps DEF Dial
  <2>4. DialInv(s)
    BY <2>3, NoDialKeeps, SameResults DEF PhaseInv
  <2> QED
    BY <1>2, <2>2, <2>4
<1>4. ASSUME NEW d \in Dials, Cancel(d)
      PROVE  Goal
  <2>1. PICK s : s = [dial[d] EXCEPT !.done = TRUE] /\ Moves(d, s) /\ dial[d].pc = "racing"
    BY <1>4 DEF Cancel
  <2>2. /\ s \in Dial /\ s.pc = "racing" /\ s.results = dial[d].results /\ s.winner = dial[d].winner
        /\ s.open = dial[d].open /\ s.came = dial[d].came /\ s.cand = dial[d].cand
    BY <1>0, <2>1 DEF Dial
  <2>3. DialInv(s)
    BY <1>0, <2>2, SameResults DEF PhaseInv
  <2> QED
    BY <1>2, <2>1, <2>3
<1>5. ASSUME NEW d \in Dials, NEW a \in Addrs, NEW ok \in BOOLEAN, Sends(d, a, ok),
             dial[d].cand[a] \in {"waiting", "dialing"}
      PROVE  Goal
  <2>1. Moves(d, Sent(dial[d], a, ok))
    BY <1>5 DEF Sends, Sent
  <2>2. DialInv(Sent(dial[d], a, ok))
    BY <1>0, <1>5, SendKeeps
  <2> QED
    BY <1>2, <2>1, <2>2
<1>6. ASSUME NEW d \in Dials, NEW a \in Addrs, CandidateStep(d, a)
      PROVE  Goal
  <2>1. CASE dial[d].cand[a] = "waiting" /\ Moves(d, [dial[d] EXCEPT !.cand[a] = "dialing"])
    <3>1. PICK s : s = [dial[d] EXCEPT !.cand[a] = "dialing"] /\ Moves(d, s)
      BY <2>1
    <3>2. s = [dial[d] EXCEPT !.cand = [dial[d].cand EXCEPT ![a] = "dialing"]]
      BY <1>0, <3>1 DEF Dial
    <3>3. /\ s \in Dial /\ s.pc = dial[d].pc /\ s.results = dial[d].results
          /\ s.winner = dial[d].winner /\ s.open = dial[d].open /\ s.came = dial[d].came
          /\ s.cand = [dial[d].cand EXCEPT ![a] = "dialing"]
          /\ dial[d].cand \in [Addrs -> {"none", "waiting", "dialing", "ended"}]
      BY <1>0, <3>2 DEF Dial
    <3>4. PhaseInv(s)
      BY <1>0, <2>1, <3>3, NoDialKeeps DEF DialInv, PhaseInv
    <3>5. DialInv(s)
      BY <1>0, <2>1, <3>3, <3>4, SameResults
    <3> QED
      BY <1>2, <3>1, <3>5
  <2> QED
    BY <1>5, <1>6, <2>1 DEF CandidateStep, Start, Connect, Fail
<1>7. ASSUME NEW d \in Dials, Collect(d)
      PROVE  Goal
  <2>1. Moves(d, Read(dial[d])) /\ dial[d].pc = "racing" /\ dial[d].results # <<>>
    BY <1>7 DEF Collect, Read
  <2>2. DialInv(Read(dial[d]))
    BY <1>0, <2>1, ReadKeeps
  <2> QED
    BY <1>2, <2>1, <2>2
<1>8. ASSUME NEW d \in Dials, RaceReturns(d) \/ Promote(d)
      PROVE  Goal
  <2>1. PICK pc \in {"promote", "returned"} :
          /\ dial' = [dial EXCEPT ![d] = [dial[d] EXCEPT !.pc = pc]]
          /\ pc = "promote" => dial[d].winner # NoAddr
          /\ dial[d].results = <<>> /\ \A a \in Addrs : dial[d].cand[a] \in {"none", "ended"}
    BY <1>0, <1>8 DEF RaceReturns, Promote, Moves, DialInv, PhaseInv
  <2>2. PICK s : s = [dial[d] EXCEPT !.pc = pc] /\ dial' = [dial EXCEPT ![d] = s]
    BY <2>1
  <2>3. /\ s \in Dial /\ s.pc = pc /\ s.results = dial[d].results /\ s.winner = dial[d].winner
        /\ s.open = dial[d].open /\ s.came = dial[d].came /\ s.cand = dial[d].cand
    BY <1>0, <2>2 DEF Dial
  <2>4. DialInv(s)
    BY <1>0, <2>1, <2>3, SameResults DEF PhaseInv
  <2> QED
    BY <1>0, <2>2, <2>3, <2>4
<1>9. ASSUME NEW list \in Lists, SetAddrs(list)
      PROVE  UNCHANGED dial
  BY <1>9 DEF SetAddrs
<1> QED
  BY <1>1, <1>3, <1>4, <1>6, <1>7, <1>8, <1>9 DEF RaceNext, DialStep, DialerStep

\* SetAddrs and promoting keep the last address that worked in front, and the list complete.
LEMMA ClientStep ==
  ASSUME RaceInv, [RaceNext]_raceVars
  PROVE  ClientInv' /\ LastGoodFirst'
<1> DEFINE Goal == ClientInv' /\ LastGoodFirst'
<1>0. ClientInv /\ LastGoodFirst
  BY DEF RaceInv
<1>1. ASSUME NEW list \in Lists, SetAddrs(list)
      PROVE  Goal
  <2>1. list \in Seq(Addrs) /\ list # <<>> /\ client.good \in Addrs \union {NoAddr}
    BY <1>0, RaceAssumption DEF ClientInv
  <2>2. PICK new : new = Promoted(list, client.good)
    OBVIOUS
  <2>3. /\ new \in Seq(Addrs) /\ new # <<>> /\ Len(new) = Len(list) /\ ToSet(new) = ToSet(list)
        /\ client.good \in ToSet(new) => new[1] = client.good
    BY <2>1, <2>2, PromotedProperties
  <2>4. /\ client' = [client EXCEPT !.addrs = new, !.sets = @ + 1] /\ client.sets < MaxSets
        /\ given' = list /\ answers' = answers
    BY <1>1, <2>2 DEF SetAddrs
  <2>5. client.sets + 1 \in 0..MaxSets
    BY <1>0, <2>4, RaceAssumption DEF ClientInv
  <2>6. client' \in [addrs : Seq(Addrs) \ {<<>>}, good : Addrs \union {NoAddr}, sets : 0..MaxSets]
        /\ client'.addrs = new /\ client'.good = client.good
    BY <1>0, <2>3, <2>4, <2>5 DEF ClientInv
  <2> QED
    BY <1>0, <2>3, <2>4, <2>6 DEF ClientInv, LastGoodFirst
<1>2. ASSUME NEW d \in Dials, Promote(d)
      PROVE  Goal
  <2> DEFINE winner == dial[d].winner
  <2>1. winner \in Addrs
    BY <1>2 DEF Promote, RaceInv, DialInv, PhaseInv, Dial
  <2>2. PICK new : new = Promoted(client.addrs, winner)
    OBVIOUS
  <2>3. /\ new \in Seq(Addrs) /\ new # <<>> /\ Len(new) = Len(client.addrs)
        /\ ToSet(new) = ToSet(client.addrs)
        /\ winner \in ToSet(new) => new[1] = winner
    BY <1>0, <2>1, <2>2, PromotedProperties DEF ClientInv
  <2>4. /\ client' = [client EXCEPT !.good = winner, !.addrs = new]
        /\ UNCHANGED <<given, answers>>
    BY <1>2, <2>2 DEF Promote, Moves
  <2>5. client' \in [addrs : Seq(Addrs) \ {<<>>}, good : Addrs \union {NoAddr}, sets : 0..MaxSets]
        /\ client'.addrs = new /\ client'.good = winner
    BY <1>0, <2>1, <2>3, <2>4 DEF ClientInv
  <2> QED
    BY <1>0, <2>3, <2>4, <2>5 DEF ClientInv, LastGoodFirst
<1>3. CASE UNCHANGED <<client, given, answers>>
  BY <1>0, <1>3 DEF ClientInv, LastGoodFirst
<1>4. ASSUME NEW d \in Dials,
             BeginDial(d) \/ Cancel(d) \/ Collect(d) \/ RaceReturns(d) \/ \E a \in Addrs : CandidateStep(d, a)
      PROVE  UNCHANGED <<client, given, answers>>
  BY <1>4 DEF BeginDial, Cancel, Collect, RaceReturns, CandidateStep, Start, Connect, Fail, Sends, Moves
<1> QED
  BY <1>1, <1>2, <1>3, <1>4 DEF RaceNext, DialStep, DialerStep

\* No dial has started, and the client has the addresses it was given.
LEMMA RaceInvInit ==
  RaceInit => RaceInv
<1> SUFFICES ASSUME RaceInit
             PROVE  RaceInv
  OBVIOUS
<1>1. given \in Seq(Addrs) /\ given # <<>> /\ given \in Lists
  BY RaceAssumption DEF RaceInit
<1>2. /\ client \in [addrs : Seq(Addrs) \ {<<>>}, good : Addrs \union {NoAddr}, sets : 0..MaxSets]
      /\ client.addrs = given /\ client.good = NoAddr
  BY <1>1, RaceAssumption DEF RaceInit
<1>3. client.good \notin ToSet(client.addrs)
  BY <1>1, <1>2, ListOf, RaceAssumption
<1> QED
  BY <1>1, <1>2, <1>3, NoDialKeeps DEF RaceInit, RaceInv, ClientInv, LastGoodFirst

-----------------------------------------------------------------------------
\* In every reachable state each dial and the client's list are as RaceInv says.
THEOREM RaceIsSound ==
  RaceSpec => []RaceInv
<1>1. RaceInv /\ [RaceNext]_raceVars => RaceInv'
  BY DialsStep, ClientStep DEF RaceInv
<1> QED
  BY <1>1, RaceInvInit, PTL DEF RaceSpec

\* A dial that returns has its winner's connection open and no other (race).
THEOREM RaceLeavesOne ==
  RaceSpec => []RaceKeepsOne
<1>1. ASSUME RaceInv
      PROVE  RaceKeepsOne
  <2>1. ASSUME NEW d \in Dials, dial[d].pc \in {"promote", "returned"}
        PROVE  Announced(dial[d]) = {}
    BY <1>1, <2>1 DEF RaceInv, DialInv, PhaseInv, Announced
  <2> QED
    BY <1>1, <2>1 DEF RaceKeepsOne, RaceInv, DialInv, OpenInv
<1> QED
  BY <1>1, RaceIsSound, PTL

\* The last address that worked is the first of those known, and none of them is lost
\* (SetAddrs, promoteLocked).
THEOREM RacePromotes ==
  RaceSpec => []LastGoodFirst
<1>1. RaceInv => LastGoodFirst
  BY DEF RaceInv
<1> QED
  BY <1>1, RaceIsSound, PTL

(***************************************************************************)
(* The responder.                                                          *)
(*                                                                         *)
(* What a source has been answered since any answer, with what it may      *)
(* spend now, was paid for by a full bucket and the time since.  A bucket  *)
(* that is forgotten was full by then, and a table that is dropped takes   *)
(* the history with it.                                                    *)
(***************************************************************************)

\* What a source may spend at this moment, before it is cut to a full bucket.
Credit(s) == IF s \in DOMAIN bucket THEN bucket[s].tokens + (clock - bucket[s].last) ELSE Full

TableInv ==
  /\ DOMAIN bucket \subseteq Sources
  /\ bucket \in [DOMAIN bucket -> [tokens : 0..Full, last : 0..clock]]
  /\ IsFiniteSet(DOMAIN bucket) /\ Cardinality(DOMAIN bucket) <= MaxTracked

Past(log) == log \in Seq(Nat) /\ \A i \in 1..Len(log) : log[i] <= clock

ClockInv ==
  /\ clock \in 0..MaxClock
  /\ Past(moved) /\ moves <= MaxMoves
  /\ sent \in [Sources -> Seq(Nat)] /\ \A s \in Sources : Past(sent[s])
  /\ cached \in [addrs : -1..moves, at : 0..clock]
  /\ answer \in [addrs : 0..moves, at : 0..clock, listed : BOOLEAN]

\* Since any answer, the later answers and what is left to spend were paid for.
Paid(log, credit, now) == \A i \in 1..Len(log) : Cost * (Len(log) - i + 1) + credit <= Full + (now - log[i])

PaidInv == \A s \in Sources : Paid(sent[s], Credit(s), clock)

\* Between any two answers, too.
InBudget(log) == \A i, j \in 1..Len(log) : i <= j => Cost * (j - i + 1) <= Full + (log[j] - log[i])

BudgetInv == \A s \in Sources : InBudget(sent[s])

\* The list that is kept was the machine's when it was made.
ListInv ==
  /\ cached.addrs >= 0 /\ cached.addrs < moves => cached.at <= moved[cached.addrs + 1]
  /\ answer.listed /\ answer.addrs < moves => answer.at - moved[answer.addrs + 1] < TTL

ResponderInv == ClockInv /\ TableInv /\ PaidInv /\ BudgetInv /\ ListInv

-----------------------------------------------------------------------------
\* The parameters are positive, and a full bucket pays for an answer.
LEMMA ResponderParameters ==
  /\ Full \in Nat /\ Cost \in Nat \ {0} /\ Cost <= Full /\ MaxTracked \in Nat \ {0} /\ TTL \in Nat \ {0}
  /\ Idle \in Nat /\ Idle >= Full /\ MaxClock \in Nat /\ MaxMoves \in Nat
BY ResponderAssumption DEF Full

\* What TableFor leaves of the table, and the bucket a source finds there.
LEMMA TableForIt ==
  ASSUME ClockInv, TableInv, NEW s \in Sources, NEW table, table = TableFor(s)
  PROVE  /\ s \in DOMAIN table /\ DOMAIN table \subseteq Sources
         /\ table \in [DOMAIN table -> [tokens : 0..Full, last : 0..clock]]
         /\ IsFiniteSet(DOMAIN table) /\ Cardinality(DOMAIN table) <= MaxTracked
         /\ \A x \in DOMAIN table \ {s} : x \in DOMAIN bucket /\ table[x] = bucket[x]
         /\ Refilled(table[s]) = Least(Full, Credit(s))
         /\ DOMAIN bucket \subseteq DOMAIN table \/ s \notin DOMAIN bucket
<1>1. /\ clock \in Nat /\ DOMAIN bucket \subseteq Sources
      /\ bucket \in [DOMAIN bucket -> [tokens : 0..Full, last : 0..clock]]
      /\ IsFiniteSet(DOMAIN bucket) /\ Cardinality(DOMAIN bucket) <= MaxTracked
  BY ResponderParameters DEF ClockInv, TableInv
<1>2. /\ Fresh \in [tokens : 0..Full, last : 0..clock] /\ Fresh.tokens = Full /\ Fresh.last = clock
      /\ Refilled(Fresh) = Full
  BY <1>1, ResponderParameters DEF Fresh, Refilled, Least
<1>3. CASE s \in DOMAIN bucket
  <2>1. table = bucket
    BY <1>3 DEF TableFor
  <2>2. Refilled(table[s]) = Least(Full, Credit(s))
    BY <1>3, <2>1 DEF Refilled, Credit
  <2>3. QED
    BY <1>1, <1>3, <2>1, <2>2
<1>4. CASE s \notin DOMAIN bucket /\ Cardinality(DOMAIN bucket) >= MaxTracked
  <2>1. table = [x \in {s} |-> Fresh]
    BY <1>4 DEF TableFor
  <2>2. DOMAIN table = {s} /\ table[s] = Fresh
    BY <2>1
  <2>3. IsFiniteSet({s}) /\ Cardinality({s}) = 1
    BY FS_Singleton
  <2>4. Refilled(table[s]) = Least(Full, Credit(s))
    BY <1>2, <1>4, <2>2, ResponderParameters DEF Credit, Least
  <2>5. table \in [DOMAIN table -> [tokens : 0..Full, last : 0..clock]]
    BY <1>2, <2>1, <2>2
  <2>6. QED
    BY <1>4, <2>2, <2>3, <2>4, <2>5, ResponderParameters
<1>5. CASE s \notin DOMAIN bucket /\ ~(Cardinality(DOMAIN bucket) >= MaxTracked)
  <2>1. table = [x \in DOMAIN bucket \union {s} |-> IF x = s THEN Fresh ELSE bucket[x]]
    BY <1>5 DEF TableFor
  <2>2. DOMAIN table = DOMAIN bucket \union {s} /\ table[s] = Fresh /\ \A x \in DOMAIN bucket : table[x] = bucket[x]
    BY <1>5, <2>1
  <2>3. /\ IsFiniteSet(DOMAIN table) /\ Cardinality(DOMAIN table) = Cardinality(DOMAIN bucket) + 1
        /\ Cardinality(DOMAIN bucket) \in Nat
    BY <1>1, <1>5, <2>2, FS_AddElement, FS_CardinalityType
  <2>4. Refilled(table[s]) = Least(Full, Credit(s))
    BY <1>2, <1>5, <2>2, ResponderParameters DEF Credit, Least
  <2>5. table \in [DOMAIN table -> [tokens : 0..Full, last : 0..clock]]
    BY <1>1, <1>2, <2>1, <2>2
  <2>6. Cardinality(DOMAIN table) <= MaxTracked
    BY <1>5, <2>3, ResponderParameters
  <2>7. QED
    BY <1>1, <1>5, <2>2, <2>3, <2>4, <2>5, <2>6
<1>6. QED
  BY <1>3, <1>4, <1>5

\* The credit of a source is never less than nothing.
LEMMA Credits == ClockInv /\ TableInv => \A s \in Sources : Credit(s) \in Nat
<1>1. SUFFICES ASSUME ClockInv, TableInv, NEW s \in Sources PROVE Credit(s) \in Nat
  OBVIOUS
<1>2. clock \in Nat /\ Full \in Nat
  BY <1>1, ResponderParameters DEF ClockInv
<1>3. ASSUME s \in DOMAIN bucket
      PROVE  bucket[s] \in [tokens : 0..Full, last : 0..clock]
  BY <1>1, <1>3 DEF TableInv
<1>4. QED
  BY <1>2, <1>3 DEF Credit

\* So it is after a step.
LEMMA CreditsThen == ClockInv' /\ TableInv' => \A s \in Sources : Credit(s)' \in Nat
<1>1. SUFFICES ASSUME ClockInv', TableInv', NEW s \in Sources PROVE Credit(s)' \in Nat
  OBVIOUS
<1>2. clock' \in Nat /\ Full \in Nat
  BY <1>1, ResponderParameters DEF ClockInv
<1>3. ASSUME s \in DOMAIN bucket'
      PROVE  bucket'[s] \in [tokens : 0..Full, last : 0..clock']
  BY <1>1, <1>3 DEF TableInv
<1>4. QED
  BY <1>2, <1>3 DEF Credit

\* What was paid for stays so while the credit grows no faster than the time.
LEMMA PaidKept ==
  ASSUME NEW log \in Seq(Nat), NEW credit \in Int, NEW now \in Int, Paid(log, credit, now),
         NEW credit2 \in Int, NEW now2 \in Int, credit2 - credit <= now2 - now
  PROVE  Paid(log, credit2, now2)
<1>1. SUFFICES ASSUME NEW i \in 1..Len(log)
               PROVE  Cost * (Len(log) - i + 1) + credit2 <= Full + (now2 - log[i])
  BY DEF Paid
<1>2. PICK d \in Int : d = Cost * (Len(log) - i + 1)
  BY ResponderParameters
<1>3. d + credit <= Full + (now - log[i]) /\ log[i] \in Nat
  BY <1>2 DEF Paid
<1>4. d + credit2 <= Full + (now2 - log[i])
  BY <1>3, ResponderParameters
<1>5. QED
  BY <1>2, <1>4

\* One more answer, for Cost of at most a full bucket.
LEMMA PaidMore ==
  ASSUME NEW log \in Seq(Nat), NEW credit \in Cost..Full, NEW now \in Nat, Paid(log, credit, now)
  PROVE  Paid(Append(log, now), credit - Cost, now)
<1>1. SUFFICES ASSUME NEW i \in 1..Len(log) + 1
               PROVE  Cost * (Len(log) + 1 - i + 1) + (credit - Cost) <= Full + (now - Append(log, now)[i])
  BY DEF Paid
<1>2. CASE i = Len(log) + 1
  BY <1>2, ResponderParameters
<1>3. CASE i # Len(log) + 1
  <2>1. i \in 1..Len(log) /\ Append(log, now)[i] = log[i] /\ log[i] \in Nat
    BY <1>3
  <2>2. Cost * (Len(log) - i + 1) + credit <= Full + (now - log[i])
    BY <2>1 DEF Paid
  <2>3. Cost * (Len(log) + 1 - i + 1) = Cost * (Len(log) - i + 1) + Cost
    BY <2>1, ResponderParameters
  <2>4. Cost * (Len(log) - i + 1) \in Int
    BY <2>1, ResponderParameters
  <2>5. QED
    BY <2>1, <2>2, <2>3, <2>4, ResponderParameters
<1>4. QED
  BY <1>2, <1>3

\* The answers since each answer were paid for, and so is the next.
LEMMA BudgetMore ==
  ASSUME NEW log \in Seq(Nat), NEW credit \in Nat, NEW now \in Nat,
         InBudget(log), Paid(Append(log, now), credit, now)
  PROVE  InBudget(Append(log, now))
<1>1. SUFFICES ASSUME NEW i \in 1..Len(log) + 1, NEW j \in 1..Len(log) + 1, i <= j
               PROVE  Cost * (j - i + 1) <= Full + (Append(log, now)[j] - Append(log, now)[i])
  BY DEF InBudget
<1>2. CASE j = Len(log) + 1
  <2>1. Cost * (j - i + 1) + credit <= Full + (now - Append(log, now)[i])
    BY <1>2 DEF Paid
  <2>2. Append(log, now)[j] = now /\ Append(log, now)[i] \in Nat /\ Cost * (j - i + 1) \in Int
    BY <1>2, ResponderParameters
  <2>3. PICK d \in Int : d = Cost * (j - i + 1)
    BY <2>2
  <2>4. d + credit <= Full + (now - Append(log, now)[i])
    BY <2>1, <2>3
  <2>5. d <= Full + (now - Append(log, now)[i])
    BY <2>2, <2>4, ResponderParameters
  <2>6. QED
    BY <2>2, <2>3, <2>5
<1>3. CASE j # Len(log) + 1
  <2>1. i \in 1..Len(log) /\ j \in 1..Len(log) /\ Append(log, now)[i] = log[i] /\ Append(log, now)[j] = log[j]
    BY <1>1, <1>3
  <2>2. QED
    BY <1>1, <2>1 DEF InBudget
<1>4. QED
  BY <1>2, <1>3

-----------------------------------------------------------------------------
\* The first state.
LEMMA StartsInBudget == ResponderInit => ResponderInv
<1>1. SUFFICES ASSUME ResponderInit PROVE ResponderInv
  OBVIOUS
<1>2. clock = 0 /\ moved = <<>> /\ bucket = <<>> /\ cached = [addrs |-> -1, at |-> 0]
      /\ sent = [s \in Sources |-> <<>>] /\ answer = [addrs |-> 0, at |-> 0, listed |-> TRUE]
  BY <1>1 DEF ResponderInit
<1>3. /\ moved \in Seq(Nat) /\ Len(moved) = 0
      /\ \A s \in Sources : sent[s] \in Seq(Nat) /\ Len(sent[s]) = 0
  BY <1>2
<1>4. ClockInv
  BY <1>2, <1>3, ResponderParameters DEF ClockInv, Past, moves
<1>5. TableInv
  <2>1. DOMAIN bucket = {} /\ bucket \in [{} -> [tokens : 0..Full, last : 0..clock]]
    BY <1>2
  <2>2. QED
    BY <2>1, FS_EmptySet, ResponderParameters DEF TableInv
<1>6. PaidInv /\ BudgetInv /\ ListInv
  BY <1>2, <1>3 DEF PaidInv, Paid, BudgetInv, InBudget, ListInv, moves
<1>7. QED
  BY <1>4, <1>5, <1>6 DEF ResponderInv

\* Time passes.
LEMMA TickKeepsBudget == ResponderInv /\ Tick => ResponderInv'
<1>1. SUFFICES ASSUME ResponderInv, Tick PROVE ResponderInv'
  OBVIOUS
<1>2. /\ clock' = clock + 1 /\ clock' \in 0..MaxClock /\ clock \in Nat
      /\ UNCHANGED <<bucket, moved, cached, sent, answer>>
  BY <1>1, ResponderParameters DEF Tick, ResponderInv, ClockInv
<1>3. ClockInv'
  BY SMTT(60), <1>1, <1>2 DEF ResponderInv, ClockInv, Past, moves
<1>4. TableInv'
  BY <1>1, <1>2 DEF ResponderInv, TableInv
<1>5. PaidInv'
  <2>1. SUFFICES ASSUME NEW s \in Sources PROVE Paid(sent[s], Credit(s)', clock')
    BY <1>2 DEF PaidInv
  <2>2. Credit(s) \in Nat /\ Credit(s)' \in Nat
    BY <1>1, <1>3, <1>4, Credits, CreditsThen DEF ResponderInv
  <2>3. Credit(s)' - Credit(s) <= clock' - clock
    BY <1>1, <1>2, ResponderParameters DEF ResponderInv, TableInv, Credit
  <2>4. sent[s] \in Seq(Nat) /\ Paid(sent[s], Credit(s), clock)
    BY <1>1 DEF ResponderInv, ClockInv, PaidInv
  <2>5. QED
    BY <1>2, <2>2, <2>3, <2>4, PaidKept
<1>6. BudgetInv' /\ ListInv'
  BY <1>1, <1>2 DEF ResponderInv, BudgetInv, ListInv, moves
<1>7. QED
  BY <1>3, <1>4, <1>5, <1>6 DEF ResponderInv

\* The interfaces change.
LEMMA MoveKeepsBudget == ResponderInv /\ Move => ResponderInv'
<1>1. SUFFICES ASSUME ResponderInv, Move PROVE ResponderInv'
  OBVIOUS
<1>2. /\ moves < MaxMoves /\ moved' = Append(moved, clock)
      /\ UNCHANGED <<clock, bucket, cached, sent, answer>>
  BY <1>1 DEF Move
<1>3. moved \in Seq(Nat) /\ clock \in Nat /\ Past(moved) /\ moves \in Nat
  BY <1>1, ResponderParameters DEF ResponderInv, ClockInv, Past, moves
<1>4. /\ moved' \in Seq(Nat) /\ moves' = moves + 1 /\ moved'[moves + 1] = clock
      /\ \A i \in 1..moves : moved'[i] = moved[i]
  BY <1>2, <1>3 DEF moves
<1>5. ClockInv'
  BY <1>1, <1>2, <1>3, <1>4, ResponderParameters DEF ResponderInv, ClockInv, Past, moves
<1>6. TableInv' /\ PaidInv' /\ BudgetInv'
  BY <1>1, <1>2 DEF ResponderInv, TableInv, PaidInv, Credit, BudgetInv
<1>7. ListInv'
  <2>1. /\ cached.addrs \in -1..moves /\ cached.at \in 0..clock
        /\ answer.addrs \in 0..moves /\ answer.at \in 0..clock
    BY <1>1 DEF ResponderInv, ClockInv
  <2>2. cached.addrs >= 0 /\ cached.addrs < moves + 1 => cached.at <= moved'[cached.addrs + 1]
    <3>1. CASE cached.addrs = moves
      BY <1>4, <2>1, <3>1
    <3>2. CASE cached.addrs # moves
      <4>1. ListInv
        BY <1>1 DEF ResponderInv
      <4>2. SUFFICES ASSUME cached.addrs >= 0, cached.addrs < moves + 1 PROVE cached.at <= moved'[cached.addrs + 1]
        OBVIOUS
      <4>3. cached.addrs < moves /\ cached.addrs + 1 \in 1..moves
        BY <1>3, <2>1, <3>2, <4>2
      <4>4. QED
        BY <1>4, <4>1, <4>2, <4>3 DEF ListInv
    <3>3. QED
      BY <3>1, <3>2
  <2>3. answer.listed /\ answer.addrs < moves + 1 => answer.at - moved'[answer.addrs + 1] < TTL
    <3>1. CASE answer.addrs = moves
      BY <1>3, <1>4, <2>1, <3>1, ResponderParameters
    <3>2. CASE answer.addrs # moves
      <4>1. ListInv
        BY <1>1 DEF ResponderInv
      <4>2. SUFFICES ASSUME answer.listed, answer.addrs < moves + 1 PROVE answer.at - moved'[answer.addrs + 1] < TTL
        OBVIOUS
      <4>3. answer.addrs < moves /\ answer.addrs + 1 \in 1..moves
        BY <1>3, <2>1, <3>2, <4>2
      <4>4. QED
        BY <1>4, <4>1, <4>2, <4>3 DEF ListInv
    <3>3. QED
      BY <3>1, <3>2
  <2>4. QED
    BY <1>2, <1>4, <2>2, <2>3 DEF ListInv
<1>8. QED
  BY <1>5, <1>6, <1>7 DEF ResponderInv

\* A source that was quiet for long enough had a full bucket.
LEMMA EvictKeepsBudget == ResponderInv /\ EvictIdle => ResponderInv'
<1>1. SUFFICES ASSUME ResponderInv, EvictIdle PROVE ResponderInv'
  OBVIOUS
<1>2. PICK S : S = {s \in DOMAIN bucket : bucket[s].last >= clock - Idle}
  OBVIOUS
<1>3. /\ bucket' = [s \in S |-> bucket[s]]
      /\ UNCHANGED <<clock, moved, cached, sent, answer>>
  BY <1>1, <1>2 DEF EvictIdle, Restrict
<1>4. /\ DOMAIN bucket \subseteq Sources /\ S \subseteq DOMAIN bucket /\ DOMAIN bucket' = S
      /\ bucket \in [DOMAIN bucket -> [tokens : 0..Full, last : 0..clock]]
      /\ IsFiniteSet(DOMAIN bucket) /\ Cardinality(DOMAIN bucket) <= MaxTracked /\ clock \in Nat
  BY <1>1, <1>2, <1>3 DEF ResponderInv, TableInv, ClockInv
<1>5. ClockInv' /\ BudgetInv' /\ ListInv'
  BY <1>1, <1>3 DEF ResponderInv, ClockInv, Past, BudgetInv, ListInv, moves
<1>6. TableInv'
  <2>1. IsFiniteSet(S) /\ Cardinality(S) <= Cardinality(DOMAIN bucket)
    BY <1>4, FS_Subset
  <2>2. Cardinality(S) \in Nat /\ Cardinality(DOMAIN bucket) \in Nat
    BY <1>4, <2>1, FS_CardinalityType
  <2>3. bucket' \in [S -> [tokens : 0..Full, last : 0..clock]]
    BY <1>3, <1>4
  <2>4. QED
    BY <1>3, <1>4, <2>1, <2>2, <2>3, ResponderParameters DEF TableInv
<1>7. PaidInv'
  <2>1. SUFFICES ASSUME NEW s \in Sources PROVE Paid(sent[s], Credit(s)', clock)
    BY <1>3 DEF PaidInv
  <2>2. Credit(s) \in Nat /\ Credit(s)' \in Nat
    BY <1>1, <1>5, <1>6, Credits, CreditsThen DEF ResponderInv
  <2>3. Credit(s)' <= Credit(s)
    <3>1. CASE s \in S
      BY <1>3, <1>4, <2>2, <3>1 DEF Credit
    <3>2. CASE s \notin S /\ s \in DOMAIN bucket
      BY <1>2, <1>3, <1>4, <3>2, ResponderParameters DEF Credit
    <3>3. CASE s \notin DOMAIN bucket
      BY <1>4, <3>3, ResponderParameters DEF Credit
    <3>4. QED
      BY <3>1, <3>2, <3>3
  <2>4. sent[s] \in Seq(Nat) /\ Paid(sent[s], Credit(s), clock)
    BY <1>1 DEF ResponderInv, ClockInv, PaidInv
  <2>5. QED
    BY <1>4, <2>2, <2>3, <2>4, PaidKept
<1>8. QED
  BY <1>5, <1>6, <1>7 DEF ResponderInv

\* What Refuse and Announce leave of the table, and of the credits.
LEMMA Charged ==
  ASSUME ClockInv, TableInv, clock' = clock, NEW s \in Sources, NEW n \in 0..Full,
         NEW table, table = TableFor(s),
         bucket' = [table EXCEPT ![s] = [tokens |-> n, last |-> clock]]
  PROVE  /\ TableInv' /\ Credit(s)' = n
         /\ DOMAIN bucket \ DOMAIN table = {} => \A x \in Sources \ {s} : Credit(x)' = Credit(x)
<1>1. /\ s \in DOMAIN table /\ DOMAIN table \subseteq Sources
      /\ table \in [DOMAIN table -> [tokens : 0..Full, last : 0..clock]]
      /\ IsFiniteSet(DOMAIN table) /\ Cardinality(DOMAIN table) <= MaxTracked
      /\ \A x \in DOMAIN table \ {s} : x \in DOMAIN bucket /\ table[x] = bucket[x]
  BY TableForIt
<1>2. clock \in Nat
  BY ResponderParameters DEF ClockInv
<1>3. PICK b \in [tokens : 0..Full, last : 0..clock] : b = [tokens |-> n, last |-> clock]
  <2>1. [tokens |-> n, last |-> clock] \in [tokens : 0..Full, last : 0..clock]
    BY <1>2
  <2>2. QED
    BY <2>1
<1>4. bucket' = [table EXCEPT ![s] = b]
  BY <1>3
<1>5. /\ DOMAIN bucket' = DOMAIN table /\ bucket'[s] = b
      /\ \A x \in DOMAIN table \ {s} : bucket'[x] = table[x]
      /\ bucket' \in [DOMAIN table -> [tokens : 0..Full, last : 0..clock]]
  BY <1>1, <1>4
<1>6. TableInv'
  BY <1>1, <1>5 DEF TableInv
<1>7. Credit(s)' = n
  <2>1. b.tokens = n /\ b.last = clock
    BY <1>3
  <2>2. QED
    BY <1>1, <1>2, <1>5, <2>1 DEF Credit
<1>8. ASSUME DOMAIN bucket \ DOMAIN table = {}, NEW x \in Sources \ {s}
      PROVE  Credit(x)' = Credit(x)
  <2>1. x \in DOMAIN table <=> x \in DOMAIN bucket
    BY <1>1, <1>8
  <2>2. x \in DOMAIN table => bucket'[x] = bucket[x]
    BY <1>1, <1>5
  <2>3. QED
    BY <1>5, <2>1, <2>2 DEF Credit
<1>9. QED
  BY <1>6, <1>7, <1>8

\* A table that was dropped had no bucket of the source, whose new one is full.
LEMMA TableDropped ==
  ASSUME ClockInv, TableInv, NEW s \in Sources, NEW table, table = TableFor(s),
         DOMAIN bucket \ DOMAIN table # {}
  PROVE  Refilled(table[s]) = Full
<1>1. s \notin DOMAIN bucket
  BY TableForIt
<1>2. Refilled(table[s]) = Least(Full, Credit(s)) /\ Credit(s) = Full
  BY <1>1, TableForIt DEF Credit
<1>3. QED
  BY <1>2, ResponderParameters DEF Least

\* A probe that is refused.
LEMMA RefuseKeepsBudget == \A s \in Sources : ResponderInv /\ Refuse(s) => ResponderInv'
<1>1. SUFFICES ASSUME NEW s \in Sources, ResponderInv, Refuse(s) PROVE ResponderInv'
  OBVIOUS
<1>2. PICK table : table = TableFor(s)
  OBVIOUS
<1>3. PICK n : n = Refilled(table[s])
  OBVIOUS
<1>4. /\ n < Cost /\ bucket' = [table EXCEPT ![s] = [tokens |-> n, last |-> clock]]
      /\ UNCHANGED <<clock, moved, cached, sent, answer>>
  BY <1>1, <1>2, <1>3 DEF Refuse
<1>5. ClockInv /\ TableInv /\ \A x \in Sources : Credit(x) \in Nat
  BY <1>1, Credits DEF ResponderInv
<1>6. n = Least(Full, Credit(s))
  BY <1>2, <1>3, <1>5, TableForIt
<1>7. n \in 0..Full /\ n <= Credit(s)
  BY <1>5, <1>6, ResponderParameters DEF Least
<1>8. DOMAIN bucket \ DOMAIN table = {}
  BY <1>2, <1>3, <1>4, <1>5, TableDropped, ResponderParameters
<1>9. TableInv' /\ Credit(s)' = n /\ \A x \in Sources \ {s} : Credit(x)' = Credit(x)
  BY <1>2, <1>4, <1>5, <1>7, <1>8, Charged
<1>10. ClockInv' /\ BudgetInv' /\ ListInv'
  BY <1>1, <1>4 DEF ResponderInv, ClockInv, Past, BudgetInv, ListInv, moves
<1>11. PaidInv'
  <2>1. SUFFICES ASSUME NEW x \in Sources PROVE Paid(sent[x], Credit(x)', clock)
    BY <1>4 DEF PaidInv
  <2>2. sent[x] \in Seq(Nat) /\ Paid(sent[x], Credit(x), clock) /\ clock \in Nat
    BY <1>1, ResponderParameters DEF ResponderInv, ClockInv, PaidInv
  <2>3. Credit(x) \in Nat /\ Credit(x)' \in Nat /\ Credit(x)' <= Credit(x)
    BY <1>5, <1>7, <1>9
  <2>4. QED
    BY <2>2, <2>3, PaidKept
<1>12. QED
  BY <1>9, <1>10, <1>11 DEF ResponderInv

\* The list an answer is built from is the one that was kept, or a new one.
LEMMA ListingIsRecent ==
  ASSUME ResponderInv, NEW addrs \in 0..moves, NEW listed \in BOOLEAN, Listing(addrs, listed)
  PROVE  /\ cached' \in [addrs : -1..moves, at : 0..clock]
         /\ cached'.addrs >= 0 /\ cached'.addrs < moves => cached'.at <= moved[cached'.addrs + 1]
         /\ listed /\ addrs < moves => clock - moved[addrs + 1] < TTL
<1>1. /\ cached \in [addrs : -1..moves, at : 0..clock] /\ moves \in Nat /\ clock \in Nat
      /\ \A i \in 1..moves : moved[i] \in Nat
      /\ cached.addrs >= 0 /\ cached.addrs < moves => cached.at <= moved[cached.addrs + 1]
  BY SMTT(30), ResponderParameters DEF ResponderInv, ClockInv, Past, ListInv, moves
<1>2. CASE IsRecent /\ addrs = cached.addrs /\ listed /\ UNCHANGED cached
  <2>1. /\ clock - cached.at < TTL /\ cached.at \in Nat
        /\ addrs < moves => cached.at <= moved[addrs + 1] /\ moved[addrs + 1] \in Nat
    BY <1>1, <1>2 DEF IsRecent
  <2>2. listed /\ addrs < moves => clock - moved[addrs + 1] < TTL
    BY <1>1, <2>1, ResponderParameters
  <2>3. QED
    BY <1>1, <1>2, <2>2
<1>3. CASE ~IsRecent /\ addrs = moves /\ listed /\ cached' = [addrs |-> moves, at |-> clock]
  BY <1>1, <1>3
<1>4. CASE ~IsRecent /\ cached.addrs >= 0 /\ addrs = cached.addrs /\ ~listed /\ UNCHANGED cached
  BY <1>1, <1>4
<1>5. QED
  BY <1>2, <1>3, <1>4 DEF Listing

\* A probe that is answered, or whose answer could not be built.
LEMMA AnnounceKeepsBudget == \A s \in Sources : ResponderInv /\ Announce(s) => ResponderInv'
<1>1. SUFFICES ASSUME NEW s \in Sources, ResponderInv, Announce(s) PROVE ResponderInv'
  OBVIOUS
<1>2. PICK table : table = TableFor(s)
  OBVIOUS
<1>3. PICK n : n = Refilled(table[s])
  OBVIOUS
<1>4. PICK log : log = IF DOMAIN bucket \ DOMAIN table # {} THEN [x \in Sources |-> <<>>] ELSE sent
  OBVIOUS
<1>5. /\ n >= Cost /\ bucket' = [table EXCEPT ![s] = [tokens |-> n - Cost, last |-> clock]]
      /\ UNCHANGED <<clock, moved>>
      /\ \/ /\ \E addrs \in 0..moves, listed \in BOOLEAN :
                 /\ Listing(addrs, listed)
                 /\ answer' = [addrs |-> addrs, at |-> clock, listed |-> listed]
            /\ sent' = [log EXCEPT ![s] = Append(@, clock)]
         \/ sent' = log /\ UNCHANGED <<cached, answer>>
  BY <1>1, <1>2, <1>3, <1>4 DEF Announce
<1>6. /\ ClockInv /\ TableInv /\ \A x \in Sources : Credit(x) \in Nat
      /\ sent \in [Sources -> Seq(Nat)] /\ clock \in Nat /\ moves \in Nat /\ moves' = moves
  BY <1>1, <1>5, Credits, ResponderParameters DEF ResponderInv, ClockInv, Past, moves
<1>7. n = Least(Full, Credit(s))
  BY <1>2, <1>3, <1>6, TableForIt
<1>8. n \in Cost..Full /\ n <= Credit(s) /\ n - Cost \in 0..Full
  BY <1>5, <1>6, <1>7, ResponderParameters DEF Least
<1>9. /\ TableInv' /\ Credit(s)' = n - Cost
      /\ DOMAIN bucket \ DOMAIN table = {} => \A x \in Sources \ {s} : Credit(x)' = Credit(x)
  BY <1>2, <1>5, <1>6, <1>8, Charged
<1>10. /\ log \in [Sources -> Seq(Nat)]
       /\ \A x \in Sources : Past(log[x]) /\ InBudget(log[x])
       /\ Paid(log[s], n, clock)
       /\ \A x \in Sources \ {s} : Credit(x)' \in Int => Paid(log[x], Credit(x)', clock)
  <2>1. CASE DOMAIN bucket \ DOMAIN table # {}
    <3>1. log = [x \in Sources |-> <<>>]
      BY <1>4, <2>1
    <3>2. \A x \in Sources : log[x] \in Seq(Nat) /\ Len(log[x]) = 0
      BY <3>1
    <3>3. QED
      BY <3>1, <3>2 DEF Past, InBudget, Paid
  <2>2. CASE DOMAIN bucket \ DOMAIN table = {}
    <3>1. log = sent
      BY <1>4, <2>2
    <3>2. \A x \in Sources : Past(sent[x]) /\ InBudget(sent[x]) /\ Paid(sent[x], Credit(x), clock)
      BY <1>1 DEF ResponderInv, ClockInv, BudgetInv, PaidInv
    <3>3. Paid(sent[s], n, clock)
      BY <1>6, <1>8, <3>2, PaidKept, ResponderParameters
    <3>4. QED
      BY <1>6, <1>9, <2>2, <3>1, <3>2, <3>3
  <2>3. QED
    BY <2>1, <2>2
<1>11. PICK mine \in Seq(Nat) : /\ sent' = [log EXCEPT ![s] = mine]
                               /\ Past(mine) /\ InBudget(mine) /\ Paid(mine, n - Cost, clock)
  <2>1. log[s] \in Seq(Nat) /\ Past(log[s]) /\ InBudget(log[s]) /\ Paid(log[s], n, clock)
    BY <1>10
  <2>2. CASE sent' = [log EXCEPT ![s] = Append(@, clock)]
    <3>1. Append(log[s], clock) \in Seq(Nat) /\ Past(Append(log[s], clock))
      BY <1>6, <2>1 DEF Past
    <3>2. Paid(Append(log[s], clock), n - Cost, clock)
      BY <1>6, <1>8, <2>1, PaidMore
    <3>3. InBudget(Append(log[s], clock))
      BY <1>6, <1>8, <2>1, <3>2, BudgetMore
    <3>4. QED
      BY <2>2, <3>1, <3>2, <3>3
  <2>3. CASE sent' = log
    <3>1. Paid(log[s], n - Cost, clock)
      BY <1>6, <1>8, <2>1, PaidKept, ResponderParameters
    <3>2. sent' = [log EXCEPT ![s] = log[s]]
      BY <1>10, <2>3
    <3>3. QED
      BY <2>1, <3>1, <3>2
  <2>4. QED
    BY <1>5, <2>2, <2>3
<1>12. ClockInv' /\ ListInv'
  <2>1. sent' \in [Sources -> Seq(Nat)] /\ \A x \in Sources : Past(sent'[x])
    BY <1>10, <1>11
  <2>2. CASE UNCHANGED <<cached, answer>>
    BY <1>1, <1>5, <1>6, <2>1, <2>2 DEF ResponderInv, ClockInv, Past, ListInv
  <2>3. CASE \E addrs \in 0..moves, listed \in BOOLEAN :
               /\ Listing(addrs, listed)
               /\ answer' = [addrs |-> addrs, at |-> clock, listed |-> listed]
    <3>1. PICK addrs \in 0..moves, listed \in BOOLEAN :
                 /\ Listing(addrs, listed)
                 /\ answer' = [addrs |-> addrs, at |-> clock, listed |-> listed]
      BY <2>3
    <3>2. /\ cached' \in [addrs : -1..moves, at : 0..clock]
          /\ cached'.addrs >= 0 /\ cached'.addrs < moves => cached'.at <= moved[cached'.addrs + 1]
          /\ listed /\ addrs < moves => clock - moved[addrs + 1] < TTL
      BY <1>1, <3>1, ListingIsRecent
    <3>3. /\ answer' \in [addrs : 0..moves, at : 0..clock, listed : BOOLEAN]
          /\ answer'.addrs = addrs /\ answer'.at = clock /\ answer'.listed = listed
      BY <1>6, <3>1
    <3>4. QED
      BY <1>5, <1>6, <2>1, <3>2, <3>3 DEF ClockInv, Past, ListInv
  <2>4. QED
    BY <1>5, <2>2, <2>3
<1>13. \A x \in Sources : Credit(x)' \in Nat
  BY <1>9, <1>12, CreditsThen
<1>14. PaidInv'
  <2>1. SUFFICES ASSUME NEW x \in Sources PROVE Paid(sent'[x], Credit(x)', clock)
    BY <1>5 DEF PaidInv
  <2>2. CASE x = s
    BY <1>9, <1>10, <1>11, <2>2
  <2>3. CASE x # s
    BY <1>10, <1>11, <1>13, <2>3
  <2>4. QED
    BY <2>2, <2>3
<1>15. BudgetInv'
  BY <1>10, <1>11 DEF BudgetInv
<1>16. QED
  BY <1>9, <1>12, <1>14, <1>15 DEF ResponderInv

-----------------------------------------------------------------------------
\* Every answer of the responder is in its budget, and lists addresses that are recent.
THEOREM ResponderIsSound == ResponderSpec => []ResponderInv
<1>1. ResponderInv /\ UNCHANGED responderVars => ResponderInv'
  <2>1. SUFFICES ASSUME ResponderInv, UNCHANGED responderVars PROVE ResponderInv'
    OBVIOUS
  <2>2. UNCHANGED <<clock, bucket, moved, cached, sent, answer>>
    BY <2>1 DEF responderVars
  <2>3. ClockInv' /\ TableInv' /\ BudgetInv' /\ ListInv'
    BY <2>1, <2>2 DEF ResponderInv, ClockInv, Past, TableInv, BudgetInv, ListInv, moves
  <2>4. PaidInv'
    BY <2>1, <2>2 DEF ResponderInv, PaidInv, Credit
  <2>5. QED
    BY <2>3, <2>4 DEF ResponderInv
<1>2. ResponderInv /\ [ResponderNext]_responderVars => ResponderInv'
  BY <1>1, TickKeepsBudget, MoveKeepsBudget, EvictKeepsBudget, RefuseKeepsBudget, AnnounceKeepsBudget
     DEF ResponderNext
<1>3. QED
  BY <1>2, StartsInBudget, PTL DEF ResponderSpec

\* The invariant of the runs: no source is answered more often than its budget allows, and the
\* addresses an answer lists were the machine's less than TTL before.
THEOREM BudgetIsKept == ResponderSpec => []AnswersAreInBudget
<1>1. ResponderInv => AnswersAreInBudget
  BY DEF ResponderInv, BudgetInv, InBudget, ListInv, AnswersAreInBudget
<1>2. QED
  BY <1>1, ResponderIsSound, PTL

(***************************************************************************)
(* The scan.                                                               *)
(*                                                                         *)
(* A receiver that is not found and ran all the time has lost a datagram   *)
(* for every round in which its target was probed and nothing of the probe *)
(* is under way: when the window closes, nothing is, so that it has lost   *)
(* one in each.  And what First wants is its hit, or a goroutine is about  *)
(* to tell it, which the scan waits for.                                   *)
(***************************************************************************)

Sockets == Readers \union {Browser}

\* The lists of targets, and what is in them.
Listed == {Distinct(p) : p \in Plans} \union {<<>>}
Probed == UNION {{l[k] : k \in DOMAIN l} : l \in Listed}
Finding == [of : Receivers, to : Probed \union {Mdns}]

Packets == [kind : {"probe", "answer", "query", "response"}, of : Receivers, to : Probed \union {Mdns},
            round : 1..Rounds, scan : 1..MaxScans]

Scan == [pc : {"idle", "open", "closed", "returned"}, n : 0..MaxScans, targets : Listed, next : Nat \ {0},
         round : 1..Rounds, asked : 0..Rounds, found : Seq(Finding), hit : {Nobody, Wanted}, timed : BOOLEAN]

ScanTyped ==
  /\ scan \in Scan
  /\ reader \in [Sockets -> Receivers \union {Nobody}]
  /\ net \subseteq Packets /\ \A m \in net : m.scan <= scan.n
  /\ up \subseteq Receivers
  /\ heard.all \subseteq up /\ heard \in [all : SUBSET Receivers, answered : SUBSET Receivers]
  /\ lost \in [Receivers -> Nat]

NumberInv == scan.pc # "idle" => scan.n # 0

\* A target was sent a probe in a round, and what became of that probe cannot be seen.
WasSent(t, round) == \E k \in DOMAIN scan.targets :
  scan.targets[k] = t /\ (round < scan.round \/ (round = scan.round /\ k < scan.next))
Underway(r, t, round) == \E m \in net :
  /\ m.of = r /\ m.to = t /\ m.round = round /\ m.scan = scan.n /\ m.kind \in {"probe", "answer"}
Gone(r, t) == {round \in 1..Rounds : WasSent(t, round) /\ ~Underway(r, t, round)}

\* A receiver that is not found has lost a datagram in each round that is over for it.
LossInv == \A r \in heard.all \ Known, t \in Probed : r \in Hears[t] => Cardinality(Gone(r, t)) <= lost[r]

TimedInv ==
  scan.timed => /\ scan.pc \in {"closed", "returned"}
                /\ \A r \in heard.all : r \in Asked /\ lost[r] < Rounds => r \in Known

\* What First wants is found exactly when it is the hit, or a goroutine is about to tell it.
HitInv ==
  /\ scan.hit = Wanted => Wanted \in Known
  /\ \A x \in Sockets : reader[x] # Nobody => reader[x] \in Known
  /\ Wanted \in Known => scan.hit = Wanted \/ \E x \in Sockets : reader[x] = Wanted
  /\ scan.pc \in {"idle", "returned"} => \A x \in Sockets : reader[x] = Nobody

AnswersInv ==
  /\ \A m \in net : m.kind = "answer" /\ m.scan = scan.n => m.of \in heard.answered
  /\ \A m \in net : m.kind \in {"query", "response"} => m.to = Mdns
  /\ \A i \in 1..Len(scan.found) : scan.found[i].to # Mdns => scan.found[i].of \in heard.answered

DiscoveryInv == ScanTyped /\ NumberInv /\ LossInv /\ TimedInv /\ HitInv /\ AnswersInv

-----------------------------------------------------------------------------
\* The parameters, and the values that are told apart.
LEMMA ScanParameters ==
  /\ Rounds \in Nat \ {0} /\ MaxScans \in Nat /\ MaxLost \in Nat /\ Wanted \in Receivers /\ Nobody \notin Receivers
  /\ Browser \notin Readers /\ \A t \in DOMAIN Hears : Hears[t] \subseteq Receivers
BY DiscoveryAssumption

\* A list of targets has its places, from the first to the last.
LEMMA ListedProperties ==
  ASSUME NEW l \in Listed
  PROVE  Len(l) \in Nat /\ DOMAIN l = 1..Len(l)
<1>1. CASE l = <<>>
  BY <1>1
<1>2. CASE \E p \in Plans : l = Distinct(p)
  <2>1. PICK p \in Plans : l = Distinct(p)
    BY <1>2
  <2>2. PICK first : first = {i \in DOMAIN p : p[i] # Mdns /\ \A j \in 1..(i - 1) : p[j] # p[i]}
    OBVIOUS
  <2>3. PICK n : n = Cardinality(first)
    OBVIOUS
  <2>4. l = [k \in 1..n |-> p[CHOOSE i \in first : Cardinality(first \intersect 1..i) = k]]
    BY <2>1, <2>2, <2>3 DEF Distinct
  <2>5. p \in Seq(DOMAIN Hears)
    BY DiscoveryAssumption
  <2>6. first \subseteq 1..Len(p) /\ Len(p) \in Nat
    BY <2>2, <2>5
  <2>7. IsFiniteSet(first)
    <3>1. IsFiniteSet(1..Len(p))
      BY <2>6, FS_Interval
    <3>2. QED
      BY <2>6, <3>1, FS_Subset
  <2>8. n \in Nat
    BY <2>3, <2>7, FS_CardinalityType
  <2>9. DOMAIN l = 1..n
    BY <2>4
  <2>10. PICK S : S = {l[k] : k \in 1..n}
    OBVIOUS
  <2>11. l \in [1..n -> S]
    BY <2>4, <2>9, <2>10
  <2>12. l \in Seq(S)
    BY <2>8, <2>11, SeqDef
  <2>13. QED
    BY <2>12
<1>3. QED
  BY <1>1, <1>2 DEF Listed

\* What cannot be seen is a set of rounds.
LEMMA GoneRounds ==
  ASSUME NEW r, NEW t
  PROVE  IsFiniteSet(Gone(r, t)) /\ Cardinality(Gone(r, t)) \in Nat
<1>1. IsFiniteSet(1..Rounds)
  BY ScanParameters, FS_Interval
<1>2. Gone(r, t) \subseteq 1..Rounds
  BY DEF Gone
<1>3. QED
  BY <1>1, <1>2, FS_Subset, FS_CardinalityType

\* A step after which no more is gone than before.
LEMMA NoMoreGone ==
  ASSUME ScanTyped, LossInv, heard'.all \subseteq heard.all, Known \subseteq Known', UNCHANGED lost,
         \A r \in heard'.all, t \in Probed : r \in Hears[t] => Gone(r, t)' \subseteq Gone(r, t)
  PROVE  LossInv'
<1>1. SUFFICES ASSUME NEW r \in heard'.all \ Known', NEW t \in Probed, r \in Hears[t]
               PROVE  Cardinality(Gone(r, t)') <= lost[r]
  BY DEF LossInv
<1>2. r \in heard.all \ Known /\ r \in Receivers /\ lost[r] \in Nat
  BY <1>1 DEF ScanTyped
<1>3. PICK old : old = Gone(r, t)
  OBVIOUS
<1>4. PICK new : new = Gone(r, t)'
  OBVIOUS
<1>5. IsFiniteSet(old) /\ Cardinality(old) \in Nat /\ Cardinality(old) <= lost[r]
  BY <1>1, <1>2, <1>3, GoneRounds DEF LossInv
<1>6. new \subseteq old
  BY <1>1, <1>2, <1>3, <1>4
<1>7. IsFiniteSet(new) /\ Cardinality(new) <= Cardinality(old)
  BY <1>5, <1>6, FS_Subset
<1>8. Cardinality(new) \in Nat
  BY <1>7, FS_CardinalityType
<1>9. QED
  BY <1>2, <1>4, <1>5, <1>7, <1>8

-----------------------------------------------------------------------------
\* The first state.
LEMMA ScanStarts == DiscoveryInit => DiscoveryInv
<1>1. SUFFICES ASSUME DiscoveryInit PROVE DiscoveryInv
  OBVIOUS
<1>2. /\ scan = NoScan /\ reader = [r \in Sockets |-> Nobody] /\ net = {} /\ up = Receivers
      /\ heard = [all |-> {}, answered |-> {}] /\ lost = [r \in Receivers |-> 0]
  BY <1>1 DEF DiscoveryInit, Sockets
<1>3. scan \in Scan /\ scan.found = <<>> /\ scan.hit = Nobody /\ ~scan.timed
  BY <1>2, ScanParameters DEF NoScan, Scan, Listed
<1>4. Known = {}
  BY <1>3 DEF Known
<1>5. ScanTyped
  BY <1>2, <1>3, ScanParameters DEF ScanTyped
<1>6. NumberInv /\ LossInv /\ TimedInv /\ AnswersInv
  BY <1>2, <1>3 DEF NoScan, NumberInv, LossInv, TimedInv, AnswersInv
<1>7. HitInv
  BY <1>2, <1>3, <1>4, ScanParameters DEF HitInv
<1>8. QED
  BY <1>5, <1>6, <1>7 DEF DiscoveryInv

\* A scan begins, with answers to an earlier one on their way.
LEMMA BeginKeeps ==
  ASSUME DiscoveryInv, NEW plan \in Plans, NEW late \in SUBSET net, Begin(plan, late)
  PROVE  DiscoveryInv'
<1>1. /\ scan.pc \in {"idle", "returned"} /\ scan.n < MaxScans
      /\ net' = late /\ heard' = [all |-> up, answered |-> {}] /\ lost' = [r \in Receivers |-> 0]
      /\ UNCHANGED <<reader, up>> /\ late \subseteq {m \in net : m.kind \in {"answer", "response"}}
  BY DEF Begin
<1>2. PICK asked \in 0..Rounds : asked = IF Mdns \in ToSet(plan) THEN 0 ELSE Rounds
  BY ScanParameters
<1>3. scan \in Scan /\ scan.n \in 0..MaxScans /\ MaxScans \in Nat
  BY ScanParameters DEF DiscoveryInv, ScanTyped, Scan
<1>4. Distinct(plan) \in Listed
  BY DEF Listed
<1>5. /\ scan' = [pc |-> "open", n |-> scan.n + 1, targets |-> Distinct(plan), next |-> 1, round |-> 1,
                  asked |-> asked, found |-> <<>>, hit |-> Nobody, timed |-> FALSE]
  BY <1>2 DEF Begin, NoScan
<1>6. /\ scan' \in Scan /\ scan'.pc = "open" /\ scan'.n = scan.n + 1 /\ scan'.next = 1 /\ scan'.round = 1
      /\ scan'.found = <<>> /\ scan'.hit = Nobody /\ ~scan'.timed
  BY <1>1, <1>3, <1>4, <1>5, ScanParameters DEF Scan
<1>7. Known' = {}
  BY <1>6 DEF Known
<1>8. ScanTyped'
  <2>1. net' \subseteq Packets /\ \A m \in net' : m.scan <= scan'.n
    BY <1>1, <1>3, <1>6 DEF DiscoveryInv, ScanTyped, Packets
  <2>2. QED
    BY <1>1, <1>6, <2>1 DEF DiscoveryInv, ScanTyped
<1>9. LossInv'
  <2>1. SUFFICES ASSUME NEW r \in heard'.all \ Known', NEW t \in Probed
                 PROVE  Cardinality(Gone(r, t)') <= lost'[r]
    BY DEF LossInv
  <2>2. Gone(r, t)' = {}
    <3>1. scan'.targets \in Listed
      BY <1>6 DEF Scan
    <3>2. \A k \in DOMAIN scan'.targets : k \in Nat \ {0}
      BY <3>1, ListedProperties
    <3>3. QED
      BY <1>6, <3>2, ScanParameters DEF Gone, WasSent
  <2>3. lost'[r] = 0
    BY <1>1, <2>1 DEF DiscoveryInv, ScanTyped
  <2>4. QED
    BY <2>2, <2>3, FS_EmptySet
<1>10. TimedInv'
  BY <1>6 DEF TimedInv
<1>11. HitInv'
  BY <1>1, <1>6, <1>7, ScanParameters DEF DiscoveryInv, HitInv
<1>12. AnswersInv'
  <2>1. \A m \in net' : m.scan # scan'.n
    BY <1>1, <1>3, <1>6 DEF DiscoveryInv, ScanTyped, Packets
  <2>2. QED
    BY <1>1, <1>6, <2>1 DEF DiscoveryInv, AnswersInv
<1>13. NumberInv'
  BY <1>3, <1>6 DEF NumberInv
<1>14. QED
  BY <1>8, <1>9, <1>10, <1>11, <1>12, <1>13 DEF DiscoveryInv

\* The next target of the round is probed.
LEMMA ProbeKeeps == DiscoveryInv /\ Send => DiscoveryInv'
<1>1. SUFFICES ASSUME DiscoveryInv, Send PROVE DiscoveryInv'
  OBVIOUS
<1>2. PICK t : t = scan.targets[scan.next]
  OBVIOUS
<1>3. PICK new : new = [kind: {"probe"}, of: Hears[t] \intersect up, to: {t}, round: {scan.round}, scan: {scan.n}]
  OBVIOUS
<1>4. /\ scan.pc = "open" /\ scan.next <= Len(scan.targets)
      /\ net' = net \union new /\ scan' = [scan EXCEPT !.next = scan.next + 1]
      /\ UNCHANGED <<reader, up, heard, lost>>
  BY <1>1, <1>2, <1>3 DEF Send
<1>5. scan \in Scan /\ scan.targets \in Listed /\ scan.next \in Nat \ {0} /\ scan.round \in 1..Rounds
      /\ scan.n \in 0..MaxScans /\ up \subseteq Receivers /\ heard.all \subseteq up
  BY <1>1 DEF DiscoveryInv, ScanTyped, Scan
<1>6. /\ scan' \in Scan /\ scan'.next = scan.next + 1 /\ scan'.pc = scan.pc /\ scan'.n = scan.n
      /\ scan'.targets = scan.targets /\ scan'.round = scan.round /\ scan'.found = scan.found
      /\ scan'.hit = scan.hit /\ scan'.timed = scan.timed
  BY <1>4, <1>5 DEF Scan
<1>7. Known' = Known /\ Asked' = Asked
  BY <1>6 DEF Known, Asked
<1>8. scan.next \in DOMAIN scan.targets /\ t \in Probed
  BY <1>2, <1>4, <1>5, ListedProperties DEF Probed
<1>9. \A m \in new : /\ m.kind = "probe" /\ m.of \in Receivers /\ m.to = t /\ m.round = scan.round
                    /\ m.scan = scan.n
  BY <1>3, <1>5
<1>10. ScanTyped' /\ new \subseteq Packets
  <2>1. new \subseteq Packets
    <3>1. scan.n \in 1..MaxScans
      BY <1>1, <1>4, <1>5 DEF DiscoveryInv, NumberInv
    <3>2. QED
      BY <1>3, <1>5, <1>8, <3>1, ScanParameters DEF Packets
  <2>2. net' \subseteq Packets /\ \A m \in net' : m.scan <= scan'.n
    BY <1>1, <1>4, <1>5, <1>6, <1>9, <2>1, ScanParameters DEF DiscoveryInv, ScanTyped
  <2>3. QED
    BY <1>1, <1>4, <1>6, <2>1, <2>2 DEF DiscoveryInv, ScanTyped
<1>11. LossInv'
  <2>1. ASSUME NEW r \in heard'.all, NEW u \in Probed, r \in Hears[u]
        PROVE  Gone(r, u)' \subseteq Gone(r, u)
    <3>1. SUFFICES ASSUME NEW round \in 1..Rounds, WasSent(u, round)', ~Underway(r, u, round)'
                   PROVE  WasSent(u, round) /\ ~Underway(r, u, round)
      BY DEF Gone
    <3>2. ~Underway(r, u, round)
      BY <1>4, <1>6, <3>1 DEF Underway
    <3>3. PICK k \in DOMAIN scan.targets :
             scan.targets[k] = u /\ (round < scan.round \/ (round = scan.round /\ k < scan.next + 1))
      BY <1>6, <3>1 DEF WasSent
    <3>4. CASE k = scan.next /\ round = scan.round
      <4>1. u = t
        BY <1>2, <3>3, <3>4
      <4>2. PICK m : m = [kind |-> "probe", of |-> r, to |-> t, round |-> scan.round, scan |-> scan.n]
        OBVIOUS
      <4>3. m \in new
        BY <1>3, <1>4, <1>5, <2>1, <4>1, <4>2
      <4>4. QED
        BY <1>4, <1>6, <3>1, <3>4, <4>1, <4>2, <4>3 DEF Underway
    <3>5. CASE ~(k = scan.next /\ round = scan.round)
      <4>1. k \in Nat
        BY <1>5, ListedProperties
      <4>2. round < scan.round \/ (round = scan.round /\ k < scan.next)
        BY <1>5, <3>3, <3>5, <4>1
      <4>3. QED
        BY <3>2, <3>3, <4>2 DEF WasSent
    <3>6. QED
      BY <3>4, <3>5
  <2>2. QED
    BY <1>1, <1>4, <1>7, <2>1, NoMoreGone DEF DiscoveryInv
<1>12. TimedInv' /\ HitInv'
  BY <1>1, <1>4, <1>6, <1>7 DEF DiscoveryInv, TimedInv, HitInv
<1>13. AnswersInv'
  BY <1>1, <1>4, <1>6, <1>9 DEF DiscoveryInv, AnswersInv
<1>14. NumberInv'
  BY <1>1, <1>6 DEF DiscoveryInv, NumberInv
<1>15. QED
  BY <1>10, <1>11, <1>12, <1>13, <1>14 DEF DiscoveryInv

\* The query goes out beside the probes.
LEMMA QueryKeeps == DiscoveryInv /\ Query => DiscoveryInv'
<1>1. SUFFICES ASSUME DiscoveryInv, Query PROVE DiscoveryInv'
  OBVIOUS
<1>2. PICK new : new = [kind: {"query"}, of: Hears[Mdns] \intersect up, to: {Mdns}, round: {scan.asked + 1},
                        scan: {scan.n}]
  OBVIOUS
<1>3. /\ scan.pc = "open" /\ scan.asked < Rounds
      /\ net' = net \union new /\ scan' = [scan EXCEPT !.asked = scan.asked + 1]
      /\ UNCHANGED <<reader, up, heard, lost>>
  BY <1>1, <1>2 DEF Query
<1>4. scan \in Scan /\ scan.asked \in 0..Rounds /\ scan.n \in 0..MaxScans /\ up \subseteq Receivers
  BY <1>1 DEF DiscoveryInv, ScanTyped, Scan
<1>5. /\ scan' \in Scan /\ scan'.next = scan.next /\ scan'.pc = scan.pc /\ scan'.n = scan.n
      /\ scan'.targets = scan.targets /\ scan'.round = scan.round /\ scan'.found = scan.found
      /\ scan'.hit = scan.hit /\ scan'.timed = scan.timed
  BY <1>3, <1>4, ScanParameters DEF Scan
<1>6. Known' = Known /\ Asked' = Asked
  BY <1>5 DEF Known, Asked
<1>7. \A m \in new : m.kind = "query" /\ m.to = Mdns /\ m.scan = scan.n
  BY <1>2
<1>8. ScanTyped'
  <2>1. new \subseteq Packets
    <3>1. scan.n \in 1..MaxScans
      BY <1>1, <1>3, <1>4 DEF DiscoveryInv, NumberInv
    <3>2. QED
      BY <1>2, <1>3, <1>4, <3>1, ScanParameters DEF Packets
  <2>2. net' \subseteq Packets /\ \A m \in net' : m.scan <= scan'.n
    BY <1>1, <1>3, <1>4, <1>5, <1>7, <2>1, ScanParameters DEF DiscoveryInv, ScanTyped
  <2>3. QED
    BY <1>1, <1>3, <1>5, <2>2 DEF DiscoveryInv, ScanTyped
<1>9. LossInv'
  <2>1. ASSUME NEW r, NEW t PROVE Gone(r, t)' \subseteq Gone(r, t)
    <3>1. \A round : Underway(r, t, round) => Underway(r, t, round)'
      BY <1>3, <1>5 DEF Underway
    <3>2. \A round : WasSent(t, round)' <=> WasSent(t, round)
      BY <1>5 DEF WasSent
    <3>3. QED
      BY <3>1, <3>2 DEF Gone
  <2>2. QED
    BY <1>1, <1>3, <1>6, <2>1, NoMoreGone DEF DiscoveryInv
<1>10. TimedInv' /\ HitInv'
  BY <1>1, <1>3, <1>5, <1>6 DEF DiscoveryInv, TimedInv, HitInv
<1>11. AnswersInv'
  BY <1>1, <1>3, <1>5, <1>7 DEF DiscoveryInv, AnswersInv
<1>12. NumberInv'
  BY <1>1, <1>5 DEF DiscoveryInv, NumberInv
<1>13. QED
  BY <1>8, <1>9, <1>10, <1>11, <1>12 DEF DiscoveryInv

\* The next round of the probes begins.
LEMMA NextRoundKeeps == DiscoveryInv /\ NextRound => DiscoveryInv'
<1>1. SUFFICES ASSUME DiscoveryInv, NextRound PROVE DiscoveryInv'
  OBVIOUS
<1>2. /\ scan.pc = "open" /\ scan.next > Len(scan.targets) /\ scan.round < Rounds
      /\ scan' = [scan EXCEPT !.next = 1, !.round = scan.round + 1]
      /\ UNCHANGED <<reader, net, up, heard, lost>>
  BY <1>1 DEF NextRound
<1>3. scan \in Scan /\ scan.targets \in Listed /\ scan.next \in Nat \ {0} /\ scan.round \in 1..Rounds
  BY <1>1 DEF DiscoveryInv, ScanTyped, Scan
<1>4. /\ scan' \in Scan /\ scan'.next = 1 /\ scan'.pc = scan.pc /\ scan'.n = scan.n
      /\ scan'.targets = scan.targets /\ scan'.round = scan.round + 1 /\ scan'.found = scan.found
      /\ scan'.hit = scan.hit /\ scan'.timed = scan.timed
  <2>1. PICK round \in 1..Rounds : round = scan.round + 1
    BY <1>2, <1>3, ScanParameters
  <2>2. PICK next \in Nat \ {0} : next = 1
    OBVIOUS
  <2>3. scan' = [scan EXCEPT !.next = next, !.round = round] /\ scan \in Scan
    BY <1>2, <1>3, <2>1, <2>2
  <2>4. scan' \in Scan
    BY <2>3 DEF Scan
  <2>5. QED
    BY <2>1, <2>2, <2>3, <2>4 DEF Scan
<1>5. Known' = Known /\ Asked' = Asked
  BY <1>4 DEF Known, Asked
<1>6. LossInv'
  <2>1. ASSUME NEW r, NEW t PROVE Gone(r, t)' \subseteq Gone(r, t)
    <3>1. SUFFICES ASSUME NEW round \in 1..Rounds, WasSent(t, round)' PROVE WasSent(t, round)
      BY <1>2, <1>4 DEF Gone, Underway
    <3>2. PICK k \in DOMAIN scan.targets :
             scan.targets[k] = t /\ (round < scan.round + 1 \/ (round = scan.round + 1 /\ k < 1))
      BY <1>4, <3>1 DEF WasSent
    <3>3. k \in 1..Len(scan.targets) /\ Len(scan.targets) \in Nat
      BY <1>3, <3>2, ListedProperties
    <3>4. round < scan.round \/ (round = scan.round /\ k < scan.next)
      BY <1>2, <1>3, <3>2, <3>3
    <3>5. QED
      BY <3>2, <3>4 DEF WasSent
  <2>2. QED
    BY <1>1, <1>2, <1>5, <2>1, NoMoreGone DEF DiscoveryInv
<1>7. ScanTyped' /\ NumberInv' /\ AnswersInv'
  BY <1>1, <1>2, <1>4 DEF DiscoveryInv, ScanTyped, NumberInv, AnswersInv
<1>8. TimedInv' /\ HitInv'
  BY <1>1, <1>2, <1>4, <1>5 DEF DiscoveryInv, TimedInv, HitInv
<1>9. QED
  BY <1>6, <1>7, <1>8 DEF DiscoveryInv

\* A step in which the scan ends or returns, and nothing else changes.
LEMMA PhaseKeeps ==
  ASSUME DiscoveryInv, NEW pc \in {"closed", "returned"}, NEW timed \in BOOLEAN,
         scan' = [scan EXCEPT !.pc = pc, !.timed = timed], scan.pc # "idle",
         UNCHANGED <<reader, net, up, heard, lost>>,
         pc = "returned" => \A x \in Sockets : reader[x] = Nobody,
         timed => \A r \in heard.all : r \in Asked /\ lost[r] < Rounds => r \in Known
  PROVE  DiscoveryInv'
<1>1. scan \in Scan
  BY DEF DiscoveryInv, ScanTyped
<1>2. /\ scan' \in Scan /\ scan'.next = scan.next /\ scan'.pc = pc /\ scan'.n = scan.n
      /\ scan'.targets = scan.targets /\ scan'.round = scan.round /\ scan'.found = scan.found
      /\ scan'.hit = scan.hit /\ scan'.timed = timed
  BY <1>1 DEF Scan
<1>3. Known' = Known /\ Asked' = Asked
  BY <1>2 DEF Known, Asked
<1>4. \A r, t : Gone(r, t)' = Gone(r, t)
  BY <1>2 DEF Gone, WasSent, Underway
<1>5. LossInv'
  BY <1>3, <1>4, NoMoreGone DEF DiscoveryInv
<1>6. ScanTyped' /\ NumberInv' /\ AnswersInv'
  BY <1>2 DEF DiscoveryInv, ScanTyped, NumberInv, AnswersInv
<1>7. TimedInv' /\ HitInv'
  BY <1>2, <1>3 DEF DiscoveryInv, TimedInv, HitInv
<1>8. QED
  BY <1>5, <1>6, <1>7 DEF DiscoveryInv

\* The window closes: what was sent to a receiver that ran has come, or was lost.
LEMMA TimeOutKeeps == DiscoveryInv /\ TimeOut => DiscoveryInv'
<1>1. SUFFICES ASSUME DiscoveryInv, TimeOut PROVE DiscoveryInv'
  OBVIOUS
<1>2. /\ scan.pc = "open" /\ scan.round = Rounds /\ scan.next > Len(scan.targets)
      /\ \A m \in net : m.scan = scan.n => m.of \notin up
      /\ scan' = [scan EXCEPT !.pc = "closed", !.timed = TRUE]
      /\ UNCHANGED <<reader, net, up, heard, lost>>
  BY <1>1 DEF TimeOut, Of
<1>3. /\ scan.targets \in Listed /\ scan.next \in Nat \ {0} /\ heard.all \subseteq up /\ heard.all \subseteq Receivers
      /\ lost \in [Receivers -> Nat]
  BY <1>1 DEF DiscoveryInv, ScanTyped, Scan
<1>4. ASSUME NEW r \in heard.all, r \in Asked, r \notin Known
      PROVE  lost[r] >= Rounds
  <2>1. PICK k \in DOMAIN scan.targets : r \in Hears[scan.targets[k]]
    BY <1>4 DEF Asked, ToSet
  <2>2. PICK t : t = scan.targets[k]
    OBVIOUS
  <2>3. t \in Probed /\ k \in 1..Len(scan.targets) /\ Len(scan.targets) \in Nat
    BY <1>3, <2>1, <2>2, ListedProperties DEF Probed
  <2>4. Gone(r, t) = 1..Rounds
    <3>1. \A round \in 1..Rounds : WasSent(t, round)
      BY <1>2, <1>3, <2>1, <2>2, <2>3, ScanParameters DEF WasSent
    <3>2. \A round : ~Underway(r, t, round)
      BY <1>2, <1>3, <1>4 DEF Underway
    <3>3. QED
      BY <3>1, <3>2 DEF Gone
  <2>5. Cardinality(Gone(r, t)) <= lost[r]
    BY <1>1, <1>4, <2>1, <2>2, <2>3 DEF DiscoveryInv, LossInv
  <2>6. Cardinality(1..Rounds) = Rounds
    BY ScanParameters, FS_Interval
  <2>7. QED
    BY <2>4, <2>5, <2>6
<1>5. \A r \in heard.all : r \in Asked /\ lost[r] < Rounds => r \in Known
  BY <1>3, <1>4, ScanParameters
<1>6. QED
  BY <1>1, <1>2, <1>5, PhaseKeeps

\* The caller gives up, or the scan returns when its goroutines have ended.
LEMMA EndKeeps == DiscoveryInv /\ (GiveUp \/ Return) => DiscoveryInv'
<1>1. SUFFICES ASSUME DiscoveryInv, GiveUp \/ Return PROVE DiscoveryInv'
  OBVIOUS
<1>2. scan \in Scan /\ scan.timed \in BOOLEAN
  BY <1>1 DEF DiscoveryInv, ScanTyped, Scan
<1>3. PICK timed \in BOOLEAN : timed = scan.timed
  BY <1>2
<1>4. \A pc : [scan EXCEPT !.pc = pc] = [scan EXCEPT !.pc = pc, !.timed = timed]
  BY <1>2, <1>3 DEF Scan
<1>5. timed => \A r \in heard.all : r \in Asked /\ lost[r] < Rounds => r \in Known
  BY <1>1, <1>3 DEF DiscoveryInv, TimedInv
<1>6. CASE GiveUp
  <2>1. scan.pc = "open" /\ scan' = [scan EXCEPT !.pc = "closed"] /\ UNCHANGED <<reader, net, up, heard, lost>>
    BY <1>6 DEF GiveUp
  <2>2. QED
    BY <1>1, <1>4, <1>5, <2>1, PhaseKeeps
<1>7. CASE Return
  <2>1. /\ scan.pc = "closed" /\ \A x \in Sockets : reader[x] = Nobody
        /\ scan' = [scan EXCEPT !.pc = "returned"] /\ UNCHANGED <<reader, net, up, heard, lost>>
    BY <1>7 DEF Return, Sockets
  <2>2. QED
    BY <1>1, <1>4, <1>5, <2>1, PhaseKeeps
<1>8. QED
  BY <1>1, <1>6, <1>7

\* A probe is answered.
LEMMA AnswerKeeps == \A m \in net : DiscoveryInv /\ Answer(m) => DiscoveryInv'
<1>1. SUFFICES ASSUME NEW m \in net, DiscoveryInv, Answer(m) PROVE DiscoveryInv'
  OBVIOUS
<1>2. PICK a : a = [m EXCEPT !.kind = "answer"]
  OBVIOUS
<1>3. /\ m.kind = "probe" /\ net' = (net \ {m}) \union {a} /\ UNCHANGED <<scan, reader, up, lost>>
      /\ heard' = IF m.scan = scan.n THEN [heard EXCEPT !.answered = @ \union {m.of}] ELSE heard
  BY <1>1, <1>2 DEF Answer
<1>4. m \in Packets /\ m.of \in Receivers /\ heard \in [all : SUBSET Receivers, answered : SUBSET Receivers]
  BY <1>1 DEF DiscoveryInv, ScanTyped, Packets
<1>5. /\ a \in Packets /\ a.kind = "answer" /\ a.of = m.of /\ a.to = m.to /\ a.round = m.round /\ a.scan = m.scan
  BY <1>2, <1>4 DEF Packets
<1>6. /\ heard' \in [all : SUBSET Receivers, answered : SUBSET Receivers] /\ heard'.all = heard.all
      /\ heard.answered \subseteq heard'.answered /\ m.scan = scan.n => m.of \in heard'.answered
  BY <1>3, <1>4
<1>7. Known' = Known /\ Asked' = Asked
  BY <1>3 DEF Known, Asked
<1>8. ScanTyped' /\ NumberInv'
  BY <1>1, <1>3, <1>5, <1>6 DEF DiscoveryInv, ScanTyped, NumberInv
<1>9. LossInv'
  <2>1. ASSUME NEW r, NEW t PROVE Gone(r, t)' \subseteq Gone(r, t)
    <3>1. \A round : Underway(r, t, round) => Underway(r, t, round)'
      BY <1>3, <1>5 DEF Underway
    <3>2. \A round : WasSent(t, round)' <=> WasSent(t, round)
      BY <1>3 DEF WasSent
    <3>3. QED
      BY <3>1, <3>2 DEF Gone
  <2>2. QED
    BY <1>1, <1>3, <1>6, <1>7, <2>1, NoMoreGone DEF DiscoveryInv
<1>10. TimedInv' /\ HitInv'
  BY <1>1, <1>3, <1>6, <1>7 DEF DiscoveryInv, TimedInv, HitInv
<1>11. AnswersInv'
  BY <1>1, <1>3, <1>5, <1>6 DEF DiscoveryInv, AnswersInv
<1>12. QED
  BY <1>8, <1>9, <1>10, <1>11 DEF DiscoveryInv

\* A query is answered.
LEMMA RespondKeeps == \A m \in net : DiscoveryInv /\ Respond(m) => DiscoveryInv'
<1>1. SUFFICES ASSUME NEW m \in net, DiscoveryInv, Respond(m) PROVE DiscoveryInv'
  OBVIOUS
<1>2. PICK a : a = [m EXCEPT !.kind = "response"]
  OBVIOUS
<1>3. /\ m.kind = "query" /\ net' = (net \ {m}) \union {a} /\ UNCHANGED <<scan, reader, up, heard, lost>>
  BY <1>1, <1>2 DEF Respond
<1>4. m \in Packets
  BY <1>1 DEF DiscoveryInv, ScanTyped
<1>5. /\ a \in Packets /\ a.kind = "response" /\ a.to = m.to /\ a.scan = m.scan
  BY <1>2, <1>4 DEF Packets
<1>6. Known' = Known /\ Asked' = Asked
  BY <1>3 DEF Known, Asked
<1>7. ScanTyped' /\ NumberInv'
  BY <1>1, <1>3, <1>5 DEF DiscoveryInv, ScanTyped, NumberInv
<1>8. LossInv'
  <2>1. ASSUME NEW r, NEW t PROVE Gone(r, t)' \subseteq Gone(r, t)
    BY <1>3 DEF Gone, WasSent, Underway
  <2>2. QED
    BY <1>1, <1>3, <1>6, <2>1, NoMoreGone DEF DiscoveryInv
<1>9. TimedInv' /\ HitInv'
  BY <1>1, <1>3, <1>6 DEF DiscoveryInv, TimedInv, HitInv
<1>10. AnswersInv'
  BY <1>1, <1>3, <1>5 DEF DiscoveryInv, AnswersInv
<1>11. QED
  BY <1>7, <1>8, <1>9, <1>10 DEF DiscoveryInv

\* A packet is lost, and counted.
LEMMA LoseKeeps == \A m \in net : DiscoveryInv /\ Lose(m) => DiscoveryInv'
<1>1. SUFFICES ASSUME NEW m \in net, DiscoveryInv, Lose(m) PROVE DiscoveryInv'
  OBVIOUS
<1>2. /\ net' = net \ {m} /\ lost' = [lost EXCEPT ![m.of] = @ + 1]
      /\ UNCHANGED <<scan, reader, up, heard>>
  BY <1>1 DEF Lose
<1>3. m \in Packets /\ m.of \in Receivers /\ lost \in [Receivers -> Nat]
  BY <1>1 DEF DiscoveryInv, ScanTyped, Packets
<1>4. lost' \in [Receivers -> Nat] /\ lost'[m.of] = lost[m.of] + 1 /\ \A r \in Receivers \ {m.of} : lost'[r] = lost[r]
  BY <1>2, <1>3
<1>5. Known' = Known /\ Asked' = Asked
  BY <1>2 DEF Known, Asked
<1>6. ScanTyped' /\ NumberInv'
  BY <1>1, <1>2, <1>4 DEF DiscoveryInv, ScanTyped, NumberInv
<1>7. LossInv'
  <2>1. SUFFICES ASSUME NEW r \in heard.all \ Known, NEW t \in Probed, r \in Hears[t]
                 PROVE  Cardinality(Gone(r, t)') <= lost'[r]
    BY <1>2, <1>5 DEF LossInv
  <2>2. r \in Receivers /\ lost[r] \in Nat
    BY <1>1, <1>3 DEF DiscoveryInv, ScanTyped
  <2>3. PICK old : old = Gone(r, t)
    OBVIOUS
  <2>4. PICK new : new = Gone(r, t)'
    OBVIOUS
  <2>5. IsFiniteSet(old) /\ Cardinality(old) \in Nat /\ Cardinality(old) <= lost[r]
    BY <1>1, <2>1, <2>3, GoneRounds DEF DiscoveryInv, LossInv
  <2>6. CASE r = m.of
    <3>1. new \subseteq old \union {m.round}
      BY <1>2, <2>3, <2>4 DEF Gone, WasSent, Underway
    <3>2. /\ IsFiniteSet(old \union {m.round}) /\ Cardinality(old \union {m.round}) \in Nat
          /\ Cardinality(old \union {m.round}) <= lost[r] + 1
      BY SMTT(30), <2>2, <2>5, FS_AddElement, FS_CardinalityType
    <3>3. IsFiniteSet(new) /\ Cardinality(new) <= Cardinality(old \union {m.round})
      BY <3>1, <3>2, FS_Subset
    <3>4. Cardinality(new) \in Nat
      BY <3>3, FS_CardinalityType
    <3>5. QED
      BY <1>4, <2>2, <2>4, <2>6, <3>2, <3>3, <3>4
  <2>7. CASE r # m.of
    <3>1. new = old
      BY <1>2, <2>3, <2>4, <2>7 DEF Gone, WasSent, Underway
    <3>2. QED
      BY <1>4, <2>2, <2>4, <2>5, <2>7, <3>1
  <2>8. QED
    BY <2>6, <2>7
<1>8. TimedInv'
  <2>1. \A r \in heard.all : r \in Receivers /\ lost[r] \in Nat /\ lost[r] <= lost'[r]
    BY <1>1, <1>3, <1>4 DEF DiscoveryInv, ScanTyped
  <2>2. QED
    BY <1>1, <1>2, <1>4, <1>5, <2>1, ScanParameters DEF DiscoveryInv, TimedInv, ScanTyped
<1>9. HitInv' /\ AnswersInv'
  BY <1>1, <1>2, <1>5 DEF DiscoveryInv, HitInv, AnswersInv
<1>10. QED
  BY <1>6, <1>7, <1>8, <1>9 DEF DiscoveryInv

\* A receiver is recorded by a goroutine, which is about to report it if it is new.
LEMMA RecordKeeps ==
  ASSUME DiscoveryInv, NEW x \in Sockets, NEW m \in net, Record(x, m), scan.pc = "open", reader[x] = Nobody,
         net' = net \ {m}, UNCHANGED <<up, heard, lost>>, m.to # Mdns => m.of \in heard.answered
  PROVE  DiscoveryInv'
<1>1. m \in Packets /\ m.of \in Receivers /\ scan \in Scan /\ reader \in [Sockets -> Receivers \union {Nobody}]
  BY DEF DiscoveryInv, ScanTyped, Packets
<1>2. PICK f \in Finding : f = [of |-> m.of, to |-> m.to]
  BY <1>1 DEF Packets, Finding
<1>3. f.of = m.of /\ f.to = m.to /\ scan.found \in Seq(Finding)
  BY <1>1, <1>2 DEF Scan
<1>4. PICK found \in Seq(Finding), told \in [Sockets -> Receivers \union {Nobody}] :
        /\ m.of \in Known => found = scan.found /\ told = reader
        /\ m.of \notin Known => found = Append(scan.found, f) /\ told = [reader EXCEPT ![x] = m.of]
  <2>1. Append(scan.found, f) \in Seq(Finding)
    BY <1>3
  <2>2. [reader EXCEPT ![x] = m.of] \in [Sockets -> Receivers \union {Nobody}]
    BY <1>1
  <2>3. QED
    BY <1>1, <1>3, <2>1, <2>2
<1>5. scan' = [scan EXCEPT !.found = found] /\ reader' = told
  <2>1. [scan EXCEPT !.found = scan.found] = scan
    BY <1>1 DEF Scan
  <2>2. QED
    BY <1>2, <1>4, <2>1 DEF Record
<1>6. /\ scan' \in Scan /\ scan'.next = scan.next /\ scan'.pc = scan.pc /\ scan'.n = scan.n
      /\ scan'.targets = scan.targets /\ scan'.round = scan.round /\ scan'.found = found
      /\ scan'.hit = scan.hit /\ scan'.timed = scan.timed
  BY <1>1, <1>4, <1>5 DEF Scan
<1>7. Known' = Known \union {m.of}
  <2>1. Known' = {found[i].of : i \in 1..Len(found)}
    BY <1>6 DEF Known
  <2>2. CASE m.of \in Known
    <3>1. found = scan.found
      BY <1>4, <2>2
    <3>2. Known' = Known
      BY <2>1, <3>1 DEF Known
    <3>3. QED
      BY <2>2, <3>2
  <2>3. CASE m.of \notin Known
    <3>1. found = Append(scan.found, f)
      BY <1>4, <2>3
    <3>2. /\ Len(found) = Len(scan.found) + 1 /\ found[Len(scan.found) + 1] = f /\ Len(scan.found) \in Nat
          /\ \A i \in 1..Len(scan.found) : found[i] = scan.found[i]
      BY <1>3, <3>1
    <3>3. Known = {scan.found[i].of : i \in 1..Len(scan.found)}
      BY DEF Known
    <3>4. Known' \subseteq Known \union {m.of}
      BY <1>3, <2>1, <3>2, <3>3
    <3>5. m.of \in Known'
      BY <1>3, <2>1, <3>2
    <3>6. Known \subseteq Known'
      BY <2>1, <3>2, <3>3
    <3>7. QED
      BY <3>4, <3>5, <3>6
  <2>4. QED
    BY <2>2, <2>3
<1>8. \A i \in 1..Len(found) : found[i] = f \/ (i \in 1..Len(scan.found) /\ found[i] = scan.found[i])
  BY <1>3, <1>4
<1>9. ScanTyped' /\ NumberInv'
  BY <1>4, <1>5, <1>6 DEF DiscoveryInv, ScanTyped, NumberInv
<1>10. LossInv'
  <2>1. SUFFICES ASSUME NEW r \in heard.all \ Known', NEW t \in Probed, r \in Hears[t]
                 PROVE  Cardinality(Gone(r, t)') <= lost[r]
    BY DEF LossInv
  <2>2. Gone(r, t)' = Gone(r, t)
    BY <1>6, <1>7, <2>1 DEF Gone, WasSent, Underway
  <2>3. QED
    BY <1>7, <2>1, <2>2 DEF DiscoveryInv, LossInv
<1>11. TimedInv'
  BY <1>6 DEF DiscoveryInv, TimedInv
<1>12. HitInv'
  <2>1. \A y \in Sockets : told[y] # Nobody => told[y] \in Known'
    BY <1>1, <1>4, <1>7 DEF DiscoveryInv, HitInv
  <2>2. Wanted \in Known' => scan.hit = Wanted \/ \E y \in Sockets : told[y] = Wanted
    <3>1. CASE m.of \in Known
      BY <1>4, <1>7, <3>1 DEF DiscoveryInv, HitInv
    <3>2. CASE m.of \notin Known
      <4>1. told[x] = m.of /\ \A y \in Sockets \ {x} : told[y] = reader[y]
        BY <1>1, <1>4, <3>2
      <4>2. QED
        BY <1>7, <4>1, ScanParameters DEF DiscoveryInv, HitInv
    <3>3. QED
      BY <3>1, <3>2
  <2>3. QED
    BY <1>5, <1>6, <1>7, <2>1, <2>2 DEF DiscoveryInv, HitInv
<1>13. AnswersInv'
  BY <1>3, <1>6, <1>8 DEF DiscoveryInv, AnswersInv
<1>14. QED
  BY <1>9, <1>10, <1>11, <1>12, <1>13 DEF DiscoveryInv

\* A socket's goroutine reads an answer, of this scan or of an earlier one.
LEMMA ReceiveKeeps == \A m \in net, r \in Readers : DiscoveryInv /\ Receive(r, m) => DiscoveryInv'
<1>1. SUFFICES ASSUME NEW m \in net, NEW r \in Readers, DiscoveryInv, Receive(r, m) PROVE DiscoveryInv'
  OBVIOUS
<1>2. /\ scan.pc = "open" /\ reader[r] = Nobody /\ m.kind = "answer" /\ net' = net \ {m}
      /\ UNCHANGED <<up, heard, lost>> /\ r \in Sockets
  BY <1>1 DEF Receive, Sockets
<1>3. CASE m.scan = scan.n
  <2>1. Record(r, m) /\ m.of \in heard.answered
    BY <1>1, <1>2, <1>3 DEF Receive, DiscoveryInv, AnswersInv
  <2>2. QED
    BY <1>1, <1>2, <2>1, RecordKeeps
<1>4. CASE m.scan # scan.n
  <2>1. UNCHANGED <<scan, reader>>
    BY <1>1, <1>4 DEF Receive
  <2>2. Known' = Known /\ Asked' = Asked
    BY <2>1 DEF Known, Asked
  <2>3. \A s, t : Gone(s, t)' = Gone(s, t)
    BY <1>2, <1>4, <2>1 DEF Gone, WasSent, Underway
  <2>4. LossInv'
    BY <1>1, <1>2, <2>2, <2>3, NoMoreGone DEF DiscoveryInv
  <2>5. ScanTyped' /\ NumberInv' /\ AnswersInv'
    BY <1>1, <1>2, <2>1 DEF DiscoveryInv, ScanTyped, NumberInv, AnswersInv
  <2>6. TimedInv' /\ HitInv'
    BY <1>1, <1>2, <2>1, <2>2 DEF DiscoveryInv, TimedInv, HitInv
  <2>7. QED
    BY <2>4, <2>5, <2>6 DEF DiscoveryInv
<1>5. QED
  BY <1>3, <1>4

\* A response to the query is read.
LEMMA BrowseKeeps == \A m \in net : DiscoveryInv /\ Browse(m) => DiscoveryInv'
<1>1. SUFFICES ASSUME NEW m \in net, DiscoveryInv, Browse(m) PROVE DiscoveryInv'
  OBVIOUS
<1>2. /\ scan.pc = "open" /\ reader[Browser] = Nobody /\ m.kind = "response" /\ net' = net \ {m}
      /\ Record(Browser, m) /\ UNCHANGED <<up, heard, lost>> /\ Browser \in Sockets
  BY <1>1 DEF Browse, Sockets
<1>3. m.to = Mdns
  BY <1>1, <1>2 DEF DiscoveryInv, AnswersInv
<1>4. QED
  BY <1>1, <1>2, <1>3, RecordKeeps

\* A goroutine reports what it found, to First.
LEMMA TellKeeps == \A x \in Sockets : DiscoveryInv /\ Tell(x) => DiscoveryInv'
<1>1. SUFFICES ASSUME NEW x \in Sockets, DiscoveryInv, Tell(x) PROVE DiscoveryInv'
  OBVIOUS
<1>2. /\ reader[x] # Nobody /\ reader' = [reader EXCEPT ![x] = Nobody] /\ UNCHANGED <<net, up, heard, lost>>
  BY <1>1 DEF Tell
<1>3. scan \in Scan /\ reader \in [Sockets -> Receivers \union {Nobody}] /\ scan.pc \in {"open", "closed"}
      /\ reader[x] \in Known
  BY <1>1, <1>2 DEF DiscoveryInv, ScanTyped, HitInv, Scan
<1>4. PICK pc \in {"open", "closed"}, hit \in {Nobody, Wanted} :
        /\ pc = IF reader[x] = Wanted /\ scan.hit = Nobody THEN Closing ELSE scan.pc
        /\ hit = IF reader[x] = Wanted /\ scan.hit = Nobody THEN reader[x] ELSE scan.hit
  BY <1>3 DEF Closing, Scan
<1>5. scan' = [scan EXCEPT !.hit = hit, !.pc = pc]
  <2>1. [scan EXCEPT !.hit = scan.hit, !.pc = scan.pc] = scan
    BY <1>3 DEF Scan
  <2>2. QED
    BY <1>1, <1>4, <2>1 DEF Tell
<1>6. /\ scan' \in Scan /\ scan'.next = scan.next /\ scan'.pc = pc /\ scan'.n = scan.n
      /\ scan'.targets = scan.targets /\ scan'.round = scan.round /\ scan'.found = scan.found
      /\ scan'.hit = hit /\ scan'.timed = scan.timed
  BY <1>3, <1>4, <1>5 DEF Scan
<1>7. Known' = Known /\ Asked' = Asked
  BY <1>6 DEF Known, Asked
<1>8. \A r, t : Gone(r, t)' = Gone(r, t)
  BY <1>2, <1>6 DEF Gone, WasSent, Underway
<1>9. LossInv'
  BY <1>1, <1>2, <1>7, <1>8, NoMoreGone DEF DiscoveryInv
<1>10. ScanTyped' /\ AnswersInv'
  BY <1>1, <1>2, <1>3, <1>6 DEF DiscoveryInv, ScanTyped, AnswersInv
<1>11. NumberInv'
  BY <1>1, <1>3, <1>6 DEF DiscoveryInv, NumberInv
<1>12. TimedInv'
  <2>1. scan.timed => pc \in {"closed", "returned"}
    BY <1>1, <1>3, <1>4 DEF DiscoveryInv, TimedInv, Closing
  <2>2. QED
    BY <1>1, <1>2, <1>6, <1>7, <2>1 DEF DiscoveryInv, TimedInv
<1>13. HitInv'
  <2>1. hit = Wanted => Wanted \in Known
    BY <1>1, <1>3, <1>4 DEF DiscoveryInv, HitInv
  <2>2. \A y \in Sockets : reader'[y] # Nobody => reader'[y] \in Known
    BY <1>1, <1>2, <1>3 DEF DiscoveryInv, HitInv
  <2>3. Wanted \in Known => hit = Wanted \/ \E y \in Sockets : reader'[y] = Wanted
    <3>1. CASE reader[x] = Wanted
      <4>1. scan.hit \in {Nobody, Wanted}
        BY <1>3 DEF Scan
      <4>2. QED
        BY <1>4, <3>1, <4>1
    <3>2. CASE reader[x] # Wanted
      BY <1>1, <1>2, <1>3, <1>4, <3>2 DEF DiscoveryInv, HitInv
    <3>3. QED
      BY <3>1, <3>2
  <2>4. QED
    BY <1>6, <1>7, <2>1, <2>2, <2>3, <1>3, <1>4 DEF HitInv
<1>14. QED
  BY <1>9, <1>10, <1>11, <1>12, <1>13 DEF DiscoveryInv

\* A receiver starts or stops.
LEMMA SwitchKeeps == \A r \in Receivers : DiscoveryInv /\ Switch(r) => DiscoveryInv'
<1>1. SUFFICES ASSUME NEW r \in Receivers, DiscoveryInv, Switch(r) PROVE DiscoveryInv'
  OBVIOUS
<1>2. /\ up' = IF r \in up THEN up \ {r} ELSE up \union {r}
      /\ heard' = [heard EXCEPT !.all = @ \intersect up'] /\ UNCHANGED <<scan, reader, net, lost>>
  BY <1>1 DEF Switch
<1>3. up \subseteq Receivers /\ heard \in [all : SUBSET Receivers, answered : SUBSET Receivers]
  BY <1>1 DEF DiscoveryInv, ScanTyped
<1>4. PICK all \in SUBSET Receivers : all = heard.all \intersect up'
  BY <1>3
<1>5. heard' = [heard EXCEPT !.all = all]
  BY <1>2, <1>4
<1>6. /\ heard' \in [all : SUBSET Receivers, answered : SUBSET Receivers] /\ heard'.all = all
      /\ heard'.answered = heard.answered /\ up' \subseteq Receivers
  BY <1>2, <1>3, <1>5
<1>7. Known' = Known /\ Asked' = Asked
  BY <1>2 DEF Known, Asked
<1>8. \A s, t : Gone(s, t)' = Gone(s, t)
  BY <1>2 DEF Gone, WasSent, Underway
<1>9. LossInv'
  BY <1>1, <1>2, <1>4, <1>6, <1>7, <1>8, NoMoreGone DEF DiscoveryInv
<1>10. ScanTyped' /\ NumberInv'
  BY <1>1, <1>2, <1>4, <1>6 DEF DiscoveryInv, ScanTyped, NumberInv
<1>11. TimedInv' /\ HitInv'
  BY <1>1, <1>2, <1>4, <1>6, <1>7 DEF DiscoveryInv, TimedInv, HitInv
<1>12. AnswersInv'
  BY <1>1, <1>2, <1>6 DEF DiscoveryInv, AnswersInv
<1>13. QED
  BY <1>9, <1>10, <1>11, <1>12 DEF DiscoveryInv

-----------------------------------------------------------------------------
\* In every reachable state the packets, the readers and the results of a scan agree.
THEOREM DiscoveryIsSound == DiscoverySpec => []DiscoveryInv
<1>1. DiscoveryInv /\ UNCHANGED scanVars => DiscoveryInv'
  <2>1. SUFFICES ASSUME DiscoveryInv, UNCHANGED <<scan, reader, net, up, heard, lost>> PROVE DiscoveryInv'
    BY DEF scanVars
  <2>2. Known' = Known /\ Asked' = Asked
    BY <2>1 DEF Known, Asked
  <2>3. \A s, t : Gone(s, t)' = Gone(s, t)
    BY <2>1 DEF Gone, WasSent, Underway
  <2>4. LossInv'
    BY <2>1, <2>2, <2>3, NoMoreGone DEF DiscoveryInv
  <2>5. ScanTyped' /\ NumberInv' /\ AnswersInv'
    BY <2>1 DEF DiscoveryInv, ScanTyped, NumberInv, AnswersInv
  <2>6. TimedInv' /\ HitInv'
    BY <2>1, <2>2 DEF DiscoveryInv, TimedInv, HitInv
  <2>7. QED
    BY <2>4, <2>5, <2>6 DEF DiscoveryInv
<1>2. DiscoveryInv /\ DiscoveryNext => DiscoveryInv'
  <2>1. SUFFICES ASSUME DiscoveryInv, DiscoveryNext PROVE DiscoveryInv'
    OBVIOUS
  <2>2. CASE \E plan \in Plans, late \in SUBSET net : Begin(plan, late)
    BY <2>1, <2>2, BeginKeeps
  <2>3. CASE Send \/ NextRound \/ Query \/ TimeOut \/ GiveUp \/ Return
    BY <2>1, <2>3, ProbeKeeps, NextRoundKeeps, QueryKeeps, TimeOutKeeps, EndKeeps
  <2>4. CASE \E m \in net : Answer(m) \/ Respond(m) \/ Lose(m) \/ Browse(m) \/ \E r \in Readers : Receive(r, m)
    BY <2>1, <2>4, AnswerKeeps, RespondKeeps, LoseKeeps, BrowseKeeps, ReceiveKeeps
  <2>5. CASE \E x \in Sockets : Tell(x)
    BY <2>1, <2>5, TellKeeps
  <2>6. CASE \E r \in Receivers : Switch(r)
    BY <2>1, <2>6, SwitchKeeps
  <2>7. QED
    BY <2>1, <2>2, <2>3, <2>4, <2>5, <2>6 DEF DiscoveryNext, Sockets
<1>3. QED
  BY <1>1, <1>2, ScanStarts, PTL DEF DiscoverySpec

\* The invariant of the runs: a scan that ran its time has found whoever ran and was probed,
\* First has what was found, and only receivers that answered this scan are reported.
THEOREM ScansAreRight == DiscoverySpec => []ScanIsRight
<1>1. DiscoveryInv => ScanIsRight
  <2>1. SUFFICES ASSUME DiscoveryInv PROVE ScanIsRight
    OBVIOUS
  <2>2. scan.pc = "returned" => (scan.hit = Wanted <=> Wanted \in Known)
    BY <2>1, ScanParameters DEF DiscoveryInv, HitInv
  <2>3. QED
    BY <2>1, <2>2 DEF DiscoveryInv, TimedInv, AnswersInv, ScanIsRight
<1>2. QED
  BY <1>1, DiscoveryIsSound, PTL

(***************************************************************************)
(* The run.                                                                *)
(*                                                                         *)
(* Each file is in one place: waiting, with a worker, or settled.  The     *)
(* places are those of a queue, its workers and the states of the items,   *)
(* before and after a pump alike, so that what a pump keeps is shown once. *)
(***************************************************************************)

States == {"none", "queued", "uploading", "done", "failed", "cancelled"}
Flight == [pc : {"none", "sending", "recording"}, why : {"none", "paused", "cancelled"}]
Queue == [made : BOOLEAN, pending : Seq(Files), paused : BOOLEAN, stopped : BOOLEAN]
Run == [phase : {"idle", "preparing", "transferring", "paused", "done", "cancelled"},
        at : {"connect", "prepare", "plan", "transfer", "note", "left"}, taps : 0..MaxTaps]

Workers == [Files -> Flight]
Items == [Files -> States]

RunTyped ==
  /\ run \in Run
  /\ pool.busy \subseteq Entries /\ pool.todo \subseteq Entries
  /\ resolved \subseteq Files
  /\ item \in Items /\ queue \in Queue /\ flight \in Workers

\* Until the plan is made there is no queue, and only while run() waits for it something is sent.
StageInv ==
  /\ ~queue.made => queue.pending = <<>> /\ ~queue.stopped /\ \A f \in Files : item[f] = "none"
  /\ run.at \in {"connect", "prepare", "plan"} => ~queue.made
  /\ run.at # "transfer" => \A f \in Files : flight[f].pc = "none"
  /\ pool.busy # {} => run.at = "prepare"

\* Each file is in one place, for a queue, its workers and the states of the items.
BusyIn(workers) == {f \in Files : workers[f].pc # "none"}

Placed(q, workers, states) ==
  /\ IsInjective(q.pending)
  /\ Cardinality(BusyIn(workers)) <= Lanes
  /\ \A f \in ToSet(q.pending) : workers[f].pc = "none" /\ states[f] = "queued"
  /\ \A f \in Files : /\ workers[f].pc = "sending" => states[f] = "uploading"
                      /\ workers[f].pc = "recording" => states[f] = "done"

PlaceInv == Placed(queue, flight, item)

\* What is open has somebody who settles it.
Settling(q, workers, states) == \A f \in Files :
  states[f] \in {"queued", "uploading", "cancelled"} => f \in ToSet(q.pending) \/ workers[f].pc = "sending"

SettledInv ==
  /\ run.at = "transfer" /\ ~queue.stopped => Settling(queue, flight, item)
  /\ run.at \in {"note", "left"} /\ ~queue.stopped => \A f \in Files : item[f] \notin {"queued", "uploading", "cancelled"}

\* A cancel of the queue is final, and only that aborts for good.
FinalInv ==
  /\ queue.made => (queue.stopped <=> run.phase = "cancelled")
  /\ \A f \in Files : flight[f].why = "cancelled" => queue.stopped

RunInv == RunTyped /\ StageInv /\ PlaceInv /\ SettledInv /\ FinalInv

-----------------------------------------------------------------------------
\* The parameters.
LEMMA RunParameters ==
  /\ IsFiniteSet(Files) /\ Lanes \in 1..8 /\ MaxTaps \in Nat /\ \A e \in Entries : e \subseteq Files
BY TransferAssumption DEF Files

\* A set of files as a sequence: each once.
LEMMA SetToSeqOfFiles ==
  ASSUME NEW S \in SUBSET Files
  PROVE  SetToSeq(S) \in Seq(Files) /\ IsInjective(SetToSeq(S)) /\ ToSet(SetToSeq(S)) = S
<1>1. IsFiniteSet(S)
  BY RunParameters, FS_Subset
<1>2. PICK n \in Nat : n = Cardinality(S)
  BY <1>1, FS_CardinalityType
<1>3. \E f \in [1..n -> S] : IsInjective(f)
  <2>1. ExistsBijection(1..n, S)
    BY <1>1, <1>2, FS_CardinalityType
  <2>2. QED
    BY <2>1 DEF ExistsBijection, Bijection, Injection
<1>4. PICK f : f = SetToSeq(S)
  OBVIOUS
<1>5. f \in [1..n -> S] /\ IsInjective(f)
  BY <1>2, <1>3, <1>4 DEF SetToSeq
<1>6. f \in Surjection(1..n, S)
  <2>1. f \in Injection(1..n, S)
    BY <1>5 DEF Injection
  <2>2. IsFiniteSet(1..n) /\ Cardinality(1..n) = n
    BY FS_Interval
  <2>3. QED
    BY <1>1, <1>2, <2>1, <2>2, FS_Injection
<1>7. f \in Seq(S) /\ DOMAIN f = 1..n
  BY <1>5, SeqDef
<1>8. f \in Seq(Files)
  BY <1>7
<1>9. ToSet(f) = S
  BY <1>5, <1>6, <1>7 DEF Surjection, ToSet
<1>10. QED
  BY <1>4, <1>5, <1>8, <1>9

\* A sequence without repetition is as long as the set of its elements is large.
LEMMA InjectiveLength ==
  ASSUME NEW s \in Seq(Files), IsInjective(s)
  PROVE  Cardinality(ToSet(s)) = Len(s)
<1>1. PICK n \in Nat : n = Len(s)
  OBVIOUS
<1>2. PICK S : S = ToSet(s)
  OBVIOUS
<1>3. s \in [1..n -> S]
  BY <1>1, <1>2 DEF ToSet
<1>4. s \in Bijection(1..n, S)
  BY <1>1, <1>2, <1>3 DEF Bijection, Injection, Surjection, ToSet
<1>5. Cardinality(S) = n
  BY <1>4, FS_CountingElements DEF ExistsBijection
<1>6. QED
  BY <1>1, <1>2, <1>5

\* The least of two numbers.
LEMMA LeastOfTwo ==
  ASSUME NEW a \in Nat, NEW b \in Nat
  PROVE  Min({a, b}) \in {a, b} /\ Min({a, b}) <= a /\ Min({a, b}) <= b
<1>1. \E x \in {a, b} : \A y \in {a, b} : x <= y
  BY DEF Min
<1>2. QED
  BY <1>1 DEF Min

\* What pump starts: as many as there are lanes for, from the front.
LEMMA Pumping ==
  ASSUME NEW q \in Queue, NEW workers \in Workers, NEW states \in Items,
         Placed(q, workers, states), Pump(q, workers, states)
  PROVE  \E go \in SUBSET ToSet(q.pending), rest \in Seq(Files) :
           /\ IsInjective(rest) /\ ToSet(rest) = ToSet(q.pending) \ go
           /\ queue' = [q EXCEPT !.pending = rest]
           /\ flight' = [f \in Files |-> IF f \in go THEN [pc |-> "sending", why |-> "none"] ELSE workers[f]]
           /\ item' = [f \in Files |-> IF f \in go THEN "uploading" ELSE states[f]]
           /\ Cardinality(BusyIn(workers) \union go) <= Lanes
<1>1. PICK p \in Seq(Files) : p = q.pending
  BY DEF Queue
<1>2. IsFiniteSet(BusyIn(workers)) /\ Cardinality(BusyIn(workers)) <= Lanes
  BY RunParameters, FS_Subset DEF BusyIn, Placed
<1>3. PICK busy \in 0..Lanes : busy = Cardinality(BusyIn(workers))
  BY <1>2, RunParameters, FS_CardinalityType
<1>4. PICK n : n = IF q.paused \/ q.stopped THEN 0 ELSE Min({Lanes - busy, Len(q.pending)})
  OBVIOUS
<1>5. n \in 0..Len(p) /\ n <= Lanes - busy
  <2>1. Lanes - busy \in Nat /\ Len(p) \in Nat
    BY <1>3, RunParameters
  <2>2. QED
    BY <1>1, <1>4, <2>1, LeastOfTwo
<1>6. PICK front : front = SubSeq(p, 1, n)
  OBVIOUS
<1>7. PICK rest : rest = SubSeq(p, n + 1, Len(p))
  OBVIOUS
<1>8. front \in Seq(Files) /\ Len(front) = n /\ \A i \in 1..n : front[i] = p[i]
  <2>1. \A i \in 1..n : p[i] \in Files
    BY <1>5
  <2>2. QED
    BY <1>5, <1>6, <2>1, SubSeqProperties
<1>9. rest \in Seq(Files) /\ Len(rest) = Len(p) - n /\ \A i \in 1..Len(p) - n : rest[i] = p[n + i]
  <2>1. \A i \in n + 1..Len(p) : p[i] \in Files
    BY <1>5
  <2>2. /\ rest \in Seq(Files) /\ Len(rest) = IF n + 1 <= Len(p) THEN Len(p) - (n + 1) + 1 ELSE 0
        /\ \A i \in 1..Len(p) - (n + 1) + 1 : rest[i] = p[n + 1 + i - 1]
    BY <1>5, <1>7, <2>1, SubSeqProperties
  <2>3. QED
    BY <1>5, <2>2
<1>10. PICK go : go = ToSet(front)
  OBVIOUS
<1>11. go = {p[i] : i \in 1..n}
  BY <1>8, <1>10 DEF ToSet
<1>12. \A i, j \in 1..Len(p) : p[i] = p[j] => i = j
  BY <1>1 DEF Placed, IsInjective
<1>13. go \subseteq ToSet(q.pending)
  BY <1>1, <1>5, <1>11 DEF ToSet
<1>14. IsInjective(rest)
  <2>1. SUFFICES ASSUME NEW i \in 1..Len(p) - n, NEW j \in 1..Len(p) - n, rest[i] = rest[j] PROVE i = j
    BY <1>9 DEF IsInjective
  <2>2. n + i \in 1..Len(p) /\ n + j \in 1..Len(p)
    BY <1>5
  <2>3. QED
    BY <1>5, <1>9, <1>12, <2>1, <2>2
<1>15. ToSet(rest) = ToSet(q.pending) \ go
  <2>1. ToSet(rest) = {p[n + i] : i \in 1..Len(p) - n} /\ ToSet(q.pending) = {p[i] : i \in 1..Len(p)}
    BY <1>1, <1>9 DEF ToSet
  <2>2. ASSUME NEW i \in 1..Len(p), i \notin 1..n
        PROVE  i - n \in 1..Len(p) - n /\ p[i] = p[n + (i - n)] /\ p[i] \notin go
    BY <1>5, <1>11, <1>12, <2>2
  <2>3. ASSUME NEW i \in 1..Len(p) - n
        PROVE  n + i \in 1..Len(p) /\ p[n + i] \notin go
    BY <1>5, <1>11, <1>12, <2>3
  <2>4. ToSet(rest) \subseteq ToSet(q.pending) \ go
    BY <2>1, <2>3
  <2>5. ToSet(q.pending) \ go \subseteq ToSet(rest)
    BY <1>11, <2>1, <2>2
  <2>6. QED
    BY <2>4, <2>5
<1>16. Cardinality(BusyIn(workers) \union go) <= Lanes
  <2>1. [i \in 1..n |-> p[i]] \in Surjection(1..n, go)
    BY <1>11 DEF Surjection
  <2>2. Cardinality(go) <= n
    BY <1>5, <2>1, FS_SurjCardinalityBound DEF ExistsSurjection
  <2>3. IsFiniteSet(go)
    BY <1>5, <2>1, FS_NatSurjection DEF ExistsSurjection
  <2>4. Cardinality(BusyIn(workers) \union go) =
          Cardinality(BusyIn(workers)) + Cardinality(go) - Cardinality(BusyIn(workers) \intersect go)
    BY <1>2, <2>3, FS_Union
  <2>5. IsFiniteSet(BusyIn(workers) \intersect go)
    BY <1>2, FS_Subset
  <2>6. Cardinality(BusyIn(workers) \intersect go) \in Nat /\ Cardinality(go) \in Nat
    BY <2>3, <2>5, FS_CardinalityType
  <2>7. QED
    BY <1>3, <1>5, <2>2, <2>4, <2>6, RunParameters
<1>17. /\ queue' = [q EXCEPT !.pending = rest]
       /\ flight' = [f \in Files |-> IF f \in go THEN [pc |-> "sending", why |-> "none"] ELSE workers[f]]
       /\ item' = [f \in Files |-> IF f \in go THEN "uploading" ELSE states[f]]
  BY <1>1, <1>3, <1>4, <1>6, <1>7, <1>10 DEF Pump, BusyIn
<1>18. QED
  BY <1>9, <1>13, <1>14, <1>15, <1>16, <1>17

\* What a pump leaves when each file was in one place before it.
LEMMA PumpKeeps ==
  ASSUME NEW q \in Queue, NEW workers \in Workers, NEW states \in Items,
         Placed(q, workers, states), Pump(q, workers, states)
  PROVE  /\ queue' \in Queue /\ flight' \in Workers /\ item' \in Items
         /\ queue'.made = q.made /\ queue'.paused = q.paused /\ queue'.stopped = q.stopped
         /\ Placed(queue', flight', item')
         /\ Settling(q, workers, states) => Settling(queue', flight', item')
         /\ \A f \in Files : flight'[f].why = "cancelled" => workers[f].why = "cancelled"
         /\ ToSet(queue'.pending) \subseteq ToSet(q.pending)
         /\ \A f \in Files \ ToSet(q.pending) : flight'[f] = workers[f] /\ item'[f] = states[f]
<1>1. PICK go \in SUBSET ToSet(q.pending), rest \in Seq(Files) :
           /\ IsInjective(rest) /\ ToSet(rest) = ToSet(q.pending) \ go
           /\ queue' = [q EXCEPT !.pending = rest]
           /\ flight' = [f \in Files |-> IF f \in go THEN [pc |-> "sending", why |-> "none"] ELSE workers[f]]
           /\ item' = [f \in Files |-> IF f \in go THEN "uploading" ELSE states[f]]
           /\ Cardinality(BusyIn(workers) \union go) <= Lanes
  BY ZenonT(60), Pumping
<1>2. PICK w \in Flight : w = [pc |-> "sending", why |-> "none"]
  BY DEF Flight
<1>3. w.pc = "sending" /\ w.why = "none"
  BY <1>2
<1>4. ToSet(q.pending) \subseteq Files
  BY DEF Queue, ToSet
<1>5. /\ queue' \in Queue /\ queue'.pending = rest
      /\ queue'.made = q.made /\ queue'.paused = q.paused /\ queue'.stopped = q.stopped
  BY <1>1 DEF Queue
<1>6. flight' = [f \in Files |-> IF f \in go THEN w ELSE workers[f]]
  BY <1>1, <1>2
<1>7. flight' \in Workers /\ item' \in Items
  BY <1>1, <1>6 DEF Workers, Items, States
<1>8. /\ \A f \in go : f \in Files /\ flight'[f] = w /\ item'[f] = "uploading"
      /\ \A f \in Files \ go : flight'[f] = workers[f] /\ item'[f] = states[f]
  BY <1>1, <1>4, <1>6
<1>9. BusyIn(flight') = BusyIn(workers) \union go
  BY <1>3, <1>8 DEF BusyIn
<1>10. Placed(queue', flight', item')
  BY <1>1, <1>3, <1>4, <1>5, <1>8, <1>9 DEF Placed
<1>11. Settling(q, workers, states) => Settling(queue', flight', item')
  BY <1>1, <1>3, <1>5, <1>8 DEF Settling
<1>12. QED
  BY <1>1, <1>3, <1>5, <1>7, <1>8, <1>10, <1>11

\* Nothing is in flight, and nothing waits but what is queued.
LEMMA NothingPlaced ==
  ASSUME NEW q \in Queue, NEW workers \in Workers, NEW states \in Items,
         IsInjective(q.pending), \A f \in Files : workers[f].pc = "none",
         \A f \in ToSet(q.pending) : f \in Files /\ states[f] = "queued"
  PROVE  Placed(q, workers, states)
<1>1. BusyIn(workers) = {}
  BY DEF BusyIn
<1>2. Cardinality(BusyIn(workers)) <= Lanes
  BY <1>1, FS_EmptySet, RunParameters
<1>3. QED
  BY <1>2 DEF Placed

-----------------------------------------------------------------------------
\* The first state.
LEMMA RunStarts == TransferInit => RunInv
<1>1. SUFFICES ASSUME TransferInit PROVE RunInv
  OBVIOUS
<1>2. /\ run = [phase |-> "idle", at |-> "connect", taps |-> 0] /\ pool = [todo |-> Entries, busy |-> {}]
      /\ resolved = {} /\ item = [f \in Files |-> "none"]
      /\ queue = [made |-> FALSE, pending |-> <<>>, paused |-> FALSE, stopped |-> FALSE]
      /\ flight = [f \in Files |-> NoFlight]
  BY <1>1 DEF TransferInit
<1>3. NoFlight \in Flight /\ NoFlight.pc = "none" /\ NoFlight.why = "none"
  BY DEF NoFlight, Flight
<1>4. RunTyped
  BY <1>2, <1>3, RunParameters DEF RunTyped, Run, Queue, Workers, Items, States
<1>5. queue.pending = <<>> /\ IsInjective(queue.pending) /\ ToSet(queue.pending) = {}
  BY <1>2 DEF IsInjective, ToSet
<1>6. PlaceInv
  BY <1>2, <1>3, <1>4, <1>5, NothingPlaced DEF PlaceInv, RunTyped
<1>7. StageInv /\ SettledInv /\ FinalInv
  BY <1>2, <1>3, <1>5 DEF StageInv, SettledInv, FinalInv
<1>8. QED
  BY <1>4, <1>6, <1>7 DEF RunInv

\* A step of run() before there is a queue: to another stage, with other entries in the pool.
LEMMA StageKeeps ==
  ASSUME RunInv, run' \in Run, pool'.busy \subseteq Entries, pool'.todo \subseteq Entries, resolved' \subseteq Files,
         run.at \in {"connect", "prepare", "plan"}, run'.at \in {"prepare", "plan", "left"},
         pool'.busy # {} => run'.at = "prepare",
         UNCHANGED <<item, queue, flight>>
  PROVE  RunInv'
<1>1. RunTyped'
  BY DEF RunInv, RunTyped
<1>2. ~queue.made /\ \A f \in Files : flight[f].pc = "none"
  BY DEF RunInv, StageInv
<1>3. StageInv'
  BY <1>2 DEF RunInv, StageInv
<1>4. PlaceInv' /\ FinalInv'
  BY <1>2 DEF RunInv, PlaceInv, FinalInv
<1>5. SettledInv'
  BY <1>2 DEF RunInv, StageInv, SettledInv
<1>6. QED
  BY <1>1, <1>3, <1>4, <1>5 DEF RunInv

\* connect finds the receiver, or not.
LEMMA ConnectedKeeps == RunInv /\ (Connected \/ ConnectFails) => RunInv'
<1>1. SUFFICES ASSUME RunInv, Connected \/ ConnectFails PROVE RunInv'
  OBVIOUS
<1>2. run \in Run /\ run.at = "connect" /\ pool.busy = {}
  BY <1>1 DEF RunInv, RunTyped, StageInv, Connected, ConnectFails
<1>3. CASE Connected
  <2>1. PICK first \in SUBSET Entries : pool' = [todo |-> Entries \ first, busy |-> first]
    BY <1>3 DEF Connected, kSubset
  <2>2. run' = [run EXCEPT !.phase = "preparing", !.at = "prepare"] /\ UNCHANGED <<resolved, item, queue, flight>>
    BY <1>3 DEF Connected
  <2>3. run' \in Run /\ run'.at = "prepare"
    BY <1>2, <2>2 DEF Run
  <2>4. pool'.busy \subseteq Entries /\ pool'.todo \subseteq Entries
    BY <2>1
  <2>5. resolved' \subseteq Files
    BY <1>1, <2>2 DEF RunInv, RunTyped
  <2>6. QED
    BY <1>1, <1>2, <2>2, <2>3, <2>4, <2>5, StageKeeps
<1>4. CASE ConnectFails
  <2>1. run' = [run EXCEPT !.at = "left"] /\ UNCHANGED <<pool, resolved, item, queue, flight>>
    BY <1>4 DEF ConnectFails
  <2>2. run' \in Run /\ run'.at = "left"
    BY <1>2, <2>1 DEF Run
  <2>3. resolved' \subseteq Files /\ pool'.busy = {} /\ pool'.todo \subseteq Entries
    BY <1>1, <1>2, <2>1 DEF RunInv, RunTyped
  <2>4. QED
    BY <1>1, <1>2, <2>1, <2>2, <2>3, StageKeeps
<1>5. QED
  BY <1>1, <1>3, <1>4

\* An entry is resolved, or cannot be.
LEMMA ResolveKeeps == \A e \in Entries : RunInv /\ (Resolve(e) \/ ResolveFails(e)) => RunInv'
<1>1. SUFFICES ASSUME NEW e \in Entries, RunInv, Resolve(e) \/ ResolveFails(e) PROVE RunInv'
  OBVIOUS
<1>2. /\ e \in pool.busy /\ UNCHANGED <<item, queue, flight>>
      /\ \E files \in SUBSET e, made \in SUBSET e : PoolGoesOn(e, files, made)
  BY <1>1 DEF Resolve, ResolveFails
<1>3. PICK files \in SUBSET e, made \in SUBSET e : PoolGoesOn(e, files, made)
  BY <1>2
<1>4. run \in Run /\ run.at = "prepare" /\ pool.todo \subseteq Entries /\ pool.busy \subseteq Entries
      /\ resolved \subseteq Files
  BY <1>1, <1>2 DEF RunInv, RunTyped, StageInv
<1>5. PICK next \in SUBSET pool.todo, busy \in SUBSET Entries, at \in {"left", "plan", "prepare"} :
        /\ pool' = [todo |-> pool.todo \ next, busy |-> busy]
        /\ busy # {} => at = "prepare"
        /\ run' = [run EXCEPT !.at = at]
        /\ resolved' = resolved \union files
  <2>1. PICK next : /\ next \in IF run.phase = "preparing" /\ pool.todo # {} THEN {{g} : g \in pool.todo} ELSE {{}}
                    /\ pool' = [todo |-> pool.todo \ next, busy |-> (pool.busy \ {e}) \union next]
                    /\ resolved' = resolved \union files
                    /\ run' = [run EXCEPT !.at =
                         IF (pool.busy \ {e}) \union next = {} /\ run.phase = "cancelled" THEN "left"
                         ELSE IF (pool.busy \ {e}) \union next = {} THEN "plan" ELSE run.at]
    BY <1>3 DEF PoolGoesOn
  <2>2. next \subseteq pool.todo
    BY <2>1
  <2>3. PICK busy \in SUBSET Entries : busy = (pool.busy \ {e}) \union next
    BY <1>4, <2>2
  <2>4. PICK at \in {"left", "plan", "prepare"} :
          at = IF busy = {} /\ run.phase = "cancelled" THEN "left" ELSE IF busy = {} THEN "plan" ELSE run.at
    BY <1>4
  <2>5. QED
    BY <1>4, <2>1, <2>2, <2>3, <2>4
<1>6. run' \in Run /\ run'.at = at
  BY <1>4, <1>5 DEF Run
<1>7. /\ pool'.busy = busy /\ pool'.todo \subseteq Entries /\ resolved' \subseteq Files
      /\ busy # {} => at = "prepare"
  BY <1>4, <1>5, RunParameters
<1>8. QED
  BY <1>1, <1>2, <1>4, <1>5, <1>6, <1>7, StageKeeps

\* The plan is made, or cannot be: nothing is left to send, or the queue begins.
LEMMA PlanKeeps == RunInv /\ (Plan \/ PlanFails) => RunInv'
<1>1. SUFFICES ASSUME RunInv, Plan \/ PlanFails PROVE RunInv'
  OBVIOUS
<1>2. /\ run.at = "plan" /\ run \in Run /\ resolved \subseteq Files /\ pool.busy = {} /\ ~queue.made
      /\ queue \in Queue /\ flight \in Workers /\ ~queue.stopped /\ UNCHANGED <<pool, resolved>>
      /\ \A f \in Files : flight[f].pc = "none"
      /\ pool.busy \subseteq Entries /\ pool.todo \subseteq Entries
  BY <1>1 DEF RunInv, RunTyped, StageInv, Plan, PlanFails
<1>3. PICK items \in SUBSET Files : items = resolved \ ledger
  BY <1>2
<1>4. CASE PlanFails \/ (Plan /\ items = {})
  <2>1. PICK phase \in {run.phase, "done"} : run' = [run EXCEPT !.phase = phase, !.at = "left"]
    <3>1. [run EXCEPT !.at = "left"] = [run EXCEPT !.phase = run.phase, !.at = "left"]
      BY <1>2 DEF Run
    <3>2. QED
      BY <1>3, <1>4, <3>1 DEF Plan, PlanFails
  <2>2. UNCHANGED <<item, queue, flight>>
    BY <1>3, <1>4 DEF Plan, PlanFails
  <2>3. run' \in Run /\ run'.at = "left"
    BY <1>2, <2>1 DEF Run
  <2>4. pool'.busy \subseteq Entries /\ pool'.todo \subseteq Entries /\ resolved' \subseteq Files /\ pool'.busy = {}
    BY <1>2
  <2>5. QED
    BY <1>1, <1>2, <2>2, <2>3, <2>4, StageKeeps
<1>5. CASE Plan /\ items # {}
  <2>1. PICK list \in Seq(Files) : /\ list = SetToSeq(items) /\ IsInjective(list) /\ ToSet(list) = items
    BY <1>3, SetToSeqOfFiles
  <2>2. PICK q \in Queue : /\ q = [queue EXCEPT !.made = TRUE, !.pending = list]
                           /\ q.pending = list /\ q.made /\ ~q.stopped
    <3>1. PICK made \in BOOLEAN : made = TRUE
      OBVIOUS
    <3>2. PICK new : new = [queue EXCEPT !.made = made, !.pending = list]
      OBVIOUS
    <3>3. new.made = made /\ new.pending = list /\ new.stopped = queue.stopped
      BY <1>2, <3>2 DEF Queue
    <3>4. new \in Queue
      BY <1>2, <2>1, <3>2 DEF Queue
    <3>5. QED
      BY <1>2, <3>1, <3>2, <3>3, <3>4
  <2>3. PICK states \in Items : states = [f \in Files |-> IF f \in items THEN "queued" ELSE "none"]
    BY DEF Items, States
  <2>4. Pump(q, flight, states) /\ run' = [run EXCEPT !.phase = "transferring", !.at = "transfer"]
    BY <1>3, <1>5, <2>1, <2>2, <2>3 DEF Plan
  <2>5. Placed(q, flight, states)
    BY <1>2, <2>1, <2>2, <2>3, NothingPlaced
  <2>6. Settling(q, flight, states)
    BY <2>1, <2>2, <2>3 DEF Settling
  <2>7. /\ queue' \in Queue /\ flight' \in Workers /\ item' \in Items
        /\ queue'.made /\ ~queue'.stopped
        /\ Placed(queue', flight', item') /\ Settling(queue', flight', item')
        /\ \A f \in Files : flight'[f].why = "cancelled" => flight[f].why = "cancelled"
    BY <1>2, <2>2, <2>4, <2>5, <2>6, PumpKeeps
  <2>8. run' \in Run /\ run'.at = "transfer" /\ run'.phase = "transferring"
    BY <1>2, <2>4 DEF Run
  <2>9. RunTyped' /\ StageInv'
    BY <1>2, <2>7, <2>8 DEF RunTyped, StageInv
  <2>10. PlaceInv' /\ SettledInv'
    BY <2>7, <2>8 DEF PlaceInv, SettledInv
  <2>11. FinalInv'
    BY <1>1, <1>2, <2>7, <2>8 DEF RunInv, FinalInv
  <2>12. QED
    BY <2>9, <2>10, <2>11 DEF RunInv
<1>6. QED
  BY <1>1, <1>4, <1>5

\* A sequence with an element before it has no repetition if the element is not in it.
LEMMA PutFirst ==
  ASSUME NEW p \in Seq(Files), NEW f \in Files, IsInjective(p), f \notin ToSet(p)
  PROVE  <<f>> \o p \in Seq(Files) /\ IsInjective(<<f>> \o p) /\ ToSet(<<f>> \o p) = ToSet(p) \union {f}
<1>1. PICK s : s = <<f>> \o p
  OBVIOUS
<1>2. s \in Seq(Files) /\ Len(s) = Len(p) + 1 /\ s[1] = f /\ \A i \in 1..Len(p) : s[i + 1] = p[i]
  BY <1>1
<1>3. \A i \in 1..Len(s) : i = 1 \/ (i - 1 \in 1..Len(p) /\ s[i] = p[i - 1])
  BY <1>2
<1>4. \A i, j \in 1..Len(p) : p[i] = p[j] => i = j
  BY DEF IsInjective
<1>5. \A i \in 1..Len(p) : p[i] # f
  BY DEF ToSet
<1>6. IsInjective(s)
  <2>1. SUFFICES ASSUME NEW i \in 1..Len(s), NEW j \in 1..Len(s), s[i] = s[j] PROVE i = j
    BY <1>2 DEF IsInjective
  <2>2. CASE i = 1 /\ j # 1
    BY <1>2, <1>3, <1>5, <2>1, <2>2
  <2>3. CASE i # 1 /\ j = 1
    BY <1>2, <1>3, <1>5, <2>1, <2>3
  <2>4. CASE i # 1 /\ j # 1
    BY <1>3, <1>4, <2>1, <2>4
  <2>5. QED
    BY <2>2, <2>3, <2>4
<1>7. ToSet(s) = ToSet(p) \union {f}
  <2>1. ToSet(s) = {s[i] : i \in 1..Len(s)} /\ ToSet(p) = {p[i] : i \in 1..Len(p)}
    BY SMTT(60), <1>2 DEF ToSet
  <2>2. ToSet(s) \subseteq ToSet(p) \union {f}
    BY <1>2, <1>3, <2>1
  <2>3. 1 \in 1..Len(s) /\ \A i \in 1..Len(p) : i + 1 \in 1..Len(s)
    BY <1>2
  <2>4. QED
    BY ZenonT(60), <1>2, <2>1, <2>2, <2>3
<1>8. QED
  BY <1>1, <1>2, <1>6, <1>7

\* A worker ends and the queue goes on; run() goes on when it was the last.
LEMMA WorkerEndsKeeps ==
  ASSUME RunInv, NEW f \in Files, flight[f].pc # "none", NEW state \in States, NEW back \in BOOLEAN,
         WorkerEnds(f, state, back), UNCHANGED <<pool, resolved>>,
         back => state = "queued",
         ~queue.stopped => back \/ state \in {"done", "failed"}
  PROVE  RunInv'
<1>1. /\ run \in Run /\ run.at = "transfer" /\ queue \in Queue /\ flight \in Workers /\ item \in Items
      /\ pool.busy = {} /\ Placed(queue, flight, item) /\ f \notin ToSet(queue.pending) /\ queue.made
      /\ resolved \subseteq Files /\ pool.todo \subseteq Entries
  <2>1. run.at = "transfer" /\ pool.busy = {} /\ Placed(queue, flight, item)
    BY DEF RunInv, StageInv, PlaceInv
  <2>2. f \notin ToSet(queue.pending)
    BY <2>1 DEF Placed
  <2>3. item[f] # "none"
    BY <2>1 DEF Placed, RunInv, RunTyped, Workers, Flight
  <2>4. QED
    BY <2>1, <2>2, <2>3 DEF RunInv, RunTyped, StageInv
<1>2. PICK p \in Seq(Files) : p = queue.pending /\ IsInjective(p) /\ f \notin ToSet(p)
  BY <1>1 DEF Queue, Placed
<1>3. PICK list \in Seq(Files) : /\ list = IF back THEN <<f>> \o p ELSE p
                                 /\ IsInjective(list)
                                 /\ ToSet(list) = IF back THEN ToSet(p) \union {f} ELSE ToSet(p)
  BY <1>2, PutFirst
<1>4. PICK q \in Queue : /\ q = [queue EXCEPT !.pending = IF back THEN <<f>> \o @ ELSE @]
                         /\ q.pending = list /\ q.made = queue.made /\ q.stopped = queue.stopped
  <2>1. [queue EXCEPT !.pending = IF back THEN <<f>> \o @ ELSE @] = [queue EXCEPT !.pending = list]
    BY <1>2, <1>3
  <2>2. QED
    BY <1>1, <1>3, <2>1 DEF Queue
<1>5. PICK workers \in Workers : /\ workers = [flight EXCEPT ![f] = NoFlight]
                                 /\ workers[f].pc = "none" /\ workers[f].why = "none"
                                 /\ \A g \in Files \ {f} : workers[g] = flight[g]
  <2>1. NoFlight \in Flight /\ NoFlight.pc = "none" /\ NoFlight.why = "none"
    BY DEF NoFlight, Flight
  <2>2. PICK new : new = [flight EXCEPT ![f] = NoFlight]
    OBVIOUS
  <2>3. new \in Workers /\ new[f] = NoFlight /\ \A g \in Files \ {f} : new[g] = flight[g]
    BY <1>1, <2>1, <2>2 DEF Workers
  <2>4. QED
    BY <2>1, <2>2, <2>3
<1>6. PICK states \in Items : /\ states = [item EXCEPT ![f] = state] /\ states[f] = state
                              /\ \A g \in Files \ {f} : states[g] = item[g]
  <2>1. PICK new : new = [item EXCEPT ![f] = state]
    OBVIOUS
  <2>2. new \in Items /\ new[f] = state /\ \A g \in Files \ {f} : new[g] = item[g]
    BY <1>1, <2>1 DEF Items
  <2>3. QED
    BY <2>1, <2>2
<1>7. Pump(q, workers, states) /\ GoesOn
  BY <1>4, <1>5, <1>6 DEF WorkerEnds
<1>8. Placed(q, workers, states)
  <2>1. Cardinality(BusyIn(workers)) <= Lanes
    <3>1. BusyIn(workers) \subseteq BusyIn(flight)
      BY <1>5 DEF BusyIn
    <3>2. IsFiniteSet(BusyIn(flight))
      BY RunParameters, FS_Subset DEF BusyIn
    <3>3. IsFiniteSet(BusyIn(workers)) /\ Cardinality(BusyIn(workers)) <= Cardinality(BusyIn(flight))
      BY <3>1, <3>2, FS_Subset
    <3>4. Cardinality(BusyIn(workers)) \in Nat /\ Cardinality(BusyIn(flight)) \in Nat
      BY <3>2, <3>3, FS_CardinalityType
    <3>5. QED
      BY <1>1, <3>3, <3>4, RunParameters DEF Placed
  <2>2. \A g \in ToSet(list) : workers[g].pc = "none" /\ states[g] = "queued"
    <3>1. SUFFICES ASSUME NEW g \in ToSet(list) PROVE workers[g].pc = "none" /\ states[g] = "queued"
      OBVIOUS
    <3>2. CASE g = f
      BY <1>2, <1>3, <1>5, <1>6, <3>1, <3>2
    <3>3. CASE g # f
      <4>1. g \in ToSet(queue.pending)
        BY <1>2, <1>3, <3>1, <3>3
      <4>2. g \in Files
        BY <1>3 DEF ToSet
      <4>3. QED
        BY <1>1, <1>5, <1>6, <3>3, <4>1, <4>2 DEF Placed
    <3>4. QED
      BY <3>2, <3>3
  <2>3. \A g \in Files : /\ workers[g].pc = "sending" => states[g] = "uploading"
                         /\ workers[g].pc = "recording" => states[g] = "done"
    BY <1>1, <1>5, <1>6 DEF Placed
  <2>4. QED
    BY <1>3, <1>4, <2>1, <2>2, <2>3 DEF Placed
<1>9. ~queue.stopped => Settling(q, workers, states)
  <2>1. SUFFICES ASSUME ~queue.stopped, NEW g \in Files, states[g] \in {"queued", "uploading", "cancelled"}
                 PROVE  g \in ToSet(q.pending) \/ workers[g].pc = "sending"
    BY DEF Settling
  <2>2. CASE g = f
    BY <1>3, <1>4, <1>6, <2>1, <2>2
  <2>3. CASE g # f
    <3>1. g \in ToSet(queue.pending) \/ flight[g].pc = "sending"
      BY <1>1, <1>6, <2>1, <2>3 DEF RunInv, SettledInv, Settling
    <3>2. QED
      BY <1>2, <1>3, <1>4, <1>5, <2>3, <3>1
  <2>4. QED
    BY <2>2, <2>3
<1>10. /\ queue' \in Queue /\ flight' \in Workers /\ item' \in Items
       /\ queue'.made /\ queue'.stopped = queue.stopped
       /\ Placed(queue', flight', item') /\ (~queue.stopped => Settling(queue', flight', item'))
       /\ \A g \in Files : flight'[g].why = "cancelled" => workers[g].why = "cancelled"
  BY <1>1, <1>4, <1>7, <1>8, <1>9, PumpKeeps
<1>11. PICK phase \in {"idle", "preparing", "transferring", "paused", "done", "cancelled"},
            at \in {"transfer", "note", "left"} :
         /\ run' = [run EXCEPT !.phase = phase, !.at = at]
         /\ phase = "cancelled" <=> run.phase = "cancelled"
         /\ at # "transfer" => IdleNext
  <2>1. run.phase \in {"idle", "preparing", "transferring", "paused", "done", "cancelled"}
    BY <1>1 DEF Run
  <2>2. CASE IdleNext
    <3>1. PICK phase \in {"idle", "preparing", "transferring", "paused", "done", "cancelled"} :
            phase = IF run.phase \in {"cancelled", "paused"} THEN run.phase ELSE "done"
      BY <2>1
    <3>2. PICK at \in {"note", "left"} : at = IF \E g \in Files : item'[g] = "done" THEN "note" ELSE "left"
      OBVIOUS
    <3>3. run' = [run EXCEPT !.phase = phase, !.at = at]
      BY <1>1, <1>7, <2>2, <3>1, <3>2 DEF GoesOn
    <3>4. QED
      BY <2>2, <3>1, <3>3
  <2>3. CASE ~IdleNext
    <3>1. run' = run
      BY <1>7, <2>3 DEF GoesOn
    <3>2. run = [run EXCEPT !.phase = run.phase, !.at = "transfer"]
      BY <1>1 DEF Run
    <3>3. QED
      BY <2>1, <3>1, <3>2
  <2>4. QED
    BY <2>2, <2>3
<1>12. run' \in Run /\ run'.phase = phase /\ run'.at = at
  BY <1>1, <1>11 DEF Run
<1>13. at # "transfer" => (\A g \in Files : flight'[g].pc = "none") /\ (queue'.pending = <<>> \/ queue.stopped)
  BY <1>11 DEF IdleNext
<1>14. RunTyped'
  BY <1>1, <1>10, <1>12 DEF RunTyped
<1>15. StageInv'
  BY <1>1, <1>10, <1>12, <1>13 DEF StageInv
<1>16. PlaceInv'
  BY <1>10 DEF PlaceInv
<1>17. SettledInv'
  <2>1. ASSUME at # "transfer", ~queue.stopped, NEW g \in Files
        PROVE  item'[g] \notin {"queued", "uploading", "cancelled"}
    <3>1. flight'[g].pc = "none" /\ queue'.pending = <<>>
      BY <1>13, <2>1
    <3>2. g \notin ToSet(queue'.pending)
      BY <3>1 DEF ToSet
    <3>3. QED
      BY <1>10, <2>1, <3>1, <3>2 DEF Settling
  <2>2. QED
    BY <1>10, <1>12, <2>1 DEF SettledInv
<1>18. FinalInv'
  <2>1. queue.stopped <=> run.phase = "cancelled"
    BY <1>1 DEF RunInv, FinalInv
  <2>2. \A g \in Files : workers[g].why = "cancelled" => queue.stopped
    BY <1>5 DEF RunInv, FinalInv
  <2>3. QED
    BY <1>10, <1>11, <1>12, <2>1, <2>2 DEF FinalInv
<1>19. QED
  BY <1>14, <1>15, <1>16, <1>17, <1>18 DEF RunInv

\* An upload ends, well or not, or its record is written.
LEMMA UploadKeeps == \A f \in Files : RunInv /\ (Uploaded(f) \/ Recorded(f) \/ SendFails(f)) => RunInv'
<1>1. SUFFICES ASSUME NEW f \in Files, RunInv, Uploaded(f) \/ Recorded(f) \/ SendFails(f) PROVE RunInv'
  OBVIOUS
<1>2. /\ flight \in Workers /\ flight[f] \in Flight /\ flight[f].pc # "none" /\ run.at = "transfer"
      /\ queue \in Queue /\ item \in Items
  BY <1>1 DEF RunInv, RunTyped, StageInv, Workers, Uploaded, Recorded, SendFails
<1>3. CASE Uploaded(f)
  <2>1. /\ flight[f].pc = "sending" /\ item' = [item EXCEPT ![f] = "done"]
        /\ flight' = [flight EXCEPT ![f].pc = "recording"] /\ UNCHANGED <<run, pool, resolved, queue>>
    BY <1>3 DEF Uploaded
  <2>2. PICK w \in Flight : w = [flight[f] EXCEPT !.pc = "recording"] /\ w.pc = "recording" /\ w.why = flight[f].why
    <3>1. PICK new : new = [flight[f] EXCEPT !.pc = "recording"]
      OBVIOUS
    <3>2. new \in Flight /\ new.pc = "recording" /\ new.why = flight[f].why
      BY <1>2, <3>1 DEF Flight
    <3>3. QED
      BY <3>1, <3>2
  <2>3. flight' = [flight EXCEPT ![f] = w]
    BY <1>2, <2>1, <2>2
  <2>4. /\ flight' \in Workers /\ flight'[f] = w /\ \A g \in Files \ {f} : flight'[g] = flight[g]
        /\ item' \in Items /\ item'[f] = "done" /\ \A g \in Files \ {f} : item'[g] = item[g]
    BY <1>2, <2>1, <2>3 DEF Workers, Items, States
  <2>5. BusyIn(flight') = BusyIn(flight)
    <3>1. flight'[f].pc # "none" /\ flight[f].pc # "none"
      BY <1>2, <2>2, <2>4
    <3>2. \A g \in Files : flight'[g].pc # "none" <=> flight[g].pc # "none"
      BY <2>4, <3>1
    <3>3. QED
      BY <3>2 DEF BusyIn
  <2>6. f \notin ToSet(queue.pending) /\ ToSet(queue.pending) \subseteq Files
    BY <1>1, <1>2 DEF RunInv, PlaceInv, Placed, Queue, ToSet
  <2>7. PlaceInv'
    BY ZenonT(60), <1>1, <2>1, <2>2, <2>4, <2>5, <2>6 DEF RunInv, PlaceInv, Placed
  <2>8. queue.made
    BY <1>1, <1>2, <2>1 DEF RunInv, StageInv, PlaceInv, Placed
  <2>9. RunTyped' /\ StageInv'
    BY <1>1, <1>2, <2>1, <2>4, <2>8 DEF RunInv, RunTyped, StageInv
  <2>10. SettledInv'
    BY <1>1, <1>2, <2>1, <2>4 DEF RunInv, SettledInv, Settling
  <2>11. FinalInv'
    BY <1>1, <2>1, <2>2, <2>4 DEF RunInv, FinalInv
  <2>12. QED
    BY <2>7, <2>9, <2>10, <2>11 DEF RunInv
<1>4. CASE Recorded(f)
  <2>1. WorkerEnds(f, "done", FALSE) /\ UNCHANGED <<pool, resolved>>
    BY <1>4 DEF Recorded
  <2>2. QED
    BY <1>1, <1>2, <2>1, WorkerEndsKeeps DEF States
<1>5. CASE SendFails(f)
  <2>1. Throws(f) /\ UNCHANGED <<pool, resolved>>
    BY <1>5 DEF SendFails
  <2>2. CASE flight[f].why = "none"
    <3>1. WorkerEnds(f, "failed", FALSE)
      BY <2>1, <2>2 DEF Throws
    <3>2. QED
      BY <1>1, <1>2, <2>1, <3>1, WorkerEndsKeeps DEF States
  <2>3. CASE flight[f].why # "none"
    <3>1. PICK state \in States : state = IF run.phase = "cancelled" THEN "cancelled" ELSE "queued"
      BY DEF States
    <3>2. PICK back \in BOOLEAN : back <=> flight[f].why = "paused" /\ ~queue.stopped
      OBVIOUS
    <3>3. Requeued(f) = back
      BY <3>2 DEF Requeued
    <3>4. WorkerEnds(f, state, back)
      BY <2>1, <2>3, <3>1, <3>3 DEF Throws
    <3>5. queue.stopped <=> run.phase = "cancelled"
      <4>1. item[f] # "none"
        BY <1>1, <1>2 DEF RunInv, PlaceInv, Placed, Flight
      <4>2. queue.made
        BY <1>1, <4>1 DEF RunInv, StageInv
      <4>3. QED
        BY <1>1, <4>2 DEF RunInv, FinalInv
    <3>6. ~queue.stopped => flight[f].why = "paused"
      BY <1>1, <1>2, <2>3 DEF RunInv, FinalInv, Flight
    <3>7. (back => state = "queued") /\ (~queue.stopped => back)
      BY <3>1, <3>2, <3>5, <3>6
    <3>8. QED
      BY <1>1, <1>2, <2>1, <3>4, <3>7, WorkerEndsKeeps
  <2>4. QED
    BY <2>2, <2>3
<1>6. QED
  BY <1>1, <1>3, <1>4, <1>5

\* What was sent is hashed, and run() returns.
LEMMA NotedKeeps == RunInv /\ Noted => RunInv'
<1>1. SUFFICES ASSUME RunInv, Noted PROVE RunInv'
  OBVIOUS
<1>2. /\ run \in Run /\ run.at = "note" /\ run' = [run EXCEPT !.at = "left"]
      /\ UNCHANGED <<pool, resolved, item, queue, flight>>
  BY <1>1 DEF Noted, RunInv, RunTyped
<1>3. run' \in Run /\ run'.at = "left" /\ run'.phase = run.phase
  BY <1>2 DEF Run
<1>4. RunTyped' /\ StageInv' /\ PlaceInv'
  BY <1>1, <1>2, <1>3 DEF RunInv, RunTyped, StageInv, PlaceInv
<1>5. SettledInv' /\ FinalInv'
  BY <1>1, <1>2, <1>3 DEF RunInv, SettledInv, FinalInv
<1>6. QED
  BY <1>4, <1>5 DEF RunInv

\* A button changes the phase, and not where run() is.
LEMMA TapsFields ==
  ASSUME RunInv, NEW phase \in {"paused", "transferring", "cancelled"}, Taps(phase)
  PROVE  run' \in Run /\ run'.phase = phase /\ run'.at = run.at
<1>1. run \in Run /\ run.taps \in 0..MaxTaps /\ run.taps < MaxTaps
  BY DEF RunInv, RunTyped, Run, Taps
<1>2. PICK taps \in 0..MaxTaps : taps = run.taps + 1
  BY <1>1, RunParameters
<1>3. run' = [run EXCEPT !.phase = phase, !.taps = taps]
  BY <1>2 DEF Taps
<1>4. QED
  BY <1>1, <1>3 DEF Run

\* An abort leaves the workers where they are, with a reason.
LEMMA AbortedFields ==
  ASSUME flight \in Workers, NEW why \in {"paused", "cancelled"}, Aborted(why)
  PROVE  /\ flight' \in Workers /\ BusyIn(flight') = BusyIn(flight)
         /\ \A f \in Files : flight'[f].pc = flight[f].pc /\ flight'[f].why \in {flight[f].why, why}
<1>1. ASSUME NEW f \in Files
      PROVE  flight'[f] \in Flight /\ flight'[f].pc = flight[f].pc /\ flight'[f].why \in {flight[f].why, why}
  <2>1. flight[f] \in Flight
    BY DEF Workers
  <2>2. PICK w \in Flight : w = [flight[f] EXCEPT !.why = why] /\ w.pc = flight[f].pc /\ w.why = why
    <3>1. PICK new : new = [flight[f] EXCEPT !.why = why]
      OBVIOUS
    <3>2. new \in Flight /\ new.pc = flight[f].pc /\ new.why = why
      BY <2>1, <3>1 DEF Flight
    <3>3. QED
      BY <3>1, <3>2
  <2>3. flight'[f] = IF f \in InFlight /\ flight[f].why = "none" THEN w ELSE flight[f]
    BY <2>2 DEF Aborted
  <2>4. QED
    BY <2>1, <2>2, <2>3
<1>2. flight' \in Workers
  <2>1. flight' = [f \in Files |-> flight'[f]]
    BY DEF Aborted
  <2>2. QED
    BY <1>1, <2>1 DEF Workers
<1>3. BusyIn(flight') = BusyIn(flight)
  BY <1>1 DEF BusyIn
<1>4. QED
  BY <1>1, <1>2, <1>3

\* The user pauses.
LEMMA PauseKeeps == RunInv /\ Pause => RunInv'
<1>1. SUFFICES ASSUME RunInv, Pause PROVE RunInv'
  OBVIOUS
<1>2. run' \in Run /\ run'.phase = "paused" /\ run'.at = run.at
  BY <1>1, TapsFields DEF Pause
<1>3. /\ run.phase = "transferring" /\ queue' = [queue EXCEPT !.paused = TRUE] /\ UNCHANGED <<pool, resolved, item>>
      /\ queue \in Queue /\ flight \in Workers
  BY <1>1 DEF Pause, RunInv, RunTyped
<1>4. /\ flight' \in Workers /\ BusyIn(flight') = BusyIn(flight)
      /\ \A f \in Files : flight'[f].pc = flight[f].pc /\ flight'[f].why \in {flight[f].why, "paused"}
  BY <1>1, <1>3, AbortedFields DEF Pause
<1>5. queue' \in Queue /\ queue'.pending = queue.pending /\ queue'.made = queue.made /\ queue'.stopped = queue.stopped
  <2>1. PICK paused \in BOOLEAN : paused = TRUE
    OBVIOUS
  <2>2. queue' = [queue EXCEPT !.paused = paused]
    BY <1>3, <2>1
  <2>3. QED
    BY <1>3, <2>2 DEF Queue
<1>6. RunTyped' /\ StageInv'
  BY <1>1, <1>2, <1>3, <1>4, <1>5 DEF RunInv, RunTyped, StageInv
<1>7. ToSet(queue.pending) \subseteq Files
  BY <1>3 DEF Queue, ToSet
<1>8. PlaceInv'
  BY <1>1, <1>3, <1>4, <1>5, <1>7 DEF RunInv, PlaceInv, Placed
<1>9. SettledInv'
  BY <1>1, <1>2, <1>3, <1>4, <1>5 DEF RunInv, SettledInv, Settling
<1>10. FinalInv'
  BY <1>1, <1>2, <1>3, <1>4, <1>5 DEF RunInv, FinalInv
<1>11. QED
  BY <1>6, <1>8, <1>9, <1>10 DEF RunInv

\* The user resumes.
LEMMA ResumeKeeps == RunInv /\ Resume => RunInv'
<1>1. SUFFICES ASSUME RunInv, Resume PROVE RunInv'
  OBVIOUS
<1>2. run' \in Run /\ run'.phase = "transferring" /\ run'.at = run.at
  BY <1>1, TapsFields DEF Resume
<1>3. /\ run.phase = "paused" /\ UNCHANGED <<pool, resolved>> /\ queue \in Queue /\ flight \in Workers /\ item \in Items
      /\ Placed(queue, flight, item) /\ ~queue.stopped
  BY <1>1 DEF Resume, RunInv, RunTyped, PlaceInv, StageInv, FinalInv
<1>4. PICK q \in Queue : /\ q = [queue EXCEPT !.paused = FALSE] /\ q.pending = queue.pending
                         /\ q.made = queue.made /\ q.stopped = queue.stopped
  <2>1. PICK paused \in BOOLEAN : paused = FALSE
    OBVIOUS
  <2>2. PICK new : new = [queue EXCEPT !.paused = paused]
    OBVIOUS
  <2>3. /\ new \in Queue /\ new.pending = queue.pending /\ new.made = queue.made
        /\ new.stopped = queue.stopped
    BY <1>3, <2>2 DEF Queue
  <2>4. QED
    BY <2>1, <2>2, <2>3
<1>5. Placed(q, flight, item) /\ Pump(q, flight, item)
  BY <1>1, <1>3, <1>4 DEF Resume, Placed
<1>6. /\ queue' \in Queue /\ flight' \in Workers /\ item' \in Items
      /\ queue'.made = queue.made /\ ~queue'.stopped /\ Placed(queue', flight', item')
      /\ Settling(q, flight, item) => Settling(queue', flight', item')
      /\ \A f \in Files : flight'[f].why = "cancelled" => flight[f].why = "cancelled"
      /\ ToSet(queue'.pending) \subseteq ToSet(queue.pending)
      /\ \A f \in Files \ ToSet(queue.pending) : flight'[f] = flight[f] /\ item'[f] = item[f]
  <2>1. /\ queue' \in Queue /\ flight' \in Workers /\ item' \in Items
        /\ queue'.made = q.made /\ queue'.stopped = q.stopped
    BY <1>3, <1>5, PumpKeeps
  <2>2. /\ Placed(queue', flight', item')
        /\ Settling(q, flight, item) => Settling(queue', flight', item')
    BY <1>3, <1>5, PumpKeeps
  <2>3. /\ \A f \in Files : flight'[f].why = "cancelled" => flight[f].why = "cancelled"
        /\ ToSet(queue'.pending) \subseteq ToSet(q.pending)
        /\ \A f \in Files \ ToSet(q.pending) : flight'[f] = flight[f] /\ item'[f] = item[f]
    BY <1>3, <1>5, PumpKeeps
  <2>4. QED
    BY <1>3, <1>4, <2>1, <2>2, <2>3
<1>7. ~queue.made \/ run.at \in {"note", "left"} => \A f \in Files : f \notin ToSet(queue.pending)
  <2>1. ~queue.made => queue.pending = <<>>
    BY <1>1 DEF RunInv, StageInv
  <2>2. ~queue.made => ToSet(queue.pending) = {}
    BY <2>1 DEF ToSet
  <2>3. run.at \in {"note", "left"} => \A f \in Files : item[f] # "queued"
    BY <1>1, <1>3 DEF RunInv, SettledInv
  <2>4. QED
    BY <1>3, <2>2, <2>3 DEF Placed
<1>8. RunTyped'
  BY <1>1, <1>2, <1>3, <1>6 DEF RunInv, RunTyped
<1>9. StageInv'
  <2>1. ASSUME ~queue.made
        PROVE  queue'.pending = <<>> /\ \A f \in Files : item'[f] = "none"
    <3>1. PICK p \in Seq(Files) : p = queue'.pending
      BY <1>6 DEF Queue
    <3>2. ToSet(p) \subseteq Files
      BY DEF ToSet
    <3>3. ToSet(p) = {}
      BY <1>6, <1>7, <2>1, <3>1, <3>2
    <3>4. p = <<>>
      <4>1. \A i \in 1..Len(p) : p[i] \in ToSet(p)
        BY DEF ToSet
      <4>2. Len(p) = 0
        BY <3>3, <4>1
      <4>3. QED
        BY <4>2
    <3>5. QED
      BY <1>1, <1>6, <1>7, <2>1, <3>1, <3>4 DEF RunInv, StageInv
  <2>2. run.at \in {"connect", "prepare", "plan"} => ~queue.made
    BY <1>1 DEF RunInv, StageInv
  <2>3. run.at \in {"connect", "prepare", "plan", "transfer", "note", "left"}
    BY <1>1 DEF RunInv, RunTyped, Run
  <2>4. run.at # "transfer" => \A f \in Files : flight'[f].pc = "none"
    BY <1>1, <1>6, <1>7, <2>2, <2>3 DEF RunInv, StageInv
  <2>5. QED
    BY <1>1, <1>2, <1>3, <1>6, <2>1, <2>2, <2>4 DEF RunInv, StageInv
<1>10. PlaceInv'
  BY <1>6 DEF PlaceInv
<1>11. SettledInv'
  <2>1. run.at = "transfer" => Settling(queue', flight', item')
    BY <1>1, <1>3, <1>4, <1>6 DEF RunInv, SettledInv, Settling
  <2>2. run.at \in {"note", "left"} => \A f \in Files : item'[f] = item[f]
    BY <1>6, <1>7
  <2>3. QED
    BY <1>1, <1>2, <1>3, <2>1, <2>2 DEF RunInv, SettledInv
<1>12. FinalInv'
  BY <1>1, <1>2, <1>3, <1>6 DEF RunInv, FinalInv
<1>13. QED
  BY <1>8, <1>9, <1>10, <1>11, <1>12 DEF RunInv

\* The user cancels.
LEMMA CancelRunKeeps == RunInv /\ CancelRun => RunInv'
<1>1. SUFFICES ASSUME RunInv, CancelRun PROVE RunInv'
  OBVIOUS
<1>2. run' \in Run /\ run'.phase = "cancelled" /\ run'.at = run.at
  BY <1>1, TapsFields DEF CancelRun
<1>3. UNCHANGED <<pool, resolved, item>> /\ queue \in Queue /\ flight \in Workers
  BY <1>1 DEF CancelRun, RunInv, RunTyped
<1>4. CASE queue.made
  <2>1. queue' = [queue EXCEPT !.stopped = TRUE, !.pending = <<>>] /\ Aborted("cancelled")
    BY <1>1, <1>4 DEF CancelRun
  <2>2. /\ flight' \in Workers /\ BusyIn(flight') = BusyIn(flight)
        /\ \A f \in Files : flight'[f].pc = flight[f].pc
    BY <1>3, <2>1, AbortedFields
  <2>3. /\ queue' \in Queue /\ queue'.pending = <<>> /\ queue'.made /\ queue'.stopped
    <3>1. PICK stopped \in BOOLEAN : stopped = TRUE
      OBVIOUS
    <3>2. PICK none : none = <<>> /\ none \in Seq(Files)
      <4>1. <<>> \in Seq(Files)
        OBVIOUS
      <4>2. QED
        BY <4>1
    <3>3. queue' = [queue EXCEPT !.stopped = stopped, !.pending = none]
      BY <2>1, <3>1, <3>2
    <3>4. queue' \in Queue /\ queue'.pending = none /\ queue'.made = queue.made /\ queue'.stopped = stopped
      BY <1>3, <3>2, <3>3 DEF Queue
    <3>5. QED
      BY <1>4, <3>1, <3>2, <3>4
  <2>4. IsInjective(queue'.pending) /\ ToSet(queue'.pending) = {}
    BY <2>3 DEF IsInjective, ToSet
  <2>5. RunTyped' /\ StageInv'
    BY <1>1, <1>2, <1>3, <1>4, <2>2, <2>3 DEF RunInv, RunTyped, StageInv
  <2>6. PlaceInv'
    BY <1>1, <1>3, <2>2, <2>4 DEF RunInv, PlaceInv, Placed
  <2>7. SettledInv' /\ FinalInv'
    BY <1>2, <2>3 DEF SettledInv, FinalInv
  <2>8. QED
    BY <2>5, <2>6, <2>7 DEF RunInv
<1>5. CASE ~queue.made
  <2>1. UNCHANGED <<queue, flight>>
    BY <1>1, <1>5 DEF CancelRun
  <2>2. RunTyped' /\ StageInv' /\ PlaceInv'
    BY <1>1, <1>2, <1>3, <2>1 DEF RunInv, RunTyped, StageInv, PlaceInv
  <2>3. SettledInv' /\ FinalInv'
    BY <1>1, <1>2, <1>3, <1>5, <2>1 DEF RunInv, SettledInv, FinalInv
  <2>4. QED
    BY <2>2, <2>3 DEF RunInv
<1>6. QED
  BY <1>4, <1>5

-----------------------------------------------------------------------------
\* In every reachable state the queue, its workers and the items of a run agree.
THEOREM RunIsSound == TransferSpec => []RunInv
<1>1. RunInv /\ UNCHANGED transferVars => RunInv'
  <2>1. SUFFICES ASSUME RunInv, UNCHANGED <<run, pool, resolved, item, queue, flight>> PROVE RunInv'
    BY DEF transferVars
  <2>2. RunTyped' /\ StageInv' /\ PlaceInv'
    BY <2>1 DEF RunInv, RunTyped, StageInv, PlaceInv
  <2>3. SettledInv' /\ FinalInv'
    BY <2>1 DEF RunInv, SettledInv, FinalInv
  <2>4. QED
    BY <2>2, <2>3 DEF RunInv
<1>2. RunInv /\ TransferNext => RunInv'
  BY ConnectedKeeps, ResolveKeeps, PlanKeeps, UploadKeeps, NotedKeeps, PauseKeeps, ResumeKeeps, CancelRunKeeps
     DEF TransferNext, RunStep
<1>3. QED
  BY <1>1, <1>2, RunStarts, PTL DEF TransferSpec

\* The invariant of the runs: every file is in one place, nothing is dropped while the queue
\* goes on, and a cancel that found the queue is final.
THEOREM FilesAreInOnePlace == TransferSpec => []NothingIsDropped
<1>1. RunInv => NothingIsDropped
  <2>1. SUFFICES ASSUME RunInv PROVE NothingIsDropped
    OBVIOUS
  <2>2. /\ queue \in Queue /\ flight \in Workers /\ Placed(queue, flight, item) /\ InFlight = BusyIn(flight)
        /\ ToSet(queue.pending) \subseteq Files
    BY <2>1 DEF RunInv, RunTyped, PlaceInv, InFlight, BusyIn, Queue, ToSet
  <2>3. Cardinality(ToSet(queue.pending)) = Len(queue.pending)
    BY <2>2, InjectiveLength DEF Queue, Placed
  <2>4. /\ ToSet(queue.pending) \intersect InFlight = {} /\ Cardinality(InFlight) <= Lanes
        /\ \A f \in ToSet(queue.pending) : item[f] = "queued"
    BY <2>2 DEF Placed, BusyIn
  <2>5. ASSUME run.at = "transfer", ~queue.stopped
        PROVE  {f \in Files : item[f] \in {"queued", "uploading", "cancelled"}} =
                 ToSet(queue.pending) \union {f \in InFlight : flight[f].pc = "sending"}
    <3>1. Settling(queue, flight, item)
      BY <2>1, <2>5 DEF RunInv, SettledInv
    <3>2. QED
      BY <2>2, <3>1 DEF Settling, Placed, BusyIn
  <2>6. run.at \in {"note", "left"} /\ ~queue.stopped =>
          {f \in Files : item[f] \in {"queued", "uploading", "cancelled"}} = {}
    BY <2>1 DEF RunInv, SettledInv
  <2>7. queue.stopped => run.phase = "cancelled"
    BY <2>1 DEF RunInv, StageInv, FinalInv
  <2>8. QED
    BY <2>3, <2>4, <2>5, <2>6, <2>7 DEF NothingIsDropped
<1>2. QED
  BY <1>1, RunIsSound, PTL

(***************************************************************************)
(* The whole.                                                              *)
(***************************************************************************)

\* Whatever part moves, each of the parts does what it does by itself, or nothing.
THEOREM PartsRunAlone ==
  Spec => PairingSpec /\ DiscoverySpec /\ ResponderSpec /\ RaceSpec /\ TransferSpec
<1>1. Init => PairingInit /\ DiscoveryInit /\ ResponderInit /\ RaceInit /\ TransferInit
  BY DEF Init
<1>2. [Next]_vars => /\ [PairingNext]_pairingVars /\ [DiscoveryNext]_scanVars /\ [ResponderNext]_responderVars
                     /\ [RaceNext]_raceVars /\ [TransferNext]_transferVars
  <2>1. UNCHANGED vars => UNCHANGED <<pairingVars, scanVars, responderVars, raceVars, transferVars>>
    BY DEF vars
  <2>2. QED
    BY <2>1 DEF Next, Pairs, Scans, Responds, Racing, Sending
<1>3. QED
  BY <1>1, <1>2, PTL DEF Spec, PairingSpec, DiscoverySpec, ResponderSpec, RaceSpec, TransferSpec

\* The way of a phone from its search to its files, as the runs check it: what is found is
\* there, what answers stays in its budget, a code pairs one phone and a dead token none, one
\* connection is left open, and no file is lost between the buttons and the lanes.
THEOREM ReachIsSound ==
  Spec => /\ [](ScanIsRight /\ AnswersAreInBudget /\ RaceKeepsOne /\ LastGoodFirst /\ NothingIsDropped)
          /\ CodesAreSpent /\ RevokedStaysOut
<1>1. Spec => [](ScanIsRight /\ AnswersAreInBudget /\ RaceKeepsOne /\ LastGoodFirst /\ NothingIsDropped)
  BY PartsRunAlone, ScansAreRight, BudgetIsKept, RaceLeavesOne, RacePromotes, FilesAreInOnePlace, PTL
<1>2. Spec => CodesAreSpent /\ RevokedStaysOut
  BY PartsRunAlone, PairingSpendsCodes, PairingKeepsRevokedOut, PTL
<1>3. QED
  BY <1>1, <1>2

=============================================================================
