--------------------------- MODULE FrontendsProofs ---------------------------
(***************************************************************************)
(* The front ends on one state directory: proofs for any number of         *)
(* daemons, handles, ports, migrations, transfers and events.              *)
(***************************************************************************)
EXTENDS Frontends, SequenceTheorems, TLAPS

(***************************************************************************)
(* The live view.                                                          *)
(*                                                                         *)
(* The events that are queued lead from the view that is shown to one that *)
(* agrees with what has moved, for every transfer none of whose events was *)
(* dropped.  When the queue is empty it is the view that is shown; and as  *)
(* no event takes bytes back, the view that is shown has counted no more.  *)
(***************************************************************************)

Views == [active: UNION {[S -> 0..Size] : S \in SUBSET Transfers}, counted: [Transfers -> Nat]]

Has(v, t)    == t \in DOMAIN v.active
Before(v, t) == IF Has(v, t) THEN v.active[t] ELSE 0
Counts(v, e) == [v.counted EXCEPT ![e.of] = @ + Later(e.offset, Before(v, e.of)) - Before(v, e.of)]
Puts(v, t, o) == [a \in DOMAIN v.active \union {t} |-> IF a = t THEN o ELSE v.active[a]]
Drops(v, t)  == [a \in DOMAIN v.active \ {t} |-> v.active[a]]

\* Fold, of any view.
Folded(v, e) ==
  CASE e.kind = "started" ->
         IF Has(v, e.of) THEN v ELSE [v EXCEPT !.active = Puts(v, e.of, e.offset)]
    [] e.kind = "progress" ->
         [v EXCEPT !.active = Puts(v, e.of, Later(e.offset, Before(v, e.of))), !.counted = Counts(v, e)]
    [] OTHER -> [v EXCEPT !.active = Drops(v, e.of), !.counted = Counts(v, e)]

\* Which transfers have a row: those under way, and no others but some that are cut or swept.
Shown(v, t, m, seen) ==
  /\ m.st \in {"moving", "flushed"} \/ (m.st = "cut" /\ t \in Fetches) => Has(v, t)
  /\ m.st \in {"none", "over", "cancelled"} => ~Has(v, t)
  /\ seen => Has(v, t) /\ m.st \in {"cut", "moving", "flushed"}

\* How far a row is.  A file that is collected once more may be behind what the phone has.
Reached(v, t, m) ==
  /\ m.st = "none" => m.has = 0
  /\ m.st = "over" /\ t \in Fetches => m.has = Size
  /\ Has(v, t) => v.active[t] <= m.has
  /\ m.st = "cut" /\ Has(v, t) /\ (t \in Uploads \/ m.has < Size) => v.active[t] = m.has
  /\ m.st = "moving" =>
       /\ m.from <= m.at /\ m.at <= m.has /\ m.from < Size
       /\ t \in Uploads => m.at = m.has /\ (m.at = m.from => v.active[t] = m.has)
       /\ t \in Fetches /\ m.has < Size => Later(m.at, v.active[t]) = m.has
  /\ m.st = "flushed" => m.has = Size /\ v.active[t] = Size

\* What is counted, and what a report of the running request would add, has moved.
Moved(v, t, m) ==
  /\ m.st # "cancelled" => v.counted[t] <= m.bytes
  /\ m.st = "moving" => v.counted[t] + Later(m.at, v.active[t]) - v.active[t] <= m.bytes

Agrees(v, t, m, seen) == Shown(v, t, m, seen) /\ Reached(v, t, m) /\ Moved(v, t, m)

\* V is the views the queued events lead to, one by one.
Foreseen(V) ==
  /\ Len(V) = Len(queue) + 1 /\ V[1] = table
  /\ \A i \in 1..Len(queue) : V[i + 1] = Folded(V[i], queue[i])
  /\ \A i \in 1..Len(V), t \in Transfers : V[i].counted[t] <= V[Len(V)].counted[t]
  /\ \A t \in Transfers \ dropped : Agrees(V[Len(V)], t, moved[t], t \in announced)

LiveTyped ==
  /\ moved \in [Transfers -> Transfer] /\ announced \subseteq Uploads
  /\ queue \in Seq(Event) /\ Len(queue) <= Buffer
  /\ dropped \subseteq Transfers /\ table \in Views

LiveInv == LiveTyped /\ \E V \in Seq(Views) : Foreseen(V)

-----------------------------------------------------------------------------
\* The parameters, and the fields of events and transfers.
LEMMA LiveParameters == Size \in Nat \ {0} /\ Buffer \in Nat \ {0} /\ MaxBytes \in Nat
BY LiveAssumption

\* Rows are a function on some of the transfers.
LEMMA ViewFields ==
  ASSUME NEW v \in Views
  PROVE  /\ v = [active |-> v.active, counted |-> v.counted]
         /\ DOMAIN v.active \subseteq Transfers /\ v.active \in [DOMAIN v.active -> 0..Size]
         /\ v.counted \in [Transfers -> Nat]
         /\ \A t \in Transfers : Before(v, t) \in 0..Size
<1>1. /\ v = [active |-> v.active, counted |-> v.counted] /\ v.counted \in [Transfers -> Nat]
      /\ v.active \in UNION {[S -> 0..Size] : S \in SUBSET Transfers}
  BY DEF Views
<1>2. PICK S \in SUBSET Transfers : v.active \in [S -> 0..Size]
  BY <1>1
<1>3. S = DOMAIN v.active
  BY <1>2
<1>4. \A t \in Transfers : Before(v, t) \in 0..Size
  BY <1>2, <1>3, LiveParameters DEF Before, Has
<1>5. QED
  BY <1>1, <1>2, <1>3, <1>4

\* A view has the rows and the counts it is made of.
LEMMA ViewOf ==
  ASSUME NEW S \in SUBSET Transfers, NEW rows \in [S -> 0..Size], NEW counts \in [Transfers -> Nat]
  PROVE  [active |-> rows, counted |-> counts] \in Views
BY DEF Views

\* Folding an event touches the row and the count of its transfer, and takes no bytes back.
LEMMA FoldedEffect ==
  ASSUME NEW v \in Views, NEW e \in Event, NEW w, w = Folded(v, e)
  PROVE  /\ w \in Views
         /\ \A t \in Transfers \ {e.of} : /\ Has(w, t) <=> Has(v, t)
                                          /\ Has(v, t) => w.active[t] = v.active[t]
                                          /\ w.counted[t] = v.counted[t]
         /\ \A t \in Transfers : v.counted[t] <= w.counted[t]
         /\ e.kind = "started" => /\ Has(w, e.of) /\ w.counted[e.of] = v.counted[e.of]
                                  /\ w.active[e.of] = IF Has(v, e.of) THEN v.active[e.of] ELSE e.offset
         /\ e.kind = "progress" => /\ Has(w, e.of)
                                   /\ w.active[e.of] = Later(e.offset, Before(v, e.of))
         /\ e.kind \in {"finished", "failed"} => ~Has(w, e.of)
         /\ e.kind # "started" => w.counted[e.of] = v.counted[e.of] + Later(e.offset, Before(v, e.of)) - Before(v, e.of)
<1> DEFINE t == e.of
<1>1. /\ t \in Transfers /\ e.offset \in 0..Size /\ e.kind \in {"started", "progress", "finished", "failed"}
      /\ Later(e.offset, Before(v, t)) \in 0..Size /\ Later(e.offset, Before(v, t)) >= Before(v, t)
      /\ Before(v, t) \in 0..Size
  BY ViewFields, LiveParameters DEF Event, Later
<1>2. /\ Counts(v, e) \in [Transfers -> Nat]
      /\ Counts(v, e)[t] = v.counted[t] + Later(e.offset, Before(v, t)) - Before(v, t)
      /\ \A u \in Transfers \ {t} : Counts(v, e)[u] = v.counted[u]
      /\ \A u \in Transfers : v.counted[u] <= Counts(v, e)[u]
  <2>1. v.counted \in [Transfers -> Nat]
    BY ViewFields
  <2>2. PICK more \in Nat : more = Later(e.offset, Before(v, t)) - Before(v, t)
    BY <1>1, LiveParameters
  <2>3. v.counted[t] + Later(e.offset, Before(v, t)) - Before(v, t) = v.counted[t] + more
    BY <1>1, <2>1, <2>2, LiveParameters
  <2>4. Counts(v, e) = [v.counted EXCEPT ![t] = v.counted[t] + more]
    BY <2>1, <2>3 DEF Counts
  <2>5. QED
    BY <1>1, <2>1, <2>3, <2>4
<1>3. \A o \in 0..Size : /\ Puts(v, t, o) \in [DOMAIN v.active \union {t} -> 0..Size]
                         /\ Puts(v, t, o)[t] = o
                         /\ \A u \in DOMAIN v.active \ {t} : Puts(v, t, o)[u] = v.active[u]
  BY ViewFields DEF Puts
<1>4. /\ Drops(v, t) \in [DOMAIN v.active \ {t} -> 0..Size]
      /\ \A u \in DOMAIN v.active \ {t} : Drops(v, t)[u] = v.active[u]
  BY ViewFields DEF Drops
<1>5. /\ DOMAIN v.active \subseteq Transfers /\ v.counted \in [Transfers -> Nat]
      /\ v = [active |-> v.active, counted |-> v.counted]
  BY ViewFields
<1>6. CASE e.kind = "started" /\ Has(v, t)
  <2>1. w = v
    BY <1>6 DEF Folded
  <2>2. QED
    BY <1>5, <1>6, <2>1
<1>7. CASE e.kind = "started" /\ ~Has(v, t)
  <2>1. w = [active |-> Puts(v, t, e.offset), counted |-> v.counted]
    BY <1>5, <1>7 DEF Folded
  <2>2. DOMAIN v.active \union {t} \in SUBSET Transfers
    BY <1>1, <1>5
  <2>3. w \in Views
    <3>1. Puts(v, t, e.offset) \in [DOMAIN v.active \union {t} -> 0..Size] /\ v.counted \in [Transfers -> Nat]
      BY <1>1, <1>3, <1>5
    <3>2. QED
      BY <2>1, <2>2, <3>1, ViewOf
  <2>4. w.active = Puts(v, t, e.offset) /\ w.counted = v.counted /\ DOMAIN w.active = DOMAIN v.active \union {t}
    BY <1>1, <1>3, <2>1
  <2>5. Has(w, t) /\ w.active[t] = e.offset
    BY <1>1, <1>3, <2>4 DEF Has
  <2>6. \A u \in Transfers \ {t} : (Has(w, u) <=> Has(v, u)) /\ (Has(v, u) => w.active[u] = v.active[u])
    BY <1>1, <1>3, <2>4 DEF Has
  <2>7. \A u \in Transfers : v.counted[u] \in Nat /\ w.counted[u] = v.counted[u]
    BY <1>5, <2>4
  <2>8. QED
    BY <1>1, <1>7, <2>3, <2>5, <2>6, <2>7
<1>8. CASE e.kind = "progress"
  <2> DEFINE o == Later(e.offset, Before(v, t))
  <2>1. w = [active |-> Puts(v, t, o), counted |-> Counts(v, e)]
    BY <1>5, <1>8 DEF Folded
  <2>2. DOMAIN v.active \union {t} \in SUBSET Transfers
    BY <1>1, <1>5
  <2>3. w \in Views
    <3>1. Puts(v, t, o) \in [DOMAIN v.active \union {t} -> 0..Size]
      BY <1>1, <1>3
    <3>2. Counts(v, e) \in [Transfers -> Nat]
      BY <1>2
    <3>3. QED
      BY <2>1, <2>2, <3>1, <3>2, ViewOf
  <2>4. w.active = Puts(v, t, o) /\ w.counted = Counts(v, e) /\ DOMAIN w.active = DOMAIN v.active \union {t}
    BY <1>1, <1>3, <2>1
  <2>5. Has(w, t) /\ w.active[t] = o
    BY <1>1, <1>3, <2>4 DEF Has
  <2>6. \A u \in Transfers \ {t} : (Has(w, u) <=> Has(v, u)) /\ (Has(v, u) => w.active[u] = v.active[u])
    BY <1>1, <1>3, <2>4 DEF Has
  <2>7. QED
    BY <1>2, <1>8, <2>3, <2>4, <2>5, <2>6
<1>9. CASE e.kind \in {"finished", "failed"}
  <2>1. w = [active |-> Drops(v, t), counted |-> Counts(v, e)]
    BY <1>5, <1>9 DEF Folded
  <2>2. DOMAIN v.active \ {t} \in SUBSET Transfers
    BY <1>5
  <2>3. w \in Views
    BY <1>2, <1>4, <2>1, <2>2, ViewOf
  <2>4. w.active = Drops(v, t) /\ w.counted = Counts(v, e) /\ DOMAIN w.active = DOMAIN v.active \ {t}
    BY <1>4, <2>1
  <2>5. ~Has(w, t) /\ \A u \in Transfers \ {t} : (Has(w, u) <=> Has(v, u)) /\ (Has(v, u) => w.active[u] = v.active[u])
    BY <1>4, <2>4 DEF Has
  <2>6. QED
    BY <1>2, <1>9, <2>3, <2>4, <2>5
<1>10. QED
  BY <1>1, <1>6, <1>7, <1>8, <1>9

\* Fold is Folded, of the view that is shown.
LEMMA FoldIsFolded ==
  ASSUME NEW e
  PROVE  Fold(e) = Folded(table, e)
BY DEF Fold, Folded, With, Puts, Without, Drops, Advance, Counts, From, Before, Row, Has

\* A transfer another's event is folded for agrees as before.
LEMMA OthersAgree ==
  ASSUME NEW v \in Views, NEW e \in Event, NEW t \in Transfers \ {e.of}, NEW m, NEW seen,
         Agrees(v, t, m, seen)
  PROVE  Agrees(Folded(v, e), t, m, seen)
<1>1. PICK w : w = Folded(v, e)
  OBVIOUS
<1>2. /\ Has(w, t) <=> Has(v, t)
      /\ Has(v, t) => w.active[t] = v.active[t]
      /\ w.counted[t] = v.counted[t]
  BY <1>1, FoldedEffect
<1>3. Shown(w, t, m, seen)
  BY <1>2 DEF Agrees, Shown
<1>4. Reached(w, t, m)
  BY <1>2 DEF Agrees, Shown, Reached
<1>5. Moved(w, t, m)
  BY <1>2 DEF Agrees, Shown, Moved
<1>6. QED
  BY <1>1, <1>3, <1>4, <1>5 DEF Agrees

\* A step of one transfer that publishes nothing.
LEMMA QuietKeeps ==
  ASSUME LiveInv, NEW t \in Transfers, NEW m \in Transfer, Quiet, UNCHANGED table,
         moved' = [moved EXCEPT ![t] = m],
         announced' \subseteq Uploads, announced' \ {t} = announced \ {t},
         \A v \in Views : Agrees(v, t, moved[t], t \in announced) => Agrees(v, t, m, t \in announced')
  PROVE  LiveInv'
<1>1. PICK V \in Seq(Views) : Foreseen(V)
  BY DEF LiveInv
<1>2. LiveTyped /\ LiveTyped'
  BY DEF LiveInv, LiveTyped, Quiet
<1>3. V[Len(V)] \in Views
  BY <1>1, <1>2 DEF Foreseen, LiveTyped
<1>4. ASSUME NEW u \in Transfers \ dropped
      PROVE  Agrees(V[Len(V)], u, moved[u], u \in announced)'
  <2>1. Agrees(V[Len(V)], u, moved[u], u \in announced)
    BY <1>1 DEF Foreseen
  <2>2. CASE u = t
    BY <1>2, <1>3, <2>1, <2>2 DEF LiveTyped, Agrees, Shown, Reached, Moved, Has, Before
  <2>3. CASE u # t
    <3>1. moved'[u] = moved[u] /\ (u \in announced' <=> u \in announced)
      BY <1>2, <2>3 DEF LiveTyped
    <3>2. QED
      BY <2>1, <3>1 DEF Agrees, Shown, Reached, Moved, Has, Before
  <2>4. QED
    BY <2>2, <2>3
<1>5. Foreseen(V)'
  BY <1>1, <1>4 DEF Foreseen, Quiet
<1>6. QED
  BY <1>1, <1>2, <1>5 DEF LiveInv

\* A step of one transfer that publishes an event.
LEMMA PublishKeeps ==
  ASSUME LiveInv, NEW t \in Transfers, NEW m \in Transfer, UNCHANGED table,
         NEW kind \in {"started", "progress", "finished", "failed"}, NEW o \in 0..Size,
         Publish(kind, t, o),
         moved' = [moved EXCEPT ![t] = m],
         announced' \subseteq Uploads, announced' \ {t} = announced \ {t},
         \A v \in Views : Agrees(v, t, moved[t], t \in announced) =>
            Agrees(Folded(v, [kind |-> kind, of |-> t, offset |-> o]), t, m, t \in announced')
  PROVE  LiveInv'
<1> DEFINE e == [kind |-> kind, of |-> t, offset |-> o]
<1>1. PICK V \in Seq(Views) : Foreseen(V)
  BY DEF LiveInv
<1>2. LiveTyped /\ Buffer \in Nat /\ e \in Event
  BY LiveParameters DEF LiveInv, LiveTyped, Event
<1>3. Len(V) = Len(queue) + 1 /\ Len(queue) \in Nat /\ V[Len(V)] \in Views
  BY <1>1, <1>2 DEF Foreseen, LiveTyped
<1>4. moved' \in [Transfers -> Transfer] /\ table' \in Views
  BY <1>2 DEF LiveTyped
<1>5. \A u \in Transfers \ {t} : moved'[u] = moved[u] /\ (u \in announced' <=> u \in announced)
  BY <1>2 DEF LiveTyped
<1>6. CASE Len(queue) < Buffer
  <2>1. queue' = Append(queue, e) /\ UNCHANGED dropped
    BY <1>6 DEF Publish
  <2>2. LiveTyped'
    BY <1>2, <1>3, <1>4, <1>6, <2>1 DEF LiveTyped
  <2>3. PICK w : w = Folded(V[Len(V)], e)
    OBVIOUS
  <2>4. w \in Views /\ \A u \in Transfers : V[Len(V)].counted[u] <= w.counted[u]
    BY <1>2, <1>3, <2>3, FoldedEffect
  <2>5. PICK W : W = Append(V, w)
    OBVIOUS
  <2>6. /\ W \in Seq(Views) /\ Len(W) = Len(V) + 1 /\ W[Len(W)] = w
        /\ \A i \in 1..Len(V) : W[i] = V[i]
    BY <1>1, <1>3, <2>4, <2>5
  <2>7. Len(queue') = Len(queue) + 1 /\ queue'[Len(V)] = e /\ \A i \in 1..Len(queue) : queue'[i] = queue[i]
    BY <1>2, <1>3, <2>1 DEF LiveTyped
  <2>9. Len(W) = Len(queue') + 1 /\ W[1] = table'
    BY <1>1, <1>3, <2>6, <2>7 DEF Foreseen
  <2>10. \A i \in 1..Len(queue') : W[i + 1] = Folded(W[i], queue'[i])
    <3>1. SUFFICES ASSUME NEW i \in 1..Len(queue')
                   PROVE  W[i + 1] = Folded(W[i], queue'[i])
      OBVIOUS
    <3>2. CASE i = Len(V)
      BY <1>3, <2>3, <2>6, <2>7, <3>2
    <3>3. CASE i # Len(V)
      <4>1. i \in 1..Len(queue) /\ i + 1 \in 1..Len(V) /\ i \in 1..Len(V)
        BY <1>3, <2>7, <3>1, <3>3
      <4>2. V[i + 1] = Folded(V[i], queue[i])
        BY <1>1, <4>1 DEF Foreseen
      <4>3. W[i + 1] = V[i + 1] /\ W[i] = V[i] /\ queue'[i] = queue[i]
        BY <2>6, <2>7, <4>1
      <4>4. QED
        BY <4>2, <4>3
    <3>4. QED
      BY <3>2, <3>3
  <2>11. ASSUME NEW i \in 1..Len(W), NEW u \in Transfers
         PROVE  W[i].counted[u] <= W[Len(W)].counted[u]
    <3>1. w.counted[u] \in Nat
      BY <2>4, ViewFields
    <3>2. CASE i = Len(W)
      BY <2>6, <3>1, <3>2
    <3>3. CASE i # Len(W)
      <4>1. i \in 1..Len(V) /\ W[i] = V[i]
        BY <1>3, <2>6, <2>11, <3>3
      <4>2. V[i].counted[u] <= V[Len(V)].counted[u]
        BY <1>1, <4>1 DEF Foreseen
      <4>3. V[i] \in Views
        BY <1>1, <4>1
      <4>4. V[i].counted[u] \in Nat /\ V[Len(V)].counted[u] \in Nat
        BY <1>3, <4>3, ViewFields
      <4>5. V[Len(V)].counted[u] <= w.counted[u]
        BY <2>4
      <4>6. W[i].counted[u] <= w.counted[u]
        BY <3>1, <4>1, <4>2, <4>4, <4>5
      <4>7. QED
        BY <2>6, <4>6
    <3>4. QED
      BY <3>2, <3>3
  <2>12. ASSUME NEW u \in Transfers \ dropped'
         PROVE  Agrees(W[Len(W)], u, moved'[u], u \in announced')
    <3>1. Agrees(V[Len(V)], u, moved[u], u \in announced)
      BY <1>1, <2>1 DEF Foreseen
    <3>2. CASE u = t
      <4>1. moved'[u] = m
        BY <1>2, <3>2 DEF LiveTyped
      <4>2. Agrees(w, t, m, t \in announced')
        BY <1>3, <2>3, <3>1, <3>2
      <4>3. QED
        BY <2>6, <3>2, <4>1, <4>2
    <3>3. CASE u # t
      <4>1. Agrees(w, u, moved[u], u \in announced)
        BY <1>2, <1>3, <2>3, <3>1, <3>3, OthersAgree
      <4>2. QED
        BY <1>5, <2>6, <3>3, <4>1 DEF Agrees, Shown, Reached, Moved, Has, Before
    <3>4. QED
      BY <3>2, <3>3
  <2>13. Foreseen(W)'
    BY <2>9, <2>10, <2>11, <2>12 DEF Foreseen
  <2>14. QED
    BY <2>2, <2>6, <2>13 DEF LiveInv
<1>7. CASE ~(Len(queue) < Buffer)
  <2>1. queue' = queue /\ dropped' = dropped \union {t}
    BY <1>7 DEF Publish
  <2>2. LiveTyped'
    BY <1>2, <1>4, <2>1 DEF LiveTyped
  <2>3. ASSUME NEW u \in Transfers \ dropped'
        PROVE  Agrees(V[Len(V)], u, moved'[u], u \in announced')
    <3>1. u # t /\ Agrees(V[Len(V)], u, moved[u], u \in announced)
      BY <1>1, <2>1 DEF Foreseen
    <3>2. QED
      BY <1>5, <3>1 DEF Agrees, Shown, Reached, Moved, Has, Before
  <2>4. Foreseen(V)'
    BY <1>1, <2>1, <2>3 DEF Foreseen
  <2>5. QED
    BY <1>1, <2>2, <2>4 DEF LiveInv
<1>8. QED
  BY <1>6, <1>7

\* The fields of a transfer, and of a view where it is concerned.
LEMMA TransferFields ==
  ASSUME NEW m \in Transfer
  PROVE  /\ m.has \in 0..Size /\ m.at \in 0..Size /\ m.from \in 0..Size /\ m.bytes \in 0..MaxBytes
         /\ m.has \in Nat /\ m.at \in Nat /\ m.from \in Nat /\ m.bytes \in Nat
BY LiveParameters DEF Transfer

\* What folding an event does to its transfer, with the numbers' types.
LEMMA FoldedOne ==
  ASSUME NEW v \in Views, NEW t \in Transfers,
         NEW kind \in {"started", "progress", "finished", "failed"}, NEW o \in 0..Size,
         NEW w, w = Folded(v, [kind |-> kind, of |-> t, offset |-> o])
  PROVE  /\ w \in Views /\ v.counted[t] \in Nat /\ w.counted[t] \in Nat
         /\ Has(v, t) => v.active[t] \in Nat /\ Before(v, t) = v.active[t]
         /\ Has(w, t) => w.active[t] \in Nat
         /\ kind = "started" => /\ Has(w, t) /\ w.counted[t] = v.counted[t]
                                /\ w.active[t] = IF Has(v, t) THEN v.active[t] ELSE o
         /\ kind = "progress" => Has(w, t) /\ w.active[t] = Later(o, Before(v, t))
         /\ kind \in {"finished", "failed"} => ~Has(w, t)
         /\ kind # "started" => w.counted[t] = v.counted[t] + Later(o, Before(v, t)) - Before(v, t)
<1>1. PICK e \in Event : e = [kind |-> kind, of |-> t, offset |-> o]
  BY DEF Event
<1>2. e.kind = kind /\ e.of = t /\ e.offset = o /\ w = Folded(v, e)
  BY <1>1
<1>3. /\ w \in Views
      /\ kind = "started" => /\ Has(w, t) /\ w.counted[t] = v.counted[t]
                             /\ w.active[t] = IF Has(v, t) THEN v.active[t] ELSE o
      /\ kind = "progress" => Has(w, t) /\ w.active[t] = Later(o, Before(v, t))
      /\ kind \in {"finished", "failed"} => ~Has(w, t)
      /\ kind # "started" => w.counted[t] = v.counted[t] + Later(o, Before(v, t)) - Before(v, t)
  BY <1>2, FoldedEffect
<1>4. \A x \in Views : x.counted[t] \in Nat /\ (Has(x, t) => x.active[t] \in Nat /\ Before(x, t) = x.active[t])
  BY ViewFields, LiveParameters DEF Before, Has
<1>5. QED
  BY <1>3, <1>4

\* The types of what a view says of a transfer.
LEMMA ViewNumbers ==
  ASSUME NEW v \in Views, NEW t \in Transfers
  PROVE  v.counted[t] \in Nat /\ (Has(v, t) => v.active[t] \in Nat)
BY ViewFields, LiveParameters DEF Has

\* A new upload has no row yet and no event queued.
LEMMA NewUploadKeeps ==
  ASSUME LiveInv, NEW u \in Uploads, NewUpload(u)
  PROVE  LiveInv'
<1>1. LiveTyped /\ moved[u] \in Transfer /\ u \in Transfers /\ u \notin Fetches
  BY LiveAssumption DEF LiveInv, LiveTyped, Transfers
<1>2. PICK m : m = [moved[u] EXCEPT !.st = "cut"]
  OBVIOUS
<1>3. /\ m \in Transfer /\ m.st = "cut" /\ m.has = moved[u].has /\ m.bytes = moved[u].bytes
      /\ moved' = [moved EXCEPT ![u] = m]
  BY <1>1, <1>2 DEF NewUpload, Transfer
<1>4. announced' = announced \union {u} /\ announced' \subseteq Uploads /\ announced' \ {u} = announced \ {u}
  BY <1>1 DEF NewUpload, Announce, LiveTyped
<1>5. CASE u \in announced
  <2>1. \A v \in Views : Agrees(v, u, moved[u], u \in announced) => Agrees(v, u, m, u \in announced')
    BY <1>5 DEF Agrees, Shown, NewUpload
  <2>2. QED
    BY <1>1, <1>3, <1>4, <1>5, <2>1, QuietKeeps DEF NewUpload, Announce
<1>6. CASE u \notin announced
  <2>1. Publish("started", u, 0) /\ UNCHANGED table /\ 0 \in 0..Size
    BY <1>6, LiveParameters DEF NewUpload, Announce
  <2>2. ASSUME NEW v \in Views, Agrees(v, u, moved[u], u \in announced)
        PROVE  Agrees(Folded(v, [kind |-> "started", of |-> u, offset |-> 0]), u, m, u \in announced')
    <3>1. PICK w : w = Folded(v, [kind |-> "started", of |-> u, offset |-> 0])
      OBVIOUS
    <3>2. ~Has(v, u) /\ moved[u].has = 0 /\ v.counted[u] <= moved[u].bytes
      BY <2>2 DEF Agrees, Shown, Reached, Moved, NewUpload
    <3>3. Has(w, u) /\ w.active[u] = 0 /\ w.counted[u] = v.counted[u]
      BY <1>1, <2>1, <3>1, <3>2, FoldedOne
    <3>4. Shown(w, u, m, u \in announced')
      BY <1>3, <3>3 DEF Shown
    <3>5. Reached(w, u, m)
      BY <1>3, <3>2, <3>3 DEF Reached
    <3>6. Moved(w, u, m)
      BY <1>3, <3>2, <3>3 DEF Moved
    <3>7. QED
      BY <3>1, <3>4, <3>5, <3>6 DEF Agrees
  <2>3. QED
    BY <1>1, <1>3, <1>4, <2>1, <2>2, PublishKeeps
<1>7. QED
  BY <1>5, <1>6

\* An upload is taken up where it was left, and announced once by each receiver.
LEMMA WriteChunkKeeps ==
  ASSUME LiveInv, NEW u \in Uploads, WriteChunk(u)
  PROVE  LiveInv'
<1>1. LiveTyped /\ moved[u] \in Transfer /\ u \in Transfers /\ u \notin Fetches
  BY LiveAssumption DEF LiveInv, LiveTyped, Transfers
<1>2. PICK o : o = moved[u].has
  OBVIOUS
<1>3. o \in 0..Size /\ o \in Nat /\ o < Size /\ moved[u].st = "cut" /\ Size \in Nat
  BY <1>1, <1>2, TransferFields, LiveParameters DEF WriteChunk
<1>4. PICK m : m = [moved[u] EXCEPT !.st = "moving", !.at = o, !.from = o]
  OBVIOUS
<1>5. /\ m \in Transfer /\ m.st = "moving" /\ m.has = o /\ m.at = o /\ m.from = o /\ m.bytes = moved[u].bytes
      /\ moved' = [moved EXCEPT ![u] = m]
  BY <1>1, <1>2, <1>3, <1>4 DEF WriteChunk, Transfer
<1>6. announced' = announced \union {u} /\ announced' \subseteq Uploads /\ announced' \ {u} = announced \ {u}
  BY <1>1 DEF WriteChunk, Announce, LiveTyped
<1>7. ASSUME NEW w \in Views, Has(w, u), w.active[u] = o, w.counted[u] <= m.bytes
      PROVE  Agrees(w, u, m, u \in announced')
  <2>1. w.counted[u] \in Nat /\ m.bytes \in Nat
    BY <1>1, <1>5, <1>7, ViewNumbers, TransferFields
  <2>2. Shown(w, u, m, u \in announced') /\ Reached(w, u, m)
    BY <1>1, <1>3, <1>5, <1>7 DEF Shown, Reached
  <2>3. Moved(w, u, m)
    BY <1>3, <1>5, <1>7, <2>1 DEF Moved, Later
  <2>4. QED
    BY <2>2, <2>3 DEF Agrees
<1>8. ASSUME NEW v \in Views, Agrees(v, u, moved[u], u \in announced)
      PROVE  /\ u \in announced => Has(v, u)
             /\ Has(v, u) => v.active[u] = o
             /\ v.counted[u] <= m.bytes
  BY <1>2, <1>3, <1>5, <1>8 DEF Agrees, Shown, Reached, Moved
<1>9. CASE u \in announced
  <2>1. \A v \in Views : Agrees(v, u, moved[u], u \in announced) => Agrees(v, u, m, u \in announced')
    BY <1>7, <1>8, <1>9
  <2>2. QED
    BY <1>1, <1>5, <1>6, <1>9, <2>1, QuietKeeps DEF WriteChunk, Announce
<1>10. CASE u \notin announced
  <2>1. Publish("started", u, o) /\ UNCHANGED table
    BY <1>2, <1>10 DEF WriteChunk, Announce
  <2>2. ASSUME NEW v \in Views, Agrees(v, u, moved[u], u \in announced)
        PROVE  Agrees(Folded(v, [kind |-> "started", of |-> u, offset |-> o]), u, m, u \in announced')
    <3>1. PICK w : w = Folded(v, [kind |-> "started", of |-> u, offset |-> o])
      OBVIOUS
    <3>2. w \in Views /\ Has(w, u) /\ w.active[u] = o /\ w.counted[u] <= m.bytes
      BY <1>1, <1>3, <1>8, <2>2, <3>1, FoldedOne
    <3>3. QED
      BY <1>7, <3>1, <3>2
  <2>3. QED
    BY <1>1, <1>3, <1>5, <1>6, <2>1, <2>2, PublishKeeps
<1>11. QED
  BY <1>9, <1>10

\* A file is collected, from its beginning or from where it was left.
LEMMA FetchKeeps ==
  ASSUME LiveInv, NEW f \in Fetches, Fetch(f)
  PROVE  LiveInv'
<1>1. /\ LiveTyped /\ moved[f] \in Transfer /\ f \in Transfers /\ f \notin Uploads
      /\ f \notin announced /\ announced' = announced
  BY LiveAssumption DEF LiveInv, LiveTyped, Transfers, Fetch
<1>2. PICK o \in {0, moved[f].has} :
        /\ o < Size
        /\ moved' = [moved EXCEPT ![f].st = "moving", ![f].at = o, ![f].from = o]
        /\ Publish("started", f, o)
  BY DEF Fetch
<1>3. /\ o \in 0..Size /\ o \in Nat /\ Size \in Nat /\ moved[f].has \in 0..Size /\ moved[f].has \in Nat
      /\ moved[f].st \in {"none", "cut", "over"}
  BY <1>1, <1>2, TransferFields, LiveParameters DEF Fetch
<1>4. PICK m : m = [moved[f] EXCEPT !.st = "moving", !.at = o, !.from = o]
  OBVIOUS
<1>5. /\ m \in Transfer /\ m.st = "moving" /\ m.has = moved[f].has /\ m.at = o /\ m.from = o
      /\ m.bytes = moved[f].bytes /\ moved' = [moved EXCEPT ![f] = m] /\ m.bytes \in Nat
  <2>1. /\ m \in Transfer /\ m.st = "moving" /\ m.has = moved[f].has /\ m.at = o /\ m.from = o
        /\ m.bytes = moved[f].bytes /\ moved' = [moved EXCEPT ![f] = m]
    BY <1>1, <1>2, <1>3, <1>4 DEF Transfer
  <2>2. QED
    BY <2>1, TransferFields
<1>6. ASSUME NEW v \in Views, Agrees(v, f, moved[f], f \in announced)
      PROVE  Agrees(Folded(v, [kind |-> "started", of |-> f, offset |-> o]), f, m, f \in announced')
  <2>1. PICK w : w = Folded(v, [kind |-> "started", of |-> f, offset |-> o])
    OBVIOUS
  <2>2. /\ w \in Views /\ Has(w, f) /\ w.counted[f] = v.counted[f] /\ v.counted[f] \in Nat /\ w.active[f] \in Nat
        /\ Has(v, f) => v.active[f] \in Nat
        /\ w.active[f] = IF Has(v, f) THEN v.active[f] ELSE o
    BY <1>1, <1>3, <2>1, FoldedOne
  <2>3. v.counted[f] <= m.bytes
    BY <1>3, <1>5, <1>6 DEF Agrees, Moved
  <2>4. Shown(w, f, m, f \in announced')
    BY <1>1, <1>5, <2>2 DEF Shown
  <2>5. w.active[f] <= m.has /\ o <= m.has /\ (m.has < Size => w.active[f] = m.has) /\ (o = 0 \/ w.active[f] = o)
    BY <1>1, <1>2, <1>3, <1>5, <1>6, <2>2 DEF Agrees, Shown, Reached
  <2>6. Reached(w, f, m)
    BY <1>1, <1>2, <1>3, <1>5, <2>2, <2>5 DEF Reached, Later
  <2>7. Moved(w, f, m)
    BY <1>3, <1>5, <2>2, <2>3, <2>5 DEF Moved, Later
  <2>8. QED
    BY <2>1, <2>4, <2>6, <2>7 DEF Agrees
<1>7. UNCHANGED table /\ announced' \subseteq Uploads /\ announced' \ {f} = announced \ {f}
  BY <1>1 DEF Fetch, LiveTyped
<1>8. QED
  BY <1>1, <1>2, <1>3, <1>5, <1>6, <1>7, PublishKeeps

\* Bytes that move, for an upload or a collected file.
LEMMA MoveKeeps ==
  ASSUME LiveInv, NEW t \in Transfers, Move(t)
  PROVE  LiveInv'
<1> DEFINE old == moved[t]
<1>1. LiveTyped /\ old \in Transfer
  BY DEF LiveInv, LiveTyped
<1>2. /\ old.has \in Nat /\ old.at \in Nat /\ old.from \in Nat /\ old.bytes \in Nat
      /\ old.has <= Size /\ old.at <= Size /\ old.from <= Size /\ old.bytes <= MaxBytes
      /\ old.st = "moving" /\ old.at + 1 <= Size /\ old.bytes < MaxBytes /\ Size \in Nat /\ MaxBytes \in Nat
  BY <1>1, TransferFields, LiveParameters DEF Move
<1>3. PICK o \in 0..Size : o = old.at + 1
  BY <1>2
<1>4. PICK has \in 0..Size : has = Later(old.has, o)
  BY <1>2, <1>3 DEF Later
<1>5. PICK bytes \in 0..MaxBytes : bytes = old.bytes + 1
  BY <1>2
<1>6. PICK m : m = [old EXCEPT !.at = o, !.has = has, !.bytes = bytes]
  OBVIOUS
<1>7. /\ m \in Transfer /\ m.st = "moving" /\ m.has = has /\ m.at = o /\ m.from = old.from /\ m.bytes = bytes
      /\ moved' = [moved EXCEPT ![t] = m]
  BY <1>1, <1>2, <1>3, <1>4, <1>5, <1>6 DEF Move, Transfer
<1>8. /\ UNCHANGED table /\ announced' = announced /\ announced' \subseteq Uploads
      /\ announced' \ {t} = announced \ {t} /\ (Quiet \/ Publish("progress", t, o))
  BY <1>1, <1>3 DEF Move, LiveTyped
<1>9. ASSUME NEW v \in Views, Agrees(v, t, old, t \in announced)
      PROVE  /\ Has(v, t) /\ v.active[t] <= old.has /\ v.active[t] \in Nat /\ v.counted[t] \in Nat
             /\ old.from <= old.at /\ old.at <= old.has /\ old.from < Size
             /\ t \in Uploads => old.at = old.has
             /\ t \in Fetches /\ old.has < Size => Later(old.at, v.active[t]) = old.has
             /\ v.counted[t] <= old.bytes
             /\ v.counted[t] + Later(old.at, v.active[t]) - v.active[t] <= old.bytes
  <2>1. Has(v, t)
    BY <1>2, <1>9 DEF Agrees, Shown
  <2>2. v.active[t] \in Nat /\ v.counted[t] \in Nat
    BY <2>1, ViewNumbers
  <2>3. QED
    BY <1>2, <1>9, <2>1, <2>2 DEF Agrees, Reached, Moved
<1>10. CASE Quiet
  <2>1. ASSUME NEW v \in Views, Agrees(v, t, old, t \in announced)
        PROVE  Agrees(v, t, m, t \in announced')
    <3>1. /\ Has(v, t) /\ v.active[t] <= old.has /\ v.active[t] \in Nat /\ v.counted[t] \in Nat
          /\ old.from <= old.at /\ old.at <= old.has /\ old.from < Size
          /\ t \in Uploads => old.at = old.has
          /\ t \in Fetches /\ old.has < Size => Later(old.at, v.active[t]) = old.has
          /\ v.counted[t] <= old.bytes
          /\ v.counted[t] + Later(old.at, v.active[t]) - v.active[t] <= old.bytes
      BY <1>9, <2>1
    <3>2. Shown(v, t, m, t \in announced')
      BY <1>7, <3>1 DEF Shown
    <3>3. Reached(v, t, m)
      BY <1>2, <1>3, <1>4, <1>7, <3>1 DEF Reached, Later
    <3>4. Moved(v, t, m)
      BY <1>2, <1>3, <1>5, <1>7, <3>1 DEF Moved, Later
    <3>5. QED
      BY <3>2, <3>3, <3>4 DEF Agrees
  <2>2. QED
    BY <1>7, <1>8, <1>10, <2>1, QuietKeeps
<1>11. CASE Publish("progress", t, o)
  <2>1. ASSUME NEW v \in Views, Agrees(v, t, old, t \in announced)
        PROVE  Agrees(Folded(v, [kind |-> "progress", of |-> t, offset |-> o]), t, m, t \in announced')
    <3>1. /\ Has(v, t) /\ v.active[t] <= old.has /\ v.active[t] \in Nat /\ v.counted[t] \in Nat
          /\ old.from <= old.at /\ old.at <= old.has /\ old.from < Size
          /\ t \in Uploads => old.at = old.has
          /\ t \in Fetches /\ old.has < Size => Later(old.at, v.active[t]) = old.has
          /\ v.counted[t] <= old.bytes
          /\ v.counted[t] + Later(old.at, v.active[t]) - v.active[t] <= old.bytes
      BY <1>9, <2>1
    <3>2. PICK w : w = Folded(v, [kind |-> "progress", of |-> t, offset |-> o])
      OBVIOUS
    <3>3. /\ w \in Views /\ Has(w, t) /\ w.counted[t] \in Nat /\ w.active[t] \in Nat
          /\ w.active[t] = Later(o, v.active[t])
          /\ w.counted[t] = v.counted[t] + Later(o, v.active[t]) - v.active[t]
      BY <3>1, <3>2, FoldedOne
    <3>4. Shown(w, t, m, t \in announced')
      BY <1>7, <3>3 DEF Shown
    <3>5. Reached(w, t, m)
      BY <1>2, <1>3, <1>4, <1>7, <3>1, <3>3 DEF Reached, Later
    <3>6. Moved(w, t, m)
      BY <1>2, <1>3, <1>5, <1>7, <3>1, <3>3 DEF Moved, Later
    <3>7. QED
      BY <3>2, <3>4, <3>5, <3>6 DEF Agrees
  <2>2. QED
    BY <1>7, <1>8, <1>11, <2>1, PublishKeeps
<1>12. QED
  BY <1>8, <1>10, <1>11

\* What has moved is reported: the queued events then lead up to it.
LEMMA FlushKeeps ==
  ASSUME LiveInv, NEW t \in Transfers, Flush(t)
  PROVE  LiveInv'
<1> DEFINE old == moved[t]
<1>1. LiveTyped /\ old \in Transfer /\ (t \in Uploads \/ t \in Fetches)
  BY DEF LiveInv, LiveTyped, Transfers
<1>2. /\ old.has \in Nat /\ old.at \in Nat /\ old.from \in Nat /\ old.bytes \in Nat
      /\ old.has <= Size /\ old.at <= Size /\ old.at \in 0..Size
      /\ old.st = "moving" /\ Size \in Nat
  BY <1>1, TransferFields, LiveParameters DEF Flush
<1>3. PICK o \in 0..Size : o = old.at
  BY <1>2
<1>4. PICK st \in {"flushed", "cut"} : st = IF old.at = Size THEN "flushed" ELSE "cut"
  OBVIOUS
<1>5. PICK m : m = [old EXCEPT !.st = st]
  OBVIOUS
<1>6. /\ m \in Transfer /\ m.st = st /\ m.has = old.has /\ m.bytes = old.bytes
      /\ moved' = [moved EXCEPT ![t] = m]
  BY <1>1, <1>4, <1>5 DEF Flush, Transfer
<1>7. /\ UNCHANGED table /\ announced' = announced /\ announced' \subseteq Uploads
      /\ announced' \ {t} = announced \ {t}
      /\ (Quiet /\ t \notin Fetches /\ ~(old.at > old.from)) \/ Publish("progress", t, o)
  BY <1>1, <1>3 DEF Flush, LiveTyped
<1>8. ASSUME NEW v \in Views, Agrees(v, t, old, t \in announced)
      PROVE  /\ Has(v, t) /\ v.active[t] <= old.has /\ v.active[t] \in Nat /\ v.counted[t] \in Nat
             /\ old.from <= old.at /\ old.at <= old.has /\ old.from < Size
             /\ t \in Uploads => old.at = old.has /\ (old.at = old.from => v.active[t] = old.has)
             /\ t \in Fetches /\ old.has < Size => Later(old.at, v.active[t]) = old.has
             /\ v.counted[t] <= old.bytes
             /\ v.counted[t] + Later(old.at, v.active[t]) - v.active[t] <= old.bytes
  <2>1. Has(v, t)
    BY <1>2, <1>8 DEF Agrees, Shown
  <2>2. v.active[t] \in Nat /\ v.counted[t] \in Nat
    BY <2>1, ViewNumbers
  <2>3. QED
    BY <1>2, <1>8, <2>1, <2>2 DEF Agrees, Reached, Moved
<1>9. CASE Quiet /\ t \notin Fetches /\ ~(old.at > old.from)
  <2>1. ASSUME NEW v \in Views, Agrees(v, t, old, t \in announced)
        PROVE  Agrees(v, t, m, t \in announced')
    <3>1. /\ Has(v, t) /\ v.active[t] <= old.has /\ v.active[t] \in Nat /\ v.counted[t] \in Nat
          /\ old.from <= old.at /\ old.at <= old.has /\ old.from < Size
          /\ t \in Uploads => old.at = old.has /\ (old.at = old.from => v.active[t] = old.has)
          /\ v.counted[t] <= old.bytes
      BY <1>8, <2>1
    <3>2. old.at = old.from /\ st = "cut" /\ t \in Uploads /\ v.active[t] = old.has
      BY <1>1, <1>2, <1>4, <1>9, <3>1
    <3>3. Shown(v, t, m, t \in announced') /\ Reached(v, t, m) /\ Moved(v, t, m)
      BY <1>2, <1>6, <3>1, <3>2 DEF Shown, Reached, Moved
    <3>4. QED
      BY <3>3 DEF Agrees
  <2>2. QED
    BY <1>6, <1>7, <1>9, <2>1, QuietKeeps
<1>10. CASE Publish("progress", t, o)
  <2>1. ASSUME NEW v \in Views, Agrees(v, t, old, t \in announced)
        PROVE  Agrees(Folded(v, [kind |-> "progress", of |-> t, offset |-> o]), t, m, t \in announced')
    <3>1. /\ Has(v, t) /\ v.active[t] <= old.has /\ v.active[t] \in Nat /\ v.counted[t] \in Nat
          /\ old.from <= old.at /\ old.at <= old.has /\ old.from < Size
          /\ t \in Uploads => old.at = old.has
          /\ t \in Fetches /\ old.has < Size => Later(old.at, v.active[t]) = old.has
          /\ v.counted[t] + Later(old.at, v.active[t]) - v.active[t] <= old.bytes
      BY <1>8, <2>1
    <3>2. PICK w : w = Folded(v, [kind |-> "progress", of |-> t, offset |-> o])
      OBVIOUS
    <3>3. /\ w \in Views /\ Has(w, t) /\ w.counted[t] \in Nat /\ w.active[t] \in Nat
          /\ w.active[t] = Later(o, v.active[t])
          /\ w.counted[t] = v.counted[t] + Later(o, v.active[t]) - v.active[t]
      BY <3>1, <3>2, FoldedOne
    <3>4. Shown(w, t, m, t \in announced')
      BY <1>4, <1>6, <3>3 DEF Shown
    <3>5. Reached(w, t, m)
      BY <1>1, <1>2, <1>3, <1>4, <1>6, <3>1, <3>3 DEF Reached, Later
    <3>6. Moved(w, t, m)
      BY <1>2, <1>3, <1>4, <1>6, <3>1, <3>3 DEF Moved, Later
    <3>7. QED
      BY <3>2, <3>4, <3>5, <3>6 DEF Agrees
  <2>2. QED
    BY <1>6, <1>7, <1>10, <2>1, PublishKeeps
<1>11. QED
  BY <1>7, <1>9, <1>10

\* The last event of a file: its row goes, and what the event adds has been counted.
LEMMA LastEventKeeps ==
  ASSUME LiveInv, NEW t \in Transfers, UNCHANGED table, announced' = announced \ {t},
         NEW kind \in {"finished", "failed"}, NEW o \in 0..Size, Publish(kind, t, o),
         NEW st \in {"over", "cut", "cancelled"}, moved' = [moved EXCEPT ![t].st = st],
         st = "cancelled" \/ (moved[t].st = "flushed" /\ o \in {Size, moved[t].has}),
         st = "cut" => t \in Uploads
  PROVE  LiveInv'
<1> DEFINE old == moved[t]
<1>1. LiveTyped /\ old \in Transfer /\ (t \in Uploads => t \notin Fetches)
  BY LiveAssumption DEF LiveInv, LiveTyped, Transfers
<1>2. old.bytes \in Nat /\ old.has \in Nat /\ Size \in Nat /\ (st = "cancelled" \/ old.st = "flushed")
  BY <1>1, TransferFields, LiveParameters
<1>3. PICK m : m = [old EXCEPT !.st = st]
  OBVIOUS
<1>4. m \in Transfer /\ m.st = st /\ m.has = old.has /\ m.bytes = old.bytes /\ moved' = [moved EXCEPT ![t] = m]
  BY <1>1, <1>3 DEF Transfer
<1>5. announced' \subseteq Uploads /\ announced' \ {t} = announced \ {t} /\ t \notin announced'
  BY <1>1 DEF LiveTyped
<1>6. ASSUME NEW v \in Views, Agrees(v, t, old, t \in announced)
      PROVE  Agrees(Folded(v, [kind |-> kind, of |-> t, offset |-> o]), t, m, t \in announced')
  <2>1. PICK w : w = Folded(v, [kind |-> kind, of |-> t, offset |-> o])
    OBVIOUS
  <2>2. /\ ~Has(w, t) /\ v.counted[t] \in Nat
        /\ w.counted[t] = v.counted[t] + Later(o, Before(v, t)) - Before(v, t)
        /\ Has(v, t) => v.active[t] \in Nat /\ Before(v, t) = v.active[t]
    BY <2>1, FoldedOne
  <2>3. Shown(w, t, m, t \in announced')
    BY <1>1, <1>4, <1>5, <2>2 DEF Shown
  <2>4. Reached(w, t, m)
    BY <1>2, <1>4, <1>6, <2>2 DEF Agrees, Reached
  <2>5. Moved(w, t, m)
    <3>1. CASE st = "cancelled"
      BY <1>4, <3>1 DEF Moved
    <3>2. CASE st # "cancelled"
      <4>1. Has(v, t) /\ v.active[t] = Size /\ o = Size /\ v.counted[t] <= old.bytes
        BY <1>2, <1>6, <3>2 DEF Agrees, Shown, Reached, Moved
      <4>2. w.counted[t] = v.counted[t]
        BY <1>2, <2>2, <4>1 DEF Later
      <4>3. QED
        BY <1>4, <4>1, <4>2 DEF Moved
    <3>3. QED
      BY <3>1, <3>2
  <2>6. QED
    BY <2>1, <2>3, <2>4, <2>5 DEF Agrees
<1>7. kind \in {"started", "progress", "finished", "failed"}
  OBVIOUS
<1>8. QED
  BY <1>4, <1>5, <1>6, <1>7, PublishKeeps

\* The steps that end a transfer, well or badly.
LEMMA EndsKeep ==
  ASSUME LiveInv, NEW t \in Transfers,
         Finish(t) \/ (t \in Uploads /\ (FinishFails(t) \/ Terminate(t)))
  PROVE  LiveInv'
<1>1. LiveTyped /\ moved[t] \in Transfer
  BY DEF LiveInv, LiveTyped
<1>2. moved[t].has \in 0..Size /\ Size \in 0..Size
  BY <1>1, TransferFields, LiveParameters
<1>3. CASE Finish(t)
  <2>1. /\ moved[t].st = "flushed" /\ moved' = [moved EXCEPT ![t].st = "over"]
        /\ announced' = announced \ {t} /\ Publish("finished", t, Size) /\ UNCHANGED table
    BY <1>3 DEF Finish
  <2>2. QED
    BY <1>2, <2>1, LastEventKeeps
<1>4. CASE t \in Uploads /\ FinishFails(t)
  <2>1. PICK st \in {"over", "cut"} : moved' = [moved EXCEPT ![t].st = st]
    BY <1>4 DEF FinishFails
  <2>2. PICK o \in 0..Size : o = moved[t].has
    BY <1>2
  <2>3. moved[t].st = "flushed" /\ announced' = announced \ {t} /\ Publish("failed", t, o) /\ UNCHANGED table
    BY <1>4, <2>2 DEF FinishFails
  <2>4. QED
    BY <1>4, <2>1, <2>2, <2>3, LastEventKeeps
<1>5. CASE t \in Uploads /\ Terminate(t)
  <2>1. PICK o \in 0..Size : o = moved[t].has
    BY <1>2
  <2>2. /\ moved' = [moved EXCEPT ![t].st = "cancelled"]
        /\ announced' = announced \ {t} /\ Publish("failed", t, o) /\ UNCHANGED table
    BY <1>5, <2>1 DEF Terminate
  <2>3. QED
    BY <2>2, LastEventKeeps
<1>6. QED
  BY <1>3, <1>4, <1>5

\* A swept upload is gone without an event: its row may stay.
LEMMA SweepKeeps ==
  ASSUME LiveInv, NEW u \in Uploads, Sweep(u)
  PROVE  LiveInv'
<1>1. LiveTyped /\ moved[u] \in Transfer /\ u \in Transfers
  BY DEF LiveInv, LiveTyped, Transfers
<1>2. PICK m : m = [moved[u] EXCEPT !.st = "swept"]
  OBVIOUS
<1>3. /\ m \in Transfer /\ m.st = "swept" /\ m.has = moved[u].has /\ m.bytes = moved[u].bytes
      /\ moved' = [moved EXCEPT ![u] = m]
  BY <1>1, <1>2 DEF Sweep, Transfer
<1>4. /\ announced' = announced \ {u} /\ announced' \subseteq Uploads /\ announced' \ {u} = announced \ {u}
      /\ u \notin announced' /\ Quiet /\ UNCHANGED table
  BY <1>1 DEF Sweep, LiveTyped
<1>5. \A v \in Views : Agrees(v, u, moved[u], u \in announced) => Agrees(v, u, m, u \in announced')
  BY <1>3, <1>4 DEF Agrees, Shown, Reached, Moved, Sweep
<1>6. QED
  BY <1>1, <1>3, <1>4, <1>5, QuietKeeps

\* A receiver that replaces another has announced nothing yet.
LEMMA ReplaceKeeps ==
  ASSUME LiveInv, Replace
  PROVE  LiveInv'
<1>1. PICK V \in Seq(Views) : Foreseen(V)
  BY DEF LiveInv
<1>2. LiveTyped'
  BY DEF LiveInv, LiveTyped, Replace
<1>3. Foreseen(V)'
  BY <1>1 DEF Foreseen, Replace, Agrees, Shown, Reached, Moved, Has, Before
<1>4. QED
  BY <1>1, <1>2, <1>3 DEF LiveInv

\* The window takes the next event: the view that is shown is the next one foreseen.
LEMMA ApplyKeeps ==
  ASSUME LiveInv, Apply
  PROVE  LiveInv'
<1>1. PICK V \in Seq(Views) : Foreseen(V)
  BY DEF LiveInv
<1>2. /\ LiveTyped /\ queue # <<>> /\ queue' = Tail(queue) /\ table' = Fold(Head(queue))
      /\ UNCHANGED <<moved, announced, dropped>>
  BY DEF LiveInv, Apply
<1>3. /\ queue \in Seq(Event) /\ Len(queue) \in Nat /\ Len(queue) >= 1 /\ Head(queue) = queue[1]
      /\ queue' \in Seq(Event) /\ Len(queue') = Len(queue) - 1
      /\ \A i \in 1..Len(queue') : queue'[i] = queue[i + 1]
  BY <1>2 DEF LiveTyped
<1>4. PICK W : W = Tail(V)
  OBVIOUS
<1>5. Len(V) = Len(queue) + 1 /\ V # <<>>
  BY <1>1, <1>3 DEF Foreseen
<1>6. /\ W \in Seq(Views) /\ Len(W) = Len(V) - 1 /\ Len(W) = Len(queue') + 1
      /\ \A i \in 1..Len(W) : W[i] = V[i + 1]
  BY <1>1, <1>3, <1>4, <1>5
<1>7. W[Len(W)] = V[Len(V)]
  BY <1>3, <1>5, <1>6
<1>8. table' = W[1]
  <2>1. V[2] = Folded(V[1], queue[1]) /\ V[1] = table
    <3>1. 1 \in 1..Len(queue)
      BY <1>3
    <3>2. V[1 + 1] = Folded(V[1], queue[1]) /\ V[1] = table
      BY <1>1, <3>1 DEF Foreseen
    <3>3. QED
      BY <3>2
  <2>2. W[1] = V[2]
    <3>1. 1 \in 1..Len(W)
      BY <1>3, <1>6
    <3>2. QED
      BY <1>6, <3>1
  <2>3. QED
    BY <1>2, <1>3, <2>1, <2>2, FoldIsFolded
<1>9. LiveTyped'
  <2>1. W[1] \in Views
    BY <1>3, <1>6
  <2>2. QED
    BY <1>2, <1>3, <1>8, <2>1, LiveParameters DEF LiveTyped
<1>10. \A i \in 1..Len(queue') : W[i + 1] = Folded(W[i], queue'[i])
  <2>1. SUFFICES ASSUME NEW i \in 1..Len(queue')
                 PROVE  W[i + 1] = Folded(W[i], queue'[i])
    OBVIOUS
  <2>2. i + 1 \in 1..Len(queue) /\ i \in 1..Len(W) /\ i + 1 \in 1..Len(W)
    BY <1>3, <1>6
  <2>3. V[(i + 1) + 1] = Folded(V[i + 1], queue[i + 1])
    BY <1>1, <2>2 DEF Foreseen
  <2>4. W[i + 1] = V[(i + 1) + 1] /\ W[i] = V[i + 1] /\ queue'[i] = queue[i + 1]
    BY <1>3, <1>6, <2>2
  <2>5. QED
    BY <2>3, <2>4
<1>11. \A i \in 1..Len(W), t \in Transfers : W[i].counted[t] <= W[Len(W)].counted[t]
  <2>1. SUFFICES ASSUME NEW i \in 1..Len(W), NEW t \in Transfers
                 PROVE  W[i].counted[t] <= W[Len(W)].counted[t]
    OBVIOUS
  <2>2. i + 1 \in 1..Len(V)
    BY <1>3, <1>5, <1>6
  <2>3. V[i + 1].counted[t] <= V[Len(V)].counted[t]
    BY <1>1, <2>2 DEF Foreseen
  <2>4. QED
    BY <1>6, <1>7, <2>3
<1>12. Foreseen(W)'
  BY <1>1, <1>2, <1>6, <1>7, <1>8, <1>10, <1>11 DEF Foreseen, Agrees, Shown, Reached, Moved, Has, Before
<1>13. QED
  BY <1>6, <1>9, <1>12 DEF LiveInv

\* An upload that is left over from before.
LEMMA LeftOver ==
  ASSUME NEW m, m = [New EXCEPT !.st = "cut", !.has = 1]
  PROVE  New \in Transfer /\ m \in Transfer /\ m.st = "cut" /\ m.bytes = 0
<1>1. PICK n : n = New
  OBVIOUS
<1>2. 0 \in 0..Size /\ 1 \in 0..Size /\ 0 \in 0..MaxBytes
  BY LiveParameters
<1>3. n \in Transfer /\ n.bytes = 0
  BY <1>1, <1>2 DEF New, Transfer
<1>4. m = [n EXCEPT !.st = "cut", !.has = 1]
  BY <1>1
<1>5. m \in Transfer /\ m.st = "cut" /\ m.bytes = 0
  BY <1>2, <1>3, <1>4 DEF Transfer
<1>6. QED
  BY <1>1, <1>3, <1>5

\* Before the first event there is no row, for an upload of an earlier process too.
LEMMA LiveStarts ==
  ASSUME LiveInit
  PROVE  LiveInv
<1>1. /\ \A t \in Transfers : moved[t] \in Transfer
      /\ \A t \in Transfers : moved[t] = New \/ (t \in Uploads /\ moved[t] = [New EXCEPT !.st = "cut", !.has = 1])
      /\ moved \in [Transfers -> Transfer]
  <2>1. New \in Transfer /\ [New EXCEPT !.st = "cut", !.has = 1] \in Transfer
    BY LeftOver
  <2>2. moved \in [Transfers -> {New, [New EXCEPT !.st = "cut", !.has = 1]}] /\ \A f \in Fetches : moved[f] = New
    BY DEF LiveInit
  <2>3. \A t \in Transfers : moved[t] = New \/ moved[t] = [New EXCEPT !.st = "cut", !.has = 1]
    BY <2>2
  <2>4. QED
    BY <2>1, <2>2, <2>3 DEF Transfers
<1>2. announced = {} /\ queue = <<>> /\ dropped = {} /\ table = [active |-> <<>>, counted |-> [t \in Transfers |-> 0]]
  BY DEF LiveInit
<1>3. /\ table \in Views /\ \A t \in Transfers : ~Has(table, t) /\ table.counted[t] = 0
  <2>1. DOMAIN table.active = {} /\ table.active = <<>> /\ table.counted = [t \in Transfers |-> 0]
    BY <1>2
  <2>2. PICK S \in SUBSET Transfers : S = {}
    OBVIOUS
  <2>3. table.active \in [S -> 0..Size] /\ table.counted \in [Transfers -> Nat]
    BY <2>1, <2>2
  <2>4. table = [active |-> table.active, counted |-> table.counted]
    BY <1>2
  <2>5. table \in Views
    BY <2>3, <2>4, ViewOf
  <2>6. QED
    BY <2>1, <2>5 DEF Has
<1>4. LiveTyped
  BY <1>1, <1>2, <1>3, LiveParameters DEF LiveTyped
<1>5. ASSUME NEW t \in Transfers
      PROVE  Agrees(table, t, moved[t], t \in announced)
  <2>1. ~Has(table, t) /\ table.counted[t] = 0 /\ t \notin announced /\ (t \in Uploads => t \notin Fetches)
    BY <1>2, <1>3, LiveAssumption
  <2>2. moved[t].bytes = 0 /\ ((moved[t].st = "none" /\ moved[t].has = 0) \/ (moved[t].st = "cut" /\ t \in Uploads))
    <3>1. CASE moved[t] = New
      BY <3>1 DEF New
    <3>2. CASE t \in Uploads /\ moved[t] = [New EXCEPT !.st = "cut", !.has = 1]
      BY <3>2, LeftOver
    <3>3. QED
      BY <1>1, <3>1, <3>2
  <2>3. QED
    BY <2>1, <2>2 DEF Agrees, Shown, Reached, Moved
<1>6. PICK V : V = <<table>>
  OBVIOUS
<1>7. V \in Seq(Views) /\ Len(V) = 1 /\ V[1] = table
  BY <1>3, <1>6
<1>8. Foreseen(V)
  <2>1. Len(queue) = 0 /\ 1..Len(queue) = {}
    BY <1>2
  <2>2. \A i \in 1..Len(V), t \in Transfers : V[i].counted[t] <= V[Len(V)].counted[t]
    <3>1. \A i \in 1..Len(V) : i = 1
      BY <1>7
    <3>2. \A t \in Transfers : V[1].counted[t] <= V[1].counted[t]
      BY <1>3, <1>7
    <3>3. QED
      BY <1>7, <3>1, <3>2
  <2>3. QED
    BY <1>5, <1>7, <2>1, <2>2 DEF Foreseen
<1>9. QED
  BY <1>4, <1>7, <1>8 DEF LiveInv

\* What the requests of phones do to the view.
LEMMA LiveStepKeeps ==
  ASSUME LiveInv, LiveNext \/ Finishing \/ Apply \/ Replace
  PROVE  LiveInv'
<1>1. CASE Apply
  BY <1>1, ApplyKeeps
<1>2. CASE Replace
  BY <1>2, ReplaceKeeps
<1>3. ASSUME NEW u \in Uploads, NewUpload(u) \/ WriteChunk(u) \/ FinishFails(u) \/ Terminate(u) \/ Sweep(u)
      PROVE  LiveInv'
  <2>1. u \in Transfers
    BY DEF Transfers
  <2>2. QED
    BY <1>3, <2>1, NewUploadKeeps, WriteChunkKeeps, EndsKeep, SweepKeeps
<1>4. ASSUME NEW f \in Fetches, Fetch(f)
      PROVE  LiveInv'
  BY <1>4, FetchKeeps
<1>5. ASSUME NEW t \in Transfers, Move(t) \/ Flush(t) \/ Finish(t) \/ (t \in Uploads /\ FinishFails(t))
      PROVE  LiveInv'
  BY <1>5, MoveKeeps, FlushKeeps, EndsKeep
<1>6. QED
  BY <1>1, <1>2, <1>3, <1>4, <1>5 DEF LiveNext, Finishing

\* What the window shows follows from what is foreseen.
LEMMA LiveShows ==
  ASSUME LiveInv
  PROVE  RowsMatch /\ RateIsReal /\ LiveTypeOK
<1>1. PICK V \in Seq(Views) : Foreseen(V)
  BY DEF LiveInv
<1>2. /\ LiveTyped /\ Len(V) = Len(queue) + 1 /\ V[1] = table /\ Len(queue) \in Nat
      /\ \A t \in Transfers \ dropped : Agrees(V[Len(V)], t, moved[t], t \in announced)
  BY <1>1 DEF LiveInv, Foreseen, LiveTyped
<1>3. RowsMatch
  <2>1. SUFFICES ASSUME queue = <<>>, NEW t \in Transfers \ dropped
                 PROVE  /\ moved[t].st \in {"moving", "flushed"} => t \in DOMAIN table.active /\ Row(t) <= moved[t].has
                        /\ moved[t].st \in {"over", "cancelled"} => t \notin DOMAIN table.active
    BY DEF RowsMatch
  <2>2. V[Len(V)] = table
    BY <1>2, <2>1
  <2>3. Agrees(table, t, moved[t], t \in announced)
    BY <1>2, <2>2
  <2>4. QED
    BY <2>3 DEF Agrees, Shown, Reached, Has, Row
<1>4. RateIsReal
  <2>1. SUFFICES ASSUME NEW t \in Transfers \ dropped, moved[t].st # "cancelled"
                 PROVE  table.counted[t] <= moved[t].bytes
    BY DEF RateIsReal
  <2>2. V[Len(V)].counted[t] <= moved[t].bytes
    BY <1>2, <2>1 DEF Agrees, Moved
  <2>3. table.counted[t] <= V[Len(V)].counted[t]
    <3>1. 1 \in 1..Len(V)
      BY <1>2
    <3>2. V[1].counted[t] <= V[Len(V)].counted[t]
      BY <1>1, <3>1 DEF Foreseen
    <3>3. QED
      BY <1>2, <3>2
  <2>4. table.counted[t] \in Nat /\ V[Len(V)].counted[t] \in Nat
    <3>1. table \in Views /\ V[Len(V)] \in Views
      BY <1>1, <1>2 DEF LiveTyped
    <3>2. QED
      BY <3>1, ViewNumbers
  <2>5. moved[t].bytes \in Nat
    BY <1>2, TransferFields DEF LiveTyped
  <2>6. QED
    BY <2>2, <2>3, <2>4, <2>5
<1>5. LiveTypeOK
  <2>1. /\ DOMAIN table.active \subseteq Transfers /\ table.active \in [DOMAIN table.active -> 0..Size]
        /\ table.counted \in [Transfers -> Nat]
    BY <1>2, ViewFields DEF LiveTyped
  <2>2. QED
    BY <1>2, <2>1 DEF LiveTyped, LiveTypeOK
<1>6. QED
  BY <1>3, <1>4, <1>5

(***************************************************************************)
(* The directory.                                                          *)
(*                                                                         *)
(* A receiver that applies a migration holds the lock, and none of those   *)
(* before it is missing: so a migration that was not applied is the next   *)
(* of the directory's.  The key is never replaced once it is there.        *)
(***************************************************************************)

Directory == [schema: Seq(1..Migrations), id: Makers \union {None}, name: Names \union {None},
              key: Makers \union {None}, cert: Makers \union {None, "torn", "old"}]

DirInv ==
  /\ \A i \in DOMAIN dir.schema : dir.schema[i] = i
  /\ \A s \in Receivers :
       /\ rcv[s].pc = "migrate" => lock = s /\ rcv[s].next <= Migrations
       /\ rcv[s].pc \in {"begin", "migrate"} => rcv[s].next <= Len(dir.schema) + 1
       /\ rcv[s].key \in {None, dir.key}

ServiceInv == ServiceTypeOK /\ DirInv

\* The number of migrations, and the steps of Open.
LEMMA ServiceParameters == Migrations \in Nat /\ None \notin Receivers
BY ServiceAssumption

\* A receiver has its fields, or is closed.
LEMMA ReceiverFields ==
  ASSUME NEW r \in Receiver \union {Closed}
  PROVE  /\ r.pc \in Opening \union Serving \union {"failed", "open", "stopped", "closed"}
         /\ r.key \in Makers \union {None}
         /\ r.pc = "closed" => r = Closed
         /\ r.pc # "closed" => r \in Receiver
<1>1. CASE r = Closed
  BY <1>1 DEF Closed
<1>2. CASE r \in Receiver
  <2>1. r.pc \in Opening \union Serving \union {"failed", "open", "stopped"} /\ r.key \in Makers \union {None}
    BY <1>2 DEF Receiver
  <2>2. r.pc # "closed"
    BY <2>1 DEF Opening, Serving
  <2>3. QED
    BY <1>2, <2>1, <2>2
<1>3. QED
  BY <1>1, <1>2

\* A step of one receiver, which leaves the key that is there and the migrations, or adds the next.
LEMMA OneSteps ==
  ASSUME ServiceInv, NEW s \in Receivers, NEW r \in Receiver \union {Closed},
         rcv' = [rcv EXCEPT ![s] = r],
         dir' \in Directory, ports' \in [Ports -> Receivers \union {None}],
         \/ dir'.schema = dir.schema
         \/ Len(dir.schema) + 1 <= Migrations /\ dir'.schema = Append(dir.schema, Len(dir.schema) + 1),
         dir'.key = dir.key \/ dir.key = None,
         lock' = lock \/ (lock' = None /\ lock = s) \/ (lock' = s /\ lock = None),
         r.key \in {None, dir'.key},
         r.pc = "migrate" => lock' = s /\ r.next <= Migrations,
         r.pc \in {"begin", "migrate"} => r.next <= Len(dir'.schema) + 1
  PROVE  ServiceInv'
<1>1. /\ dir \in Directory /\ dir.schema \in Seq(1..Migrations) /\ Len(dir.schema) \in Nat
      /\ lock \in Receivers \union {None} /\ rcv \in [Receivers -> Receiver \union {Closed}]
      /\ DirInv
  BY DEF ServiceInv, ServiceTypeOK, Directory
<1>2. ServiceTypeOK'
  BY <1>1 DEF ServiceTypeOK, Directory
<1>3. Len(dir.schema) <= Len(dir'.schema) /\ \A i \in DOMAIN dir'.schema : dir'.schema[i] = i
  <2>1. CASE dir'.schema = dir.schema
    BY <1>1, <2>1 DEF DirInv
  <2>2. CASE Len(dir.schema) + 1 <= Migrations /\ dir'.schema = Append(dir.schema, Len(dir.schema) + 1)
    <3>1. \A i \in 1..Len(dir.schema) : dir.schema[i] = i
      BY <1>1 DEF DirInv
    <3>2. DOMAIN dir'.schema = 1..Len(dir.schema) + 1 /\ Len(dir'.schema) = Len(dir.schema) + 1
      BY <1>1, <2>2
    <3>3. \A i \in 1..Len(dir.schema) + 1 :
            dir'.schema[i] = IF i = Len(dir.schema) + 1 THEN Len(dir.schema) + 1 ELSE dir.schema[i]
      BY <1>1, <2>2
    <3>4. QED
      BY <1>1, <3>1, <3>2, <3>3
  <2>3. QED
    BY <2>1, <2>2
<1>4. ASSUME NEW x \in Receivers
      PROVE  /\ rcv'[x].pc = "migrate" => lock' = x /\ rcv'[x].next <= Migrations
             /\ rcv'[x].pc \in {"begin", "migrate"} => rcv'[x].next <= Len(dir'.schema) + 1
             /\ rcv'[x].key \in {None, dir'.key}
  <2>1. CASE x = s
    BY <1>1, <2>1
  <2>2. CASE x # s
    <3>1. rcv'[x] = rcv[x]
      BY <1>1, <2>2
    <3>2. rcv[x].pc = "migrate" => lock' = x /\ rcv[x].next <= Migrations
      BY <1>1, <2>2, ServiceParameters DEF DirInv
    <3>3. rcv[x].key \in {None, dir'.key}
      BY <1>1 DEF DirInv
    <3>4. rcv[x].pc \in {"begin", "migrate"} => rcv[x].next <= Len(dir'.schema) + 1
      <4>1. SUFFICES ASSUME rcv[x].pc \in {"begin", "migrate"}
                     PROVE  rcv[x].next <= Len(dir'.schema) + 1
        OBVIOUS
      <4>2. rcv[x].next <= Len(dir.schema) + 1
        BY <1>1, <4>1 DEF DirInv
      <4>3. rcv[x] \in Receiver
        BY <1>1, <4>1 DEF Closed
      <4>4. rcv[x].next \in 1..Migrations + 1
        BY <4>3 DEF Receiver
      <4>5. Len(dir'.schema) \in Nat
        BY <1>2 DEF ServiceTypeOK
      <4>6. QED
        BY <1>1, <1>3, <4>2, <4>4, <4>5, ServiceParameters
    <3>5. QED
      BY <3>1, <3>2, <3>3, <3>4
  <2>3. QED
    BY <2>1, <2>2
<1>5. DirInv'
  BY <1>3, <1>4 DEF DirInv
<1>6. QED
  BY <1>2, <1>5 DEF ServiceInv

\* A step of one receiver by which only its pc moves.
LEMMA MovesKeep ==
  ASSUME ServiceInv, NEW s \in Receivers, rcv[s].pc # "closed",
         NEW pc \in Opening \union Serving \union {"failed", "open", "stopped"}, pc \notin {"begin", "migrate"},
         Moves(s, pc), ports' \in [Ports -> Receivers \union {None}],
         dir' \in Directory, dir'.schema = dir.schema, dir'.key = dir.key,
         lock' = lock \/ (lock' = None /\ lock = s)
  PROVE  ServiceInv'
<1>1. rcv[s] \in Receiver /\ rcv[s].key \in {None, dir.key} /\ rcv \in [Receivers -> Receiver \union {Closed}]
  BY ReceiverFields DEF ServiceInv, ServiceTypeOK, DirInv
<1>2. PICK r : r = [rcv[s] EXCEPT !.pc = pc]
  OBVIOUS
<1>3. r \in Receiver /\ r.pc = pc /\ r.key = rcv[s].key /\ rcv' = [rcv EXCEPT ![s] = r]
  BY <1>1, <1>2 DEF Receiver, Moves
<1>4. QED
  BY <1>1, <1>3, OneSteps

\* The ports stay a function when one is taken or let go.
LEMMA PortTaken ==
  ASSUME ServiceInv, NEW p \in Ports, NEW s \in Receivers \union {None}
  PROVE  [ports EXCEPT ![p] = s] \in [Ports -> Receivers \union {None}]
BY DEF ServiceInv, ServiceTypeOK

\* A receiver that is opened has read nothing of the directory yet.
LEMMA OpenKeeps ==
  ASSUME ServiceInv, NEW s \in Receivers, NEW set \in Config, Open(s, set)
  PROVE  ServiceInv'
<1>1. PICK r : r = [pc |-> "begin", set |-> set, id |-> None, key |-> None,
                    next |-> 1, ctx |-> FALSE, err |-> FALSE]
  OBVIOUS
<1>2. r \in Receiver /\ r.pc = "begin" /\ r.key = None /\ r.next = 1
  BY <1>1, ServiceParameters DEF Receiver, Opening
<1>3. rcv' = [rcv EXCEPT ![s] = r] /\ UNCHANGED <<dir, lock, ports>>
  BY <1>1 DEF Open
<1>4. /\ dir' \in Directory /\ ports' \in [Ports -> Receivers \union {None}] /\ dir' = dir /\ lock' = lock
      /\ Len(dir.schema) \in Nat
  BY <1>3 DEF ServiceInv, ServiceTypeOK, Directory
<1>5. r.next <= Len(dir'.schema) + 1
  BY <1>2, <1>4
<1>6. QED
  BY <1>2, <1>3, <1>4, <1>5, OneSteps

\* A receiver takes SQLite's write lock, or waits for it in vain.
LEMMA BeginKeeps ==
  ASSUME ServiceInv, NEW s \in Receivers, Begin(s) \/ TimesOut(s)
  PROVE  ServiceInv'
<1>1. /\ rcv[s].pc = "begin" /\ rcv[s].pc # "closed" /\ UNCHANGED <<dir, ports>>
      /\ dir' \in Directory /\ ports' \in [Ports -> Receivers \union {None}]
  BY DEF Begin, TimesOut, ServiceInv, ServiceTypeOK, Directory
<1>2. CASE lock' = lock
  <2>1. Moves(s, "id") \/ Moves(s, "failed") \/ (Moves(s, "migrate") /\ lock = None /\ lock' = s)
    BY DEF Begin, TimesOut
  <2>2. lock # None \/ lock' # s
    BY <1>2, ServiceParameters
  <2>3. QED
    BY <1>1, <1>2, <2>1, <2>2, MovesKeep DEF Opening
<1>3. CASE lock' # lock
  <2>1. lock = None /\ lock' = s /\ Moves(s, "migrate") /\ ~(rcv[s].next > Migrations)
    BY <1>3 DEF Begin, TimesOut
  <2>2. rcv[s] \in Receiver /\ rcv[s].key \in {None, dir.key} /\ rcv[s].next <= Len(dir.schema) + 1
    BY <1>1, ReceiverFields DEF ServiceInv, ServiceTypeOK, DirInv
  <2>3. PICK r : r = [rcv[s] EXCEPT !.pc = "migrate"]
    OBVIOUS
  <2>4. /\ r \in Receiver /\ r.pc = "migrate" /\ r.key = rcv[s].key /\ r.next = rcv[s].next
        /\ rcv' = [rcv EXCEPT ![s] = r] /\ r.next \in 1..Migrations + 1
    BY <2>1, <2>2, <2>3 DEF Moves, Receiver, Opening
  <2>5. r.next <= Migrations
    BY <2>1, <2>4, ServiceParameters
  <2>6. QED
    BY <1>1, <2>1, <2>2, <2>4, <2>5, OneSteps
<1>4. QED
  BY <1>2, <1>3

\* The holder of the lock applies the next migration, if nobody has, and lets go.
LEMMA MigrateKeeps ==
  ASSUME ServiceInv, NEW s \in Receivers, Migrate(s)
  PROVE  ServiceInv'
<1>1. /\ rcv[s].pc = "migrate" /\ lock = s /\ lock' = None /\ UNCHANGED ports
      /\ rcv[s].next <= Migrations /\ rcv[s].next <= Len(dir.schema) + 1 /\ rcv[s].key \in {None, dir.key}
      /\ dir \in Directory /\ ports' \in [Ports -> Receivers \union {None}]
  BY DEF Migrate, ServiceInv, ServiceTypeOK, DirInv, Directory
<1>2. rcv[s] \in Receiver
  BY <1>1, ReceiverFields DEF ServiceInv, ServiceTypeOK
<1>3. PICK n \in 1..Migrations + 1 : n = rcv[s].next
  BY <1>2 DEF Receiver
<1>4. dir.schema \in Seq(1..Migrations) /\ Len(dir.schema) \in Nat /\ n \in 1..Migrations /\ n + 1 \in 1..Migrations + 1
  BY <1>1, <1>3, ServiceParameters DEF Directory
<1>5. PICK r : r = [rcv[s] EXCEPT !.pc = "begin", !.next = n + 1]
  OBVIOUS
<1>6. /\ r \in Receiver /\ r.pc = "begin" /\ r.key = rcv[s].key /\ r.next = n + 1
      /\ rcv' = [rcv EXCEPT ![s] = r]
  BY <1>2, <1>3, <1>4, <1>5 DEF Migrate, Receiver, Opening
<1>7. DOMAIN dir.schema = 1..Len(dir.schema) /\ \A i \in 1..Len(dir.schema) : dir.schema[i] = i
  BY <1>4 DEF ServiceInv, DirInv
<1>8. Applied(n) <=> n <= Len(dir.schema)
  BY <1>4, <1>7 DEF Applied
<1>9. CASE Applied(n)
  <2>1. dir' = dir
    BY <1>3, <1>9 DEF Migrate
  <2>2. r.next <= Len(dir'.schema) + 1
    BY <1>4, <1>6, <1>8, <1>9, <2>1
  <2>3. QED
    BY <1>1, <1>6, <2>1, <2>2, OneSteps
<1>10. CASE ~Applied(n)
  <2>1. n = Len(dir.schema) + 1
    BY <1>1, <1>3, <1>4, <1>8, <1>10
  <2>2. PICK schema \in Seq(1..Migrations) : schema = Append(dir.schema, n)
    <3>1. Append(dir.schema, n) \in Seq(1..Migrations)
      BY <1>4
    <3>2. QED
      BY <3>1
  <2>3. dir' = [dir EXCEPT !.schema = schema]
    BY <1>3, <1>10, <2>2 DEF Migrate
  <2>4. dir' \in Directory /\ dir'.schema = schema /\ dir'.key = dir.key
    BY <1>1, <2>2, <2>3 DEF Directory
  <2>5. Len(dir'.schema) = Len(dir.schema) + 1
    BY <1>4, <2>2, <2>4
  <2>6. r.next <= Len(dir'.schema) + 1
    BY <1>4, <1>6, <2>1, <2>5
  <2>7. Len(dir.schema) + 1 <= Migrations /\ dir'.schema = Append(dir.schema, Len(dir.schema) + 1)
    BY <1>4, <2>1, <2>2, <2>4, ServiceParameters
  <2>8. QED
    BY <1>1, <1>6, <2>4, <2>6, <2>7, OneSteps
<1>11. QED
  BY <1>9, <1>10

\* The directory when one of its files or values is another.
LEMMA DirectoryWith ==
  ASSUME ServiceInv
  PROVE  /\ dir \in Directory
         /\ \A id \in Makers : /\ [dir EXCEPT !.id = id] \in Directory
                               /\ [dir EXCEPT !.id = id].schema = dir.schema
                               /\ [dir EXCEPT !.id = id].key = dir.key
         /\ \A name \in Names : /\ [dir EXCEPT !.name = name] \in Directory
                                /\ [dir EXCEPT !.name = name].schema = dir.schema
                                /\ [dir EXCEPT !.name = name].key = dir.key
         /\ \A cert \in Makers \union {None, "torn", "old"} :
                                /\ [dir EXCEPT !.cert = cert] \in Directory
                                /\ [dir EXCEPT !.cert = cert].schema = dir.schema
                                /\ [dir EXCEPT !.cert = cert].key = dir.key
         /\ \A key \in Makers : /\ [dir EXCEPT !.key = key] \in Directory
                                /\ [dir EXCEPT !.key = key].schema = dir.schema
                                /\ [dir EXCEPT !.key = key].key = key
<1>1. dir \in Directory
  BY DEF ServiceInv, ServiceTypeOK, Directory
<1>2. \A id \in Makers : /\ [dir EXCEPT !.id = id] \in Directory
                         /\ [dir EXCEPT !.id = id].schema = dir.schema
                         /\ [dir EXCEPT !.id = id].key = dir.key
  BY <1>1 DEF Directory
<1>3. \A name \in Names : /\ [dir EXCEPT !.name = name] \in Directory
                          /\ [dir EXCEPT !.name = name].schema = dir.schema
                          /\ [dir EXCEPT !.name = name].key = dir.key
  BY <1>1 DEF Directory
<1>4. \A cert \in Makers \union {None, "torn", "old"} :
                          /\ [dir EXCEPT !.cert = cert] \in Directory
                          /\ [dir EXCEPT !.cert = cert].schema = dir.schema
                          /\ [dir EXCEPT !.cert = cert].key = dir.key
  BY <1>1 DEF Directory
<1>5. \A key \in Makers : /\ [dir EXCEPT !.key = key] \in Directory
                          /\ [dir EXCEPT !.key = key].schema = dir.schema
                          /\ [dir EXCEPT !.key = key].key = key
  BY <1>1 DEF Directory
<1>6. QED
  BY <1>1, <1>2, <1>3, <1>4, <1>5

\* The device id is read, or minted where none was.
LEMMA IdentifierKeeps ==
  ASSUME ServiceInv, NEW s \in Receivers, ReadId(s) \/ MintId(s)
  PROVE  ServiceInv'
<1>1. /\ rcv[s].pc \in {"id", "mint"} /\ UNCHANGED <<lock, ports>>
      /\ ports' \in [Ports -> Receivers \union {None}] /\ s \in Makers /\ dir.id \in Makers \union {None}
  BY DEF ReadId, MintId, ServiceInv, ServiceTypeOK, Makers
<1>2. rcv[s] \in Receiver /\ rcv[s].key \in {None, dir.key}
  BY <1>1, ReceiverFields DEF ServiceInv, ServiceTypeOK, DirInv
<1>3. CASE ReadId(s)
  <2>1. PICK pc \in {"mint", "template"} : pc = IF dir.id = None THEN "mint" ELSE "template"
    OBVIOUS
  <2>2. PICK r : r = [rcv[s] EXCEPT !.id = dir.id, !.pc = pc]
    OBVIOUS
  <2>3. r \in Receiver /\ r.pc = pc /\ r.key = rcv[s].key /\ rcv' = [rcv EXCEPT ![s] = r]
    BY <1>1, <1>2, <1>3, <2>1, <2>2 DEF ReadId, Receiver, Opening
  <2>4. dir' = dir /\ dir' \in Directory
    BY <1>3, DirectoryWith DEF ReadId
  <2>5. QED
    BY <1>1, <1>2, <2>1, <2>3, <2>4, OneSteps
<1>4. CASE MintId(s)
  <2>1. PICK r : r = [rcv[s] EXCEPT !.id = s, !.pc = "template"]
    OBVIOUS
  <2>2. r \in Receiver /\ r.pc = "template" /\ r.key = rcv[s].key /\ rcv' = [rcv EXCEPT ![s] = r]
    BY <1>1, <1>2, <1>4, <2>1 DEF MintId, Receiver, Opening
  <2>3. dir' \in Directory /\ dir'.schema = dir.schema /\ dir'.key = dir.key
    BY <1>1, <1>4, DirectoryWith DEF MintId
  <2>4. QED
    BY <1>1, <1>2, <2>2, <2>3, OneSteps
<1>5. QED
  BY <1>3, <1>4

\* The template of the settings is stored, beside what others rely on.
LEMMA TemplateKeeps ==
  ASSUME ServiceInv, NEW s \in Receivers, ApplyTemplate(s)
  PROVE  ServiceInv'
<1>1. /\ rcv[s].pc = "template" /\ rcv[s].pc # "closed" /\ UNCHANGED <<lock, ports>> /\ Moves(s, "key")
      /\ ports' \in [Ports -> Receivers \union {None}]
  BY DEF ApplyTemplate, ServiceInv, ServiceTypeOK
<1>2. rcv[s] \in Receiver
  BY <1>1, ReceiverFields DEF ServiceInv, ServiceTypeOK
<1>3. rcv[s].set.name \in Names \union {None}
  BY <1>2 DEF Receiver, Config
<1>4. dir' \in Directory /\ dir'.schema = dir.schema /\ dir'.key = dir.key
  BY <1>3, DirectoryWith DEF ApplyTemplate
<1>5. QED
  BY <1>1, <1>4, MovesKeep DEF Opening

\* The key is read, or made in a directory that has none.
LEMMA KeyKeeps ==
  ASSUME ServiceInv, NEW s \in Receivers, LoadKey(s) \/ CreateKey(s)
  PROVE  ServiceInv'
<1>1. /\ rcv[s].pc \in {"key", "create"} /\ UNCHANGED <<lock, ports>> /\ rcv[s].pc # "closed"
      /\ ports' \in [Ports -> Receivers \union {None}] /\ s \in Makers /\ dir.key \in Makers \union {None}
  BY DEF LoadKey, CreateKey, ServiceInv, ServiceTypeOK, Makers
<1>2. rcv[s] \in Receiver
  BY <1>1, ReceiverFields DEF ServiceInv, ServiceTypeOK
<1>3. CASE LoadKey(s)
  <2>1. PICK pc \in {"create", "cert"} : pc = IF dir.key = None THEN "create" ELSE "cert"
    OBVIOUS
  <2>2. PICK r : r = [rcv[s] EXCEPT !.key = dir.key, !.pc = pc]
    OBVIOUS
  <2>3. r \in Receiver /\ r.pc = pc /\ r.key = dir.key /\ rcv' = [rcv EXCEPT ![s] = r]
    BY <1>1, <1>2, <1>3, <2>1, <2>2 DEF LoadKey, Receiver, Opening
  <2>4. dir' = dir /\ dir' \in Directory
    BY <1>3, DirectoryWith DEF LoadKey
  <2>5. QED
    BY <1>1, <2>1, <2>3, <2>4, OneSteps
<1>4. CASE CreateKey(s) /\ dir.key = None
  <2>1. PICK r : r = [rcv[s] EXCEPT !.key = s, !.pc = "cert"]
    OBVIOUS
  <2>2. r \in Receiver /\ r.pc = "cert" /\ r.key = s /\ rcv' = [rcv EXCEPT ![s] = r]
    BY <1>1, <1>2, <1>4, <2>1 DEF CreateKey, Receiver, Opening
  <2>3. dir' \in Directory /\ dir'.schema = dir.schema /\ dir'.key = s
    BY <1>1, <1>4, DirectoryWith DEF CreateKey
  <2>4. QED
    BY <1>1, <1>4, <2>2, <2>3, OneSteps
<1>5. CASE CreateKey(s) /\ dir.key # None
  <2>1. dir' = dir /\ dir' \in Directory /\ Moves(s, "key")
    BY <1>5, DirectoryWith DEF CreateKey
  <2>2. QED
    BY <1>1, <2>1, MovesKeep DEF Opening
<1>6. QED
  BY <1>3, <1>4, <1>5

\* The certificate is read or signed, always of the key that was read.
LEMMA CertificateKeeps ==
  ASSUME ServiceInv, NEW s \in Receivers, LoadCert(s) \/ Issue(s) \/ Sign(s)
  PROVE  ServiceInv'
<1>1. /\ rcv[s].pc \in {"cert", "issue", "sign"} /\ UNCHANGED <<lock, ports>> /\ rcv[s].pc # "closed"
      /\ ports' \in [Ports -> Receivers \union {None}]
  BY DEF LoadCert, Issue, Sign, ServiceInv, ServiceTypeOK
<1>2. rcv[s].key \in Makers \union {None}
  BY ReceiverFields DEF ServiceInv, ServiceTypeOK
<1>3. dir' \in Directory /\ dir'.schema = dir.schema /\ dir'.key = dir.key
  <2>1. CASE LoadCert(s)
    BY <2>1, DirectoryWith DEF LoadCert
  <2>2. CASE Issue(s)
    BY <2>2, DirectoryWith DEF Issue
  <2>3. CASE Sign(s)
    BY <1>2, <2>3, DirectoryWith DEF Sign
  <2>4. QED
    BY <2>1, <2>2, <2>3
<1>4. PICK pc \in {"bind", "issue", "sign"} : Moves(s, pc)
  BY DEF LoadCert, Issue, Sign
<1>5. QED
  BY <1>1, <1>3, <1>4, MovesKeep DEF Opening

\* The steps by which ports are taken and let go, and what runs moves on and fails.
LEMMA RunsKeep ==
  ASSUME ServiceInv, NEW s \in Receivers,
         \/ Bind(s) \/ OpenFails(s) \/ Run(s) \/ PartFails(s) \/ AcceptFails(s) \/ Stop(s) \/ Drained(s)
  PROVE  ServiceInv'
<1>1. dir' = dir /\ dir' \in Directory
  BY DirectoryWith DEF Bind, OpenFails, Run, PartFails, AcceptFails, Stop, Drained
<1>2. rcv[s].pc # "closed" /\ (lock' = lock \/ (lock' = None /\ lock = s))
  BY DEF Bind, OpenFails, Run, PartFails, AcceptFails, Stop, Drained, Opening
<1>3. rcv[s] \in Receiver /\ rcv[s].key \in {None, dir.key}
  BY <1>2, ReceiverFields DEF ServiceInv, ServiceTypeOK, DirInv
<1>4. ports' \in [Ports -> Receivers \union {None}]
  <2>1. rcv[s].set.port \in Ports
    BY <1>3 DEF Receiver, Config
  <2>2. CASE Bind(s)
    BY <2>1, <2>2, PortTaken DEF Bind, ServiceInv, ServiceTypeOK
  <2>3. CASE Stop(s)
    BY <2>1, <2>3, PortTaken DEF Stop
  <2>4. CASE UNCHANGED ports
    BY <2>4 DEF ServiceInv, ServiceTypeOK
  <2>5. QED
    BY <2>2, <2>3, <2>4 DEF OpenFails, Run, PartFails, AcceptFails, Drained
<1>5. \/ \E pc \in {"open", "failed", "running", "deaf", "stopping", "stopped"} : Moves(s, pc)
      \/ rcv' = [rcv EXCEPT ![s].pc = "stopped", ![s].err = TRUE]
      \/ rcv' = [rcv EXCEPT ![s].ctx = TRUE, ![s].err = TRUE] /\ rcv[s].pc \in {"running", "deaf"}
  BY DEF Bind, OpenFails, Run, PartFails, AcceptFails, Stop, Drained
<1>6. ASSUME NEW pc \in {"open", "failed", "running", "deaf", "stopping", "stopped"}, Moves(s, pc)
      PROVE  ServiceInv'
  BY <1>1, <1>2, <1>4, <1>6, MovesKeep DEF Serving
<1>7. CASE rcv' = [rcv EXCEPT ![s].pc = "stopped", ![s].err = TRUE]
  <2>1. PICK r : r = [rcv[s] EXCEPT !.pc = "stopped", !.err = TRUE]
    OBVIOUS
  <2>2. r \in Receiver /\ r.pc = "stopped" /\ r.key = rcv[s].key /\ rcv' = [rcv EXCEPT ![s] = r]
    BY <1>3, <1>7, <2>1 DEF Receiver
  <2>3. QED
    BY <1>1, <1>2, <1>3, <1>4, <2>2, OneSteps
<1>8. CASE rcv' = [rcv EXCEPT ![s].ctx = TRUE, ![s].err = TRUE] /\ rcv[s].pc \in {"running", "deaf"}
  <2>1. PICK r : r = [rcv[s] EXCEPT !.ctx = TRUE, !.err = TRUE]
    OBVIOUS
  <2>2. r \in Receiver /\ r.pc = rcv[s].pc /\ r.key = rcv[s].key /\ rcv' = [rcv EXCEPT ![s] = r]
    BY <1>3, <1>8, <2>1 DEF Receiver
  <2>3. QED
    BY <1>1, <1>2, <1>3, <1>4, <1>8, <2>2, OneSteps
<1>9. QED
  BY <1>5, <1>6, <1>7, <1>8

\* What a receiver does by itself, and what fails.
LEMMA ServiceKeeps ==
  ASSUME ServiceInv, NEW s \in Receivers, Progress(s) \/ Faults(s) \/ Run(s)
  PROVE  ServiceInv'
<1>1. CASE Begin(s) \/ TimesOut(s)
  BY <1>1, BeginKeeps
<1>2. CASE Migrate(s)
  BY <1>2, MigrateKeeps
<1>3. CASE ReadId(s) \/ MintId(s)
  BY <1>3, IdentifierKeeps
<1>4. CASE ApplyTemplate(s)
  BY <1>4, TemplateKeeps
<1>5. CASE LoadKey(s) \/ CreateKey(s)
  BY <1>5, KeyKeeps
<1>6. CASE LoadCert(s) \/ Issue(s) \/ Sign(s)
  BY <1>6, CertificateKeeps
<1>7. CASE Bind(s) \/ OpenFails(s) \/ Run(s) \/ PartFails(s) \/ AcceptFails(s) \/ Stop(s) \/ Drained(s)
  BY <1>7, RunsKeep
<1>8. QED
  BY <1>1, <1>2, <1>3, <1>4, <1>5, <1>6, <1>7 DEF Progress, Faults

\* A process that ends lets go of its lock and its ports, and the directory stays as it is.
LEMMA ReleaseKeeps ==
  ASSUME ServiceInv, NEW S, Release(S)
  PROVE  ServiceInv'
<1>1. /\ dir' = dir /\ rcv' = [s \in Receivers |-> IF s \in S THEN Closed ELSE rcv[s]]
      /\ ports' = [p \in Ports |-> IF ports[p] \in S THEN None ELSE ports[p]]
      /\ lock' = IF lock \in S THEN None ELSE lock
  BY DEF Release
<1>2. /\ rcv \in [Receivers -> Receiver \union {Closed}] /\ lock \in Receivers \union {None}
      /\ ports \in [Ports -> Receivers \union {None}]
  BY DEF ServiceInv, ServiceTypeOK
<1>3. /\ rcv' \in [Receivers -> Receiver \union {Closed}] /\ lock' \in Receivers \union {None}
      /\ ports' \in [Ports -> Receivers \union {None}]
  BY <1>1, <1>2
<1>4. ServiceTypeOK'
  BY <1>1, <1>3 DEF ServiceInv, ServiceTypeOK
<1>5. \A s \in Receivers : rcv'[s] = Closed \/ (rcv'[s] = rcv[s] /\ s \notin S)
  BY <1>1
<1>6. Closed.pc = "closed" /\ Closed.key = None
  BY DEF Closed
<1>7. DirInv'
  BY <1>1, <1>5, <1>6 DEF ServiceInv, DirInv
<1>8. QED
  BY <1>4, <1>7 DEF ServiceInv

\* A context that is done.  What is closed has none, and stays as it is.
LEMMA CancelKeeps ==
  ASSUME ServiceInv, NEW s \in Receivers, Cancel(s), UNCHANGED <<dir, lock, ports>>
  PROVE  ServiceInv'
<1>1. dir' = dir /\ dir' \in Directory /\ ports' \in [Ports -> Receivers \union {None}] /\ lock' = lock
  BY DirectoryWith DEF ServiceInv, ServiceTypeOK
<1>2. /\ rcv[s] \in Receiver \union {Closed} /\ rcv[s].key \in {None, dir.key}
      /\ rcv[s].pc = "migrate" => lock' = s /\ rcv[s].next <= Migrations
      /\ rcv[s].pc \in {"begin", "migrate"} => rcv[s].next <= Len(dir.schema) + 1
  BY <1>1 DEF ServiceInv, ServiceTypeOK, DirInv
<1>3. PICK r : r = [rcv[s] EXCEPT !.ctx = TRUE]
  OBVIOUS
<1>4. rcv' = [rcv EXCEPT ![s] = r]
  BY <1>3 DEF Cancel
<1>5. CASE rcv[s] \in Receiver
  <2>1. r \in Receiver /\ r.pc = rcv[s].pc /\ r.key = rcv[s].key /\ r.next = rcv[s].next
    BY <1>3, <1>5 DEF Receiver
  <2>2. QED
    BY <1>1, <1>2, <1>4, <2>1, OneSteps
<1>6. CASE rcv[s] = Closed
  <2>1. r = Closed
    BY <1>3, <1>6 DEF Closed
  <2>2. QED
    BY <1>1, <1>2, <1>4, <1>6, <2>1, OneSteps
<1>7. QED
  BY <1>2, <1>5, <1>6

\* The template of the names is written by the window as well.
LEMMA NameKeeps ==
  ASSUME ServiceInv, UNCHANGED <<lock, ports, rcv>>,
         dir' = dir \/ \E name \in Names : dir' = [dir EXCEPT !.name = name]
  PROVE  ServiceInv'
<1>1. dir' \in Directory /\ dir'.schema = dir.schema /\ dir'.key = dir.key
  BY DirectoryWith
<1>2. ServiceTypeOK'
  BY <1>1 DEF ServiceInv, ServiceTypeOK, Directory
<1>3. DirInv'
  BY <1>1 DEF ServiceInv, DirInv
<1>4. QED
  BY <1>2, <1>3 DEF ServiceInv

\* A new directory, and one of an earlier version.
LEMMA ServiceStarts ==
  ASSUME ServiceInit
  PROVE  ServiceInv
<1>1. /\ lock = None /\ ports = [p \in Ports |-> None] /\ rcv = [s \in Receivers |-> Closed]
      /\ dir = [schema |-> <<>>, id |-> None, name |-> None, key |-> None, cert |-> None]
         \/ dir \in [schema: {[i \in 1..Migrations |-> i]}, id: {"earlier"}, name: {None},
                     key: {"earlier"}, cert: {"earlier", "old"}]
  BY DEF ServiceInit
<1>2. dir \in Directory /\ \A i \in DOMAIN dir.schema : dir.schema[i] = i
  <2>1. CASE dir = [schema |-> <<>>, id |-> None, name |-> None, key |-> None, cert |-> None]
    BY <2>1 DEF Directory
  <2>2. CASE dir \in [schema: {[i \in 1..Migrations |-> i]}, id: {"earlier"}, name: {None},
                      key: {"earlier"}, cert: {"earlier", "old"}]
    <3>1. PICK schema : schema = [i \in 1..Migrations |-> i]
      OBVIOUS
    <3>2. schema \in Seq(1..Migrations) /\ \A i \in DOMAIN schema : schema[i] = i
      BY <3>1, ServiceParameters
    <3>3. QED
      BY <2>2, <3>1, <3>2 DEF Directory, Makers
  <2>3. QED
    BY <1>1, <2>1, <2>2
<1>3. Closed.pc = "closed" /\ Closed.key = None
  BY DEF Closed
<1>4. ServiceTypeOK
  BY <1>1, <1>2 DEF ServiceTypeOK, Directory
<1>5. DirInv
  BY <1>1, <1>2, <1>3 DEF DirInv
<1>6. QED
  BY <1>4, <1>5 DEF ServiceInv

\* Nothing of the service changes.
LEMMA ServiceStays ==
  ASSUME ServiceInv, UNCHANGED serviceVars
  PROVE  ServiceInv'
BY DEF ServiceInv, ServiceTypeOK, DirInv, serviceVars

\* What a daemon does.
LEMMA DaemonKeeps ==
  ASSUME ServiceInv, DaemonTypeOK, NEW d \in Daemons, DaemonNext(d)
  PROVE  ServiceInv' /\ DaemonTypeOK'
<1>1. d \in Receivers /\ ConfigOf[d] \in Config /\ MaxKills \in Nat
  BY DaemonAssumption
<1>2. CASE (Progress(d) \/ Faults(d)) /\ UNCHANGED daemonVars
  BY <1>1, <1>2, ServiceKeeps DEF DaemonTypeOK, daemonVars
<1>3. CASE Start(d)
  BY <1>1, <1>3, OpenKeeps DEF Start, DaemonTypeOK, daemonVars
<1>4. CASE GivesUp(d)
  BY <1>4, ReleaseKeeps DEF GivesUp, DaemonTypeOK, daemonVars
<1>5. CASE Serve(d)
  <2>1. ServiceInv'
    BY <1>1, <1>5, ServiceKeeps DEF Serve
  <2>2. DaemonTypeOK'
    BY <1>5 DEF Serve, DaemonTypeOK
  <2>3. QED
    BY <2>1, <2>2
<1>6. CASE Stat(d) \/ Dial(d) \/ Remove(d) \/ Listen(d) \/ Close(d) \/ Unlink(d)
  <2>1. UNCHANGED <<serviceVars, kills>> /\ sock' \in {sock, None, d}
    BY <1>6 DEF Stat, Dial, Remove, Listen, Close, Unlink, CtlMoves
  <2>2. ctl' \in [Daemons -> {"off", "stat", "dial", "remove", "listen", "up", "unlink", "ended", "failed"}]
    <3>1. PICK pc \in {"off", "stat", "dial", "remove", "listen", "up", "unlink", "ended", "failed"} :
            ctl' = [ctl EXCEPT ![d] = pc]
      BY <1>6 DEF Stat, Dial, Remove, Listen, Close, Unlink, CtlMoves
    <3>2. QED
      BY <3>1 DEF DaemonTypeOK
  <2>3. ServiceInv'
    BY <2>1, ServiceStays
  <2>4. QED
    BY <2>1, <2>2, <2>3 DEF DaemonTypeOK
<1>7. CASE CtlFails(d) \/ Signal(d)
  BY <1>1, <1>7, CancelKeeps DEF CtlFails, Signal, DaemonTypeOK, daemonVars
<1>8. CASE Exit(d)
  <2>1. ServiceInv'
    BY <1>8, ReleaseKeeps DEF Exit
  <2>2. DaemonTypeOK'
    BY <1>8 DEF Exit, DaemonTypeOK
  <2>3. QED
    BY <2>1, <2>2
<1>9. CASE Kill(d)
  <2>1. ServiceInv'
    BY <1>9, ReleaseKeeps DEF Kill
  <2>2. kills' \in 0..MaxKills
    BY <1>1, <1>9 DEF Kill, DaemonTypeOK
  <2>3. DaemonTypeOK'
    BY <1>9, <2>2 DEF Kill, DaemonTypeOK
  <2>4. QED
    BY <2>1, <2>3
<1>10. QED
  BY <1>2, <1>3, <1>4, <1>5, <1>6, <1>7, <1>8, <1>9 DEF DaemonNext, DaemonProgress

-----------------------------------------------------------------------------
\* The settings of the app are a configuration of a receiver.
LEMMA DesktopParameters ==
  /\ Settings \subseteq Config /\ Defaults \in Settings /\ Choices \subseteq Settings
  /\ Handles \subseteq Receivers /\ MaxCalls \in Nat /\ None \notin Handles
BY DesktopAssumption, ServiceParameters DEF Settings, Config

\* A call is idle, or has its fields.
LEMMA CallFields ==
  ASSUME DesktopTypeOK, NEW c \in Calls, call[c].pc # "idle"
  PROVE  /\ call[c] \in Call /\ call[c] # Idle
         /\ call[c].next \in Settings /\ call[c].prev \in Settings
         /\ call[c].h \in Handles \union {None} /\ call[c].for \in {"start", "save", "shutdown"}
<1>1. call[c] \in Call \union {Idle}
  BY DEF DesktopTypeOK
<1>2. call[c] # Idle
  BY DEF Idle
<1>3. QED
  BY <1>1, <1>2 DEF Call

\* A call goes on, or returns.
LEMMA CallTyped ==
  ASSUME DesktopTypeOK, NEW c \in Calls, NEW k \in Call \union {Idle}, call' = [call EXCEPT ![c] = k]
  PROVE  call' \in [Calls -> Call \union {Idle}]
BY DEF DesktopTypeOK

\* A call that goes on has another pc.
LEMMA GoesTyped ==
  ASSUME DesktopTypeOK, NEW c \in Calls, call[c].pc # "idle",
         NEW pc \in {"load", "save", "write", "apply", "stop", "wait", "start", "opening", "template", "finished"},
         Goes(c, pc)
  PROVE  call' \in [Calls -> Call \union {Idle}]
<1>1. call[c] \in Call
  BY CallFields
<1>2. PICK k : k = [call[c] EXCEPT !.pc = pc]
  OBVIOUS
<1>3. k \in Call
  BY <1>1, <1>2 DEF Call
<1>4. call' = [call EXCEPT ![c] = k]
  BY <1>2 DEF Goes
<1>5. QED
  BY <1>3, <1>4, CallTyped

\* The app, with another of its fields.
Apps == [up: {"new", "up", "quit"}, set: Settings, h: Handles \union {None}, err: BOOLEAN]

\* The app's record, with one of its fields replaced.
LEMMA AppWith ==
  ASSUME DesktopTypeOK
  PROVE  /\ app \in Apps /\ app.set \in Settings /\ app.h \in Handles \union {None} /\ app.err \in BOOLEAN
         /\ \A up \in {"new", "up", "quit"} : [app EXCEPT !.up = up] \in Apps
         /\ \A set \in Settings : [app EXCEPT !.set = set] \in Apps
         /\ \A h \in Handles \union {None} : [app EXCEPT !.h = h] \in Apps
         /\ \A err \in BOOLEAN : [app EXCEPT !.err = err] \in Apps
         /\ \A h \in Handles \union {None}, err \in BOOLEAN : [app EXCEPT !.h = h, !.err = err] \in Apps
<1>1. app \in Apps
  BY DEF DesktopTypeOK, Apps
<1>2. app.set \in Settings /\ app.h \in Handles \union {None} /\ app.err \in BOOLEAN
  BY <1>1 DEF Apps
<1>3. \A up \in {"new", "up", "quit"} : [app EXCEPT !.up = up] \in Apps
  BY <1>1 DEF Apps
<1>4. \A set \in Settings : [app EXCEPT !.set = set] \in Apps
  BY <1>1 DEF Apps
<1>5. \A h \in Handles \union {None} : [app EXCEPT !.h = h] \in Apps
  BY <1>1 DEF Apps
<1>6. \A err \in BOOLEAN : [app EXCEPT !.err = err] \in Apps
  BY <1>1 DEF Apps
<1>7. \A h \in Handles \union {None}, err \in BOOLEAN : [app EXCEPT !.h = h, !.err = err] \in Apps
  BY <1>1 DEF Apps
<1>8. QED
  BY <1>1, <1>2, <1>3, <1>4, <1>5, <1>6, <1>7

\* A call of the window begins.
LEMMA CalledKeeps ==
  ASSUME ServiceInv, DesktopTypeOK, NEW c \in Calls,
         AppStart(c) \/ Shutdown(c) \/ \E next \in Choices : SaveSettings(c, next)
  PROVE  ServiceInv' /\ DesktopTypeOK'
<1>1. UNCHANGED <<serviceVars, stored>> /\ app.set \in Settings
  BY AppWith DEF AppStart, Shutdown, SaveSettings, Called
<1>2. ServiceInv'
  BY <1>1, ServiceStays
<1>3. PICK for \in {"start", "save", "shutdown"}, next \in Settings : Called(c, for, next)
  BY <1>1, DesktopParameters DEF AppStart, Shutdown, SaveSettings
<1>4. PICK k : k = [pc |-> FirstStep[for], for |-> for, next |-> next, prev |-> app.set, todo |-> Keys, h |-> None]
  OBVIOUS
<1>5. FirstStep[for] \in {"load", "write", "stop"}
  BY DEF FirstStep
<1>6. k \in Call
  BY <1>1, <1>4, <1>5 DEF Call
<1>7. call' = [call EXCEPT ![c] = k]
  BY <1>3, <1>4 DEF Called
<1>8. call' \in [Calls -> Call \union {Idle}]
  BY <1>6, <1>7, CallTyped
<1>9. app' \in Apps
  BY AppWith DEF AppStart, Shutdown, SaveSettings
<1>10. made' \in 0..MaxCalls
  BY DesktopParameters DEF AppStart, Shutdown, SaveSettings, DesktopTypeOK
<1>11. QED
  BY <1>1, <1>2, <1>8, <1>9, <1>10 DEF DesktopTypeOK, Apps

\* A call goes on with the settings and the ledger.
LEMMA SettingsKeep ==
  ASSUME ServiceInv, DesktopTypeOK, NEW c \in Calls,
         Load(c) \/ WriteFails(c) \/ Applies(c) \/ SetTemplate(c) \/ \E k \in Keys : Write(c, k)
  PROVE  ServiceInv' /\ DesktopTypeOK'
<1>1. UNCHANGED <<lock, ports, rcv, made>> /\ call[c].pc # "idle"
  BY DEF Load, WriteFails, Applies, SetTemplate, Write, serviceVars
<1>2. /\ call[c] \in Call /\ call[c].next \in Settings /\ call[c].next.name \in Names
      /\ call[c].next.port \in Ports
  BY <1>1, CallFields DEF Settings
<1>3. dir' = dir \/ \E name \in Names : dir' = [dir EXCEPT !.name = name]
  BY <1>2 DEF Load, WriteFails, Applies, SetTemplate, Write, serviceVars
<1>4. ServiceInv'
  BY <1>1, <1>3, NameKeeps
<1>5. stored' \in Ports \union {None}
  BY <1>2 DEF Load, WriteFails, Applies, SetTemplate, Write, DesktopTypeOK
<1>6. app' \in Apps
  BY <1>2, AppWith DEF Load, WriteFails, Applies, SetTemplate, Write
<1>7. call' \in [Calls -> Call \union {Idle}]
  <2>1. CASE Load(c)
    <3>1. LoadedSettings \in Settings
      <4>1. Defaults.port \in Ports /\ Defaults.name \in Names
        BY DesktopParameters DEF Settings
      <4>2. stored \in Ports \union {None} /\ dir.name \in Names \union {None}
        BY DirectoryWith DEF DesktopTypeOK, Directory
      <4>3. QED
        BY <4>1, <4>2 DEF LoadedSettings, Settings
    <3>2. PICK pc \in {"write", "apply"} :
            call' = [call EXCEPT ![c].next = LoadedSettings, ![c].prev = LoadedSettings, ![c].pc = pc]
      BY <2>1 DEF Load
    <3>3. PICK k : k = [call[c] EXCEPT !.next = LoadedSettings, !.prev = LoadedSettings, !.pc = pc]
      OBVIOUS
    <3>4. k \in Call /\ call' = [call EXCEPT ![c] = k]
      BY <1>2, <3>1, <3>2, <3>3 DEF Call, DesktopTypeOK
    <3>5. QED
      BY <3>4, CallTyped
  <2>2. CASE WriteFails(c) \/ SetTemplate(c)
    BY <2>2, CallTyped DEF WriteFails, SetTemplate, Returns
  <2>3. CASE Applies(c)
    <3>1. PICK pc \in {"start", "stop", "template"} : Goes(c, pc)
      BY <2>3 DEF Applies
    <3>2. QED
      BY <1>1, <3>1, GoesTyped
  <2>4. ASSUME NEW key \in Keys, Write(c, key)
        PROVE  call' \in [Calls -> Call \union {Idle}]
    <3>1. PICK pc \in {"apply", "write"} : pc = IF call[c].todo = {key} THEN "apply" ELSE "write"
      OBVIOUS
    <3>2. PICK todo \in SUBSET Keys : todo = call[c].todo \ {key}
      BY <1>2 DEF Call
    <3>3. PICK k : k = [call[c] EXCEPT !.todo = todo, !.pc = pc]
      OBVIOUS
    <3>4. k \in Call /\ call' = [call EXCEPT ![c] = k]
      BY <1>2, <2>4, <3>1, <3>2, <3>3 DEF Call, Write, DesktopTypeOK
    <3>5. QED
      BY <3>4, CallTyped
  <2>5. QED
    BY <2>1, <2>2, <2>3, <2>4
<1>8. QED
  BY <1>1, <1>4, <1>5, <1>6, <1>7 DEF DesktopTypeOK, Apps

\* A call takes the receiver down, and builds another.
LEMMA RestartKeeps ==
  ASSUME ServiceInv, DesktopTypeOK, NEW c \in Calls,
         \/ StopReceiver(c) \/ Waited(c) \/ StartFailed(c) \/ Started(c)
         \/ \E h \in Handles : StartReceiver(c, h)
  PROVE  ServiceInv' /\ DesktopTypeOK'
<1>1. UNCHANGED <<stored, made>> /\ call[c].pc # "idle"
  BY DEF StopReceiver, Waited, StartFailed, Started, StartReceiver
<1>2. call[c] \in Call /\ call[c].next \in Settings /\ call[c].h \in Handles \union {None}
  BY <1>1, CallFields
<1>3. ServiceInv'
  <2>1. CASE StopReceiver(c)
    <3>1. app.h = None \/ app.h \in Receivers
      BY AppWith, DesktopParameters
    <3>2. UNCHANGED <<dir, lock, ports>> /\ (UNCHANGED rcv \/ (app.h \in Receivers /\ Cancel(app.h)))
      BY <2>1, <3>1 DEF StopReceiver
    <3>3. CASE UNCHANGED rcv
      BY <3>2, <3>3, ServiceStays DEF serviceVars
    <3>4. CASE app.h \in Receivers /\ Cancel(app.h)
      <4>1. PICK s \in Receivers : s = app.h
        BY <3>4
      <4>2. Cancel(s)
        BY <3>4, <4>1
      <4>3. QED
        BY <3>2, <4>2, CancelKeeps
    <3>5. QED
      BY <3>2, <3>3, <3>4
  <2>2. CASE Waited(c)
    <3>1. PICK S : S = {call[c].h}
      OBVIOUS
    <3>2. Release(S)
      BY <2>2, <3>1 DEF Waited
    <3>3. QED
      BY <3>2, ReleaseKeeps
  <2>3. CASE StartFailed(c)
    <3>1. PICK S : S = {call[c].h}
      OBVIOUS
    <3>2. Release(S)
      BY <2>3, <3>1 DEF StartFailed
    <3>3. QED
      BY <3>2, ReleaseKeeps
  <2>4. CASE Started(c)
    BY <2>4, ServiceStays DEF Started
  <2>5. ASSUME NEW h \in Handles, StartReceiver(c, h)
        PROVE  ServiceInv'
    <3>1. PICK set \in Config : set = call[c].next
      BY <1>2, DesktopParameters
    <3>2. Open(h, set) /\ h \in Receivers
      BY <2>5, <3>1, DesktopParameters DEF StartReceiver
    <3>3. QED
      BY <3>2, OpenKeeps
  <2>6. QED
    BY <2>1, <2>2, <2>3, <2>4, <2>5
<1>4. app' \in Apps
  BY <1>2, AppWith DEF StopReceiver, Waited, StartFailed, Started, StartReceiver
<1>5. call' \in [Calls -> Call \union {Idle}]
  <2>1. CASE StartFailed(c) \/ Started(c) \/ (Waited(c) /\ Returns(c))
    BY <2>1, CallTyped DEF StartFailed, Started, Returns
  <2>2. CASE ~(StartFailed(c) \/ Started(c) \/ (Waited(c) /\ Returns(c)))
    <3>1. ASSUME NEW h \in Handles \union {None}, NEW pc \in {"wait", "start", "opening"},
                 \/ call' = [call EXCEPT ![c].h = h, ![c].pc = pc]
                 \/ call' = [call EXCEPT ![c].pc = pc, ![c].h = h]
          PROVE  call' \in [Calls -> Call \union {Idle}]
      <4>1. PICK k : k = [call[c] EXCEPT !.h = h, !.pc = pc]
        OBVIOUS
      <4>2. PICK l : l = [call[c] EXCEPT !.pc = pc, !.h = h]
        OBVIOUS
      <4>3. k \in Call /\ l \in Call
        BY <1>2, <4>1, <4>2 DEF Call
      <4>4. call' = [call EXCEPT ![c] = k] \/ call' = [call EXCEPT ![c] = l]
        BY <3>1, <4>1, <4>2 DEF DesktopTypeOK
      <4>5. QED
        BY <4>3, <4>4, CallTyped
    <3>2. CASE StopReceiver(c)
      <4>1. PICK h \in Handles \union {None} : h = app.h
        BY AppWith
      <4>2. call' = [call EXCEPT ![c].h = h, ![c].pc = "wait"]
        BY <3>2, <4>1 DEF StopReceiver
      <4>3. QED
        BY <3>1, <4>2
    <3>3. CASE Waited(c)
      <4>1. call' = [call EXCEPT ![c].pc = "start", ![c].h = None]
        BY <2>2, <3>3 DEF Waited
      <4>2. QED
        BY <3>1, <4>1
    <3>4. ASSUME NEW h \in Handles, StartReceiver(c, h)
          PROVE  call' \in [Calls -> Call \union {Idle}]
      <4>1. call' = [call EXCEPT ![c].pc = "opening", ![c].h = h]
        BY <3>4 DEF StartReceiver
      <4>2. QED
        BY <3>1, <4>1
    <3>5. QED
      BY <2>2, <3>2, <3>3, <3>4
  <2>3. QED
    BY <2>1, <2>2
<1>6. QED
  BY <1>1, <1>3, <1>4, <1>5 DEF DesktopTypeOK, Apps

\* The goroutine of a receiver, and what a receiver does by itself.
LEMMA HandleKeeps ==
  ASSUME ServiceInv, DesktopTypeOK, NEW h \in Handles,
         HandleProgress(h) \/ (Faults(h) /\ UNCHANGED desktopVars)
  PROVE  ServiceInv' /\ DesktopTypeOK'
<1>1. h \in Receivers
  BY DesktopParameters
<1>2. ServiceInv'
  <2>1. Progress(h) \/ Faults(h) \/ Run(h)
    BY DEF HandleProgress, Goroutine, Progress
  <2>2. QED
    BY <1>1, <2>1, ServiceKeeps
<1>3. CASE Goroutine(h)
  <2>1. PICK err \in BOOLEAN : err = (app.err \/ (app.h = h /\ rcv'[h].pc = "stopped" /\ rcv'[h].err))
    OBVIOUS
  <2>2. app' = [app EXCEPT !.err = err]
    BY <1>3, <2>1 DEF Goroutine
  <2>3. app' \in Apps
    BY <2>2, AppWith
  <2>4. UNCHANGED <<stored, call, made>>
    BY <1>3 DEF Goroutine
  <2>5. QED
    BY <1>2, <2>3, <2>4 DEF DesktopTypeOK, Apps
<1>4. CASE UNCHANGED desktopVars
  BY <1>2, <1>4 DEF DesktopTypeOK, desktopVars
<1>5. QED
  BY <1>3, <1>4 DEF HandleProgress

-----------------------------------------------------------------------------
\* The front ends together.
FrontendsInv == ServiceInv /\ DaemonTypeOK /\ DesktopTypeOK /\ LiveInv /\ present \in Machines

\* Nothing of the live view changes.
LEMMA LiveStays ==
  ASSUME LiveInv, UNCHANGED liveVars
  PROVE  LiveInv'
<1>1. PICK V \in Seq(Views) : Foreseen(V)
  BY DEF LiveInv
<1>2. LiveTyped'
  BY DEF LiveInv, LiveTyped, liveVars
<1>3. Foreseen(V)'
  BY <1>1 DEF Foreseen, liveVars, Agrees, Shown, Reached, Moved, Has, Before
<1>4. QED
  BY <1>1, <1>2, <1>3 DEF LiveInv

\* Nothing of the app changes.
LEMMA DesktopStays ==
  ASSUME DesktopTypeOK, UNCHANGED desktopVars
  PROVE  DesktopTypeOK'
BY DEF DesktopTypeOK, desktopVars

\* Nothing of the daemons changes.
LEMMA DaemonStays ==
  ASSUME DaemonTypeOK, UNCHANGED daemonVars
  PROVE  DaemonTypeOK'
BY DEF DaemonTypeOK, daemonVars

\* What a step of the app leaves of the live view and of the daemons.
LEMMA DesktopsKeeps ==
  ASSUME FrontendsInv, DesktopStep
  PROVE  FrontendsInv'
<1>1. /\ UNCHANGED <<daemonVars, present>> /\ (Replace \/ UNCHANGED liveVars)
      /\ DesktopNext \/ \E h \in Handles : Faults(h) /\ UNCHANGED desktopVars
  BY DEF DesktopStep, Desktops
<1>2. ServiceInv /\ DesktopTypeOK /\ LiveInv
  BY DEF FrontendsInv
<1>3. ServiceInv' /\ DesktopTypeOK'
  BY <1>1, <1>2, CalledKeeps, SettingsKeep, RestartKeeps, HandleKeeps DEF DesktopNext, CallProgress
<1>4. LiveInv'
  BY <1>1, <1>2, LiveStepKeeps, LiveStays
<1>5. QED
  BY <1>1, <1>3, <1>4 DEF FrontendsInv, DaemonTypeOK, daemonVars

\* The app is killed in the middle of anything.
LEMMA KillKeeps ==
  ASSUME FrontendsInv, DesktopKill
  PROVE  FrontendsInv'
<1>1. PICK S : S = Handles
  OBVIOUS
<1>2. ServiceInv'
  BY <1>1, ReleaseKeeps DEF FrontendsInv, DesktopKill
<1>3. DesktopTypeOK'
  BY DesktopParameters DEF FrontendsInv, DesktopKill, DesktopTypeOK
<1>4. DaemonTypeOK'
  <2>1. kills' \in 0..MaxKills
    BY DaemonAssumption DEF FrontendsInv, DesktopKill, DaemonTypeOK
  <2>2. QED
    BY <2>1 DEF FrontendsInv, DesktopKill, DaemonTypeOK
<1>5. LiveInv' /\ present' \in Machines
  BY LiveStays DEF FrontendsInv, DesktopKill
<1>6. QED
  BY <1>2, <1>3, <1>4, <1>5 DEF FrontendsInv

\* The first state of any machine.
LEMMA FrontendsStart ==
  ASSUME Init
  PROVE  FrontendsInv
<1>1. ServiceInv /\ LiveInv /\ present \in Machines
  BY ServiceStarts, LiveStarts DEF Init
<1>2. DaemonTypeOK
  BY DaemonAssumption DEF Init, DaemonInit, DaemonTypeOK
<1>3. DesktopTypeOK
  BY DesktopParameters DEF Init, DesktopInit, DesktopTypeOK
<1>4. QED
  BY <1>1, <1>2, <1>3 DEF FrontendsInv

\* Every step of every front end, and the steps of nobody.
LEMMA FrontendsSteps ==
  ASSUME FrontendsInv, [Next]_vars
  PROVE  FrontendsInv'
<1>1. CASE DesktopStep
  BY <1>1, DesktopsKeeps
<1>2. CASE DesktopKill
  BY <1>2, KillKeeps
<1>3. CASE PhoneStep
  <2>1. LiveInv'
    BY <1>3, LiveStepKeeps DEF PhoneStep, FrontendsInv
  <2>2. UNCHANGED <<serviceVars, daemonVars, desktopVars, present>>
    BY <1>3 DEF PhoneStep
  <2>3. QED
    BY <2>1, <2>2, ServiceStays, DaemonStays, DesktopStays DEF FrontendsInv
<1>4. CASE DaemonStep
  <2>1. PICK d \in Daemons : DaemonNext(d)
    BY <1>4 DEF DaemonStep
  <2>2. UNCHANGED <<desktopVars, liveVars, present>>
    BY <1>4 DEF DaemonStep, Alone
  <2>3. QED
    BY <2>1, <2>2, DaemonKeeps, DesktopStays, LiveStays DEF FrontendsInv
<1>5. CASE UNCHANGED vars
  <2>1. UNCHANGED <<serviceVars, daemonVars, desktopVars, liveVars, present>>
    BY <1>5 DEF vars
  <2>2. QED
    BY <2>1, ServiceStays, DaemonStays, DesktopStays, LiveStays DEF FrontendsInv
<1>6. QED
  BY <1>1, <1>2, <1>3, <1>4, <1>5 DEF Next

\* FrontendsInv holds in every state the front ends reach, whoever starts and whoever is
\* killed: no process ever sees a directory, a port or a call the code does not expect.
THEOREM FrontendsSound == Spec => []FrontendsInv
<1>1. Init => FrontendsInv
  BY FrontendsStart
<1>2. FrontendsInv /\ [Next]_vars => FrontendsInv'
  BY FrontendsSteps
<1>3. QED
  BY <1>1, <1>2, PTL DEF Spec

\* The state of the receivers, the daemons, the app and the live view has its type.
THEOREM FrontendsTyped == Spec => []TypeOK
<1>1. FrontendsInv => TypeOK
  BY LiveShows DEF FrontendsInv, ServiceInv, TypeOK
<1>2. QED
  BY <1>1, FrontendsSound, PTL

\* However many daemons and apps open one state directory at one time, and whoever is killed
\* while it does: each migration was applied once and in its order, and every receiver
\* presents the key that is stored.
THEOREM DirectoryShared == Spec => []DirectoryIsShared
<1>1. FrontendsInv => DirectoryIsShared
  BY DEF FrontendsInv, ServiceInv, DirInv, DirectoryIsShared
<1>2. QED
  BY <1>1, FrontendsSound, PTL

\* When the window has seen every event, a transfer that moves has a row that is not ahead of
\* it and one that ended has none, for any number of transfers and any depth of the queue.
THEOREM RowsMatched == Spec => []RowsMatch
<1>1. FrontendsInv => RowsMatch
  BY LiveShows DEF FrontendsInv
<1>2. QED
  BY <1>1, FrontendsSound, PTL

\* No throughput is shown for bytes that did not move, with events still on their way.
THEOREM RateReal == Spec => []RateIsReal
<1>1. FrontendsInv => RateIsReal
  BY LiveShows DEF FrontendsInv
<1>2. QED
  BY <1>1, FrontendsSound, PTL

(***************************************************************************)
(* The window, one call of which is in progress at a time.                 *)
(*                                                                         *)
(* A receiver that is open is the app's, or that of the call that opens it *)
(* or waits for its end, and then the app has none.  The app's receiver    *)
(* serves the settings that are shown unless a call is about to take it    *)
(* down, and it stops by itself only with an error that is reported.       *)
(***************************************************************************)

OneCall == \A c, d \in Calls : c = d

\* k is the call.
One(k) == (\A c \in Calls : call[c] = k) /\ (Calls = {} => k = Idle)

Built  == {"open", "running", "deaf", "stopping", "stopped"}
Rising == Opening \union {"failed", "open"}

\* What a call is for, and how far it gets.
Stages(k) == k # Idle =>
  /\ app.up # "new"
  /\ k.for = "start" => k.pc \in {"load", "write", "apply", "start", "opening"} /\ app.h = None
  /\ k.for = "save" => k.pc \in {"write", "apply", "stop", "wait", "start", "opening", "template"}
  /\ k.for = "shutdown" => k.pc \in {"stop", "wait"} /\ app.up = "quit"

\* Who has a receiver that is open.
Held(k) ==
  /\ app.up = "new" => app.h = None
  /\ app.h # None => rcv[app.h].pc \in Built
  /\ \A h \in Handles : rcv[h].pc # "closed" => h = app.h \/ (k # Idle /\ h = k.h)
  /\ k # Idle =>
       /\ k.pc \in {"wait", "start", "opening"} => app.h = None
       /\ k.h # None => k.pc \in {"wait", "opening"}
       /\ k.pc = "opening" => /\ k.h # None /\ rcv[k.h].pc \in Rising
                              /\ ~rcv[k.h].ctx /\ ~rcv[k.h].err /\ rcv[k.h].set = k.next

\* What is reported: with no receiver, and when it has stopped.
Reported(k) ==
  /\ app.h # None => /\ rcv[app.h].ctx => rcv[app.h].err
                     /\ rcv[app.h].pc = "stopping" => rcv[app.h].ctx
                     /\ rcv[app.h].pc = "stopped" => app.err
  /\ /\ app.up = "up" /\ app.h = None
     /\ k = Idle \/ (k.for = "save" /\ k.pc \in {"write", "apply", "stop", "template"})
     => app.err

\* Whose settings are served.
Served(k) ==
  /\ app.h # None /\ ~(k # Idle /\ k.for = "save" /\ k.pc = "stop") => rcv[app.h].set.port = app.set.port
  /\ k # Idle =>
       /\ k.for = "save" /\ k.pc \in {"write", "apply"} => k.prev = app.set
       /\ k.pc \in {"start", "opening"} => k.next = app.set
       /\ k.for = "save" /\ k.pc \in {"stop", "wait"} => k.next = app.set

Window(k) == Stages(k) /\ Held(k) /\ Reported(k) /\ Served(k)

WindowInv == \E k \in Call \union {Idle} : One(k) /\ Window(k)

-----------------------------------------------------------------------------
\* The one call, before and after a step of it.
LEMMA TheCall ==
  ASSUME WindowInv, NEW c \in Calls
  PROVE  call[c] \in Call \union {Idle} /\ Window(call[c])
BY DEF WindowInv, One

\* A call that goes on: with one call at a time the window is what that call makes of it.
LEMMA CallWindow ==
  ASSUME OneCall, DesktopTypeOK, NEW c \in Calls, NEW k \in Call \union {Idle},
         call' = [call EXCEPT ![c] = k], Window(k)'
  PROVE  WindowInv'
<1>1. One(k)'
  BY DEF OneCall, One, DesktopTypeOK
<1>2. QED
  BY <1>1 DEF WindowInv

\* A step that neither moves the app nor its receivers nor the call.
LEMMA WindowStays ==
  ASSUME DesktopTypeOK, WindowInv, UNCHANGED <<app, call>>, \A h \in Handles : rcv'[h] = rcv[h]
  PROVE  WindowInv'
<1>1. PICK k \in Call \union {Idle} : One(k) /\ Window(k)
  BY DEF WindowInv
<1>2. app.h # None => app.h \in Handles /\ rcv'[app.h] = rcv[app.h]
  BY AppWith
<1>3. k # Idle /\ k.pc = "opening" => rcv'[k.h] = rcv[k.h]
  BY <1>1 DEF Call, Window, Held
<1>4. Stages(k)'
  BY <1>1 DEF Window, Stages
<1>5. Held(k)'
  BY <1>1, <1>2, <1>3 DEF Window, Held
<1>6. Reported(k)'
  BY <1>1, <1>2 DEF Window, Reported
<1>7. Served(k)'
  BY <1>1, <1>2 DEF Window, Served
<1>8. One(k)'
  BY <1>1 DEF One
<1>9. QED
  BY <1>4, <1>5, <1>6, <1>7, <1>8 DEF Window, WindowInv

\* A call begins.
LEMMA CalledWindow ==
  ASSUME OneCall, DesktopTypeOK, WindowInv, NEW c \in Calls,
         AppStart(c) \/ Shutdown(c) \/ \E next \in Choices : SaveSettings(c, next)
  PROVE  WindowInv'
<1>1. Window(Idle) /\ call[c] = Idle /\ UNCHANGED rcv
  BY TheCall DEF AppStart, Shutdown, SaveSettings, Called, serviceVars
<1>2. app \in Apps /\ app.set \in Settings
  BY AppWith
<1>3. PICK for \in {"start", "save", "shutdown"}, next \in Settings :
        /\ Called(c, for, next)
        /\ \/ for = "start" /\ app.up = "new" /\ app' = [app EXCEPT !.up = "up"]
           \/ for = "save" /\ app.up = "up" /\ app' = app
           \/ for = "shutdown" /\ app.up = "up" /\ app' = [app EXCEPT !.up = "quit"]
  BY <1>2, DesktopParameters DEF AppStart, Shutdown, SaveSettings
<1>4. PICK k : k = [pc |-> FirstStep[for], for |-> for, next |-> next, prev |-> app.set, todo |-> Keys, h |-> None]
  OBVIOUS
<1>5. /\ for = "start" => FirstStep[for] = "load"
      /\ for = "save" => FirstStep[for] = "write"
      /\ for = "shutdown" => FirstStep[for] = "stop"
  BY DEF FirstStep
<1>6. /\ k \in Call /\ k.for = for /\ k.prev = app.set /\ k.h = None /\ k # Idle
      /\ for = "start" => k.pc = "load"
      /\ for = "save" => k.pc = "write"
      /\ for = "shutdown" => k.pc = "stop"
  <2>1. k \in Call /\ k.for = for /\ k.prev = app.set /\ k.h = None /\ k.pc = FirstStep[for]
    BY <1>2, <1>4, <1>5 DEF Call
  <2>2. k # Idle
    BY <1>5, <2>1 DEF Idle
  <2>3. QED
    BY <1>5, <2>1, <2>2
<1>7. call' = [call EXCEPT ![c] = k]
  BY <1>3, <1>4 DEF Called
<1>8. /\ app'.h = app.h /\ app'.set = app.set /\ app'.err = app.err
      /\ for = "start" => app.up = "new" /\ app'.up = "up"
      /\ for = "save" => app.up = "up" /\ app'.up = "up"
      /\ for = "shutdown" => app'.up = "quit"
  BY <1>2, <1>3 DEF Apps
<1>9. Stages(k)'
  BY <1>1, <1>6, <1>8 DEF Window, Held, Stages
<1>10. Held(k)'
  BY <1>1, <1>6, <1>8 DEF Window, Held
<1>11. Reported(k)'
  BY <1>1, <1>3, <1>6, <1>8 DEF Window, Reported
<1>12. Served(k)'
  BY <1>1, <1>3, <1>6, <1>8 DEF Window, Served
<1>13. QED
  BY <1>6, <1>7, <1>9, <1>10, <1>11, <1>12, CallWindow DEF Window

\* A call reads and writes the settings.
LEMMA LoadWindow ==
  ASSUME OneCall, DesktopTypeOK, ServiceInv, WindowInv, NEW c \in Calls,
         Load(c) \/ \E key \in Keys : Write(c, key)
  PROVE  WindowInv'
<1>1. call[c].pc \in {"load", "write"} /\ UNCHANGED <<rcv, app>>
  BY DEF Load, Write, serviceVars
<1>2. PICK k0 \in Call : k0 = call[c] /\ k0 # Idle /\ Window(k0)
  BY <1>1, CallFields, TheCall
<1>3. PICK k \in Call : /\ call' = [call EXCEPT ![c] = k] /\ k.for = k0.for /\ k.h = k0.h
                        /\ k.pc \in {"write", "apply"}
                        /\ k.prev = k0.prev \/ k0.pc = "load"
  <2>1. CASE Load(c)
    <3>1. LoadedSettings \in Settings
      <4>1. Defaults.port \in Ports /\ Defaults.name \in Names
        BY DesktopParameters DEF Settings
      <4>2. stored \in Ports \union {None} /\ dir.name \in Names \union {None}
        BY DirectoryWith DEF DesktopTypeOK, Directory
      <4>3. QED
        BY <4>1, <4>2 DEF LoadedSettings, Settings
    <3>2. PICK pc \in {"write", "apply"} :
            call' = [call EXCEPT ![c].next = LoadedSettings, ![c].prev = LoadedSettings, ![c].pc = pc]
      BY <2>1 DEF Load
    <3>3. PICK k : k = [k0 EXCEPT !.next = LoadedSettings, !.prev = LoadedSettings, !.pc = pc]
      OBVIOUS
    <3>4. k \in Call /\ k.for = k0.for /\ k.h = k0.h /\ k.pc = pc
      BY <1>2, <3>1, <3>3 DEF Call
    <3>5. call' = [call EXCEPT ![c] = k]
      BY <1>2, <3>2, <3>3 DEF DesktopTypeOK
    <3>6. k0.pc = "load"
      BY <1>2, <2>1 DEF Load
    <3>7. QED
      BY <3>4, <3>5, <3>6
  <2>2. ASSUME NEW key \in Keys, Write(c, key)
        PROVE  \E k \in Call : /\ call' = [call EXCEPT ![c] = k] /\ k.for = k0.for /\ k.h = k0.h
                               /\ k.pc \in {"write", "apply"}
                               /\ k.prev = k0.prev \/ k0.pc = "load"
    <3>1. PICK pc \in {"apply", "write"} : pc = IF k0.todo = {key} THEN "apply" ELSE "write"
      OBVIOUS
    <3>2. PICK todo \in SUBSET Keys : todo = k0.todo \ {key}
      BY <1>2 DEF Call
    <3>3. PICK k : k = [k0 EXCEPT !.todo = todo, !.pc = pc]
      OBVIOUS
    <3>4. k \in Call /\ k.for = k0.for /\ k.h = k0.h /\ k.pc = pc /\ k.prev = k0.prev
      BY <1>2, <3>3 DEF Call
    <3>5. call' = [call EXCEPT ![c] = k]
      BY <1>2, <2>2, <3>1, <3>2, <3>3 DEF Write, DesktopTypeOK
    <3>6. QED
      BY <3>4, <3>5
  <2>3. QED
    BY <2>1, <2>2
<1>4. k # Idle
  BY <1>3 DEF Idle
<1>5. k0.for \in {"start", "save", "shutdown"} /\ k0.pc \in {"load", "write"}
  BY <1>1, <1>2 DEF Call
<1>6. k0.for \in {"start", "save"} /\ (k0.pc = "load" => k0.for = "start")
  BY <1>2, <1>5 DEF Window, Stages
<1>7. Stages(k)'
  BY <1>1, <1>2, <1>3, <1>4, <1>6 DEF Window, Stages
<1>8. Held(k)'
  BY <1>1, <1>2, <1>3, <1>4 DEF Window, Held
<1>9. Reported(k)'
  BY <1>1, <1>2, <1>3, <1>4, <1>5, <1>6 DEF Window, Reported
<1>10. Served(k)'
  BY <1>1, <1>2, <1>3, <1>4, <1>5, <1>6 DEF Window, Served
<1>11. QED
  BY <1>3, <1>7, <1>8, <1>9, <1>10, CallWindow DEF Window

\* A call returns before it touches the receiver, with an error or having nothing to do.
LEMMA ReturnWindow ==
  ASSUME OneCall, DesktopTypeOK, WindowInv, NEW c \in Calls, WriteFails(c) \/ SetTemplate(c)
  PROVE  WindowInv'
<1>1. call[c].pc \in {"load", "write", "template"} /\ UNCHANGED rcv
  BY DEF WriteFails, SetTemplate, serviceVars
<1>2. PICK k0 \in Call : k0 = call[c] /\ k0 # Idle /\ Window(k0) /\ k0.for \in {"start", "save", "shutdown"}
  BY <1>1, CallFields, TheCall
<1>3. call' = [call EXCEPT ![c] = Idle] /\ Idle \in Call \union {Idle}
  BY DEF WriteFails, SetTemplate, Returns
<1>4. /\ k0.for = "start" => WriteFails(c) /\ app.h = None
      /\ k0.for = "save" => k0.pc \in {"write", "template"} /\ app' = app
      /\ k0.for # "shutdown"
  BY <1>1, <1>2 DEF Window, Stages, WriteFails, SetTemplate
<1>5. app \in Apps
  BY AppWith
<1>6. /\ app'.h = app.h /\ app'.set = app.set /\ app'.err = app.err
      /\ k0.for = "start" => app'.up = "quit"
      /\ k0.for = "save" => app'.up = app.up
  BY <1>2, <1>4, <1>5 DEF WriteFails, Apps
<1>7. app.up # "new"
  BY <1>2 DEF Window, Stages
<1>8. Stages(Idle)'
  BY DEF Stages
<1>9. Held(Idle)'
  <2>1. k0.h = None /\ None \notin Handles /\ k0.for \in {"start", "save"}
    BY <1>1, <1>2, <1>4, DesktopParameters DEF Window, Held
  <2>2. app'.up # "new"
    BY <1>6, <1>7, <2>1
  <2>3. \A h \in Handles : rcv[h].pc # "closed" => h = app.h
    BY <1>2, <2>1 DEF Window, Held
  <2>4. app.h # None => rcv[app.h].pc \in Built
    BY <1>2 DEF Window, Held
  <2>5. QED
    BY <1>1, <1>6, <2>2, <2>3, <2>4 DEF Held
<1>10. Reported(Idle)'
  BY <1>1, <1>2, <1>4, <1>6 DEF Window, Reported
<1>11. Served(Idle)'
  BY <1>1, <1>2, <1>4, <1>6 DEF Window, Served
<1>12. QED
  BY <1>3, <1>8, <1>9, <1>10, <1>11, CallWindow DEF Window

\* The settings are the app's, and the receiver is replaced unless it serves them already.
LEMMA AppliesWindow ==
  ASSUME OneCall, DesktopTypeOK, WindowInv, NEW c \in Calls, Applies(c)
  PROVE  WindowInv'
<1>1. call[c].pc = "apply" /\ UNCHANGED rcv
  BY DEF Applies, serviceVars
<1>2. PICK k0 \in Call : k0 = call[c] /\ k0 # Idle /\ Window(k0) /\ k0.pc = "apply" /\ k0.next \in Settings
  BY <1>1, CallFields, TheCall
<1>3. PICK pc \in {"start", "stop", "template"} :
        /\ Goes(c, pc)
        /\ \/ k0.for = "start" /\ pc = "start"
           \/ k0.for = "save" /\ pc = "stop"
           \/ k0.for = "save" /\ pc = "template" /\ k0.prev.port = k0.next.port
  BY <1>2 DEF Applies, NeedsRestart
<1>4. PICK k : k = [k0 EXCEPT !.pc = pc]
  OBVIOUS
<1>5. k \in Call /\ k.pc = pc /\ k.for = k0.for /\ k.next = k0.next /\ k.prev = k0.prev /\ k.h = k0.h
  BY <1>2, <1>4 DEF Call
<1>6. call' = [call EXCEPT ![c] = k] /\ k # Idle
  BY <1>2, <1>3, <1>4, <1>5 DEF Goes, Idle, DesktopTypeOK
<1>7. app \in Apps
  BY AppWith
<1>8. app'.up = app.up /\ app'.h = app.h /\ app'.err = app.err /\ app'.set = k0.next
  BY <1>2, <1>7 DEF Applies, Apps
<1>9. Stages(k)'
  BY <1>2, <1>3, <1>5, <1>8 DEF Window, Stages
<1>10. Held(k)'
  BY <1>1, <1>2, <1>3, <1>5, <1>6, <1>8 DEF Window, Held, Stages
<1>11. Reported(k)'
  BY <1>1, <1>2, <1>3, <1>5, <1>6, <1>8 DEF Window, Reported
<1>12. Served(k)'
  BY <1>1, <1>2, <1>3, <1>5, <1>6, <1>8 DEF Window, Served, Stages
<1>13. QED
  BY <1>5, <1>6, <1>9, <1>10, <1>11, <1>12, CallWindow DEF Window

\* The receiver is told to stop, and from then on is the call's.
LEMMA StopWindow ==
  ASSUME OneCall, DesktopTypeOK, ServiceInv, WindowInv, NEW c \in Calls, StopReceiver(c)
  PROVE  WindowInv'
<1>1. call[c].pc = "stop"
  BY DEF StopReceiver
<1>2. PICK k0 \in Call : k0 = call[c] /\ k0 # Idle /\ Window(k0) /\ k0.pc = "stop"
  BY <1>1, CallFields, TheCall
<1>3. PICK h \in Handles \union {None} : h = app.h
  BY AppWith
<1>4. PICK k : k = [k0 EXCEPT !.h = h, !.pc = "wait"]
  OBVIOUS
<1>5. /\ k \in Call /\ k.pc = "wait" /\ k.for = k0.for /\ k.next = k0.next /\ k.h = h /\ k # Idle
      /\ call' = [call EXCEPT ![c] = k]
  BY <1>2, <1>3, <1>4 DEF Call, StopReceiver, DesktopTypeOK, Idle
<1>6. app \in Apps
  BY AppWith
<1>7. app'.up = app.up /\ app'.h = None /\ app'.err = app.err /\ app'.set = app.set
  BY <1>6 DEF StopReceiver, Apps
<1>8. \A g \in Handles : rcv'[g].pc # "closed" => g = h
  <2>1. \A g \in Handles : rcv[g].pc # "closed" => g = h
    BY <1>2, <1>3, DesktopParameters DEF Window, Held
  <2>2. \A g \in Handles : g # h => rcv'[g] = rcv[g]
    BY <1>3, DesktopParameters DEF StopReceiver, Cancel, ServiceInv, ServiceTypeOK
  <2>3. QED
    BY <2>1, <2>2
<1>9. Stages(k)'
  BY <1>2, <1>5, <1>7 DEF Window, Stages
<1>10. Held(k)'
  BY <1>5, <1>7, <1>8 DEF Held
<1>11. Reported(k)'
  BY <1>5, <1>7 DEF Reported, Idle
<1>12. Served(k)'
  BY <1>2, <1>5, <1>7 DEF Window, Served
<1>13. QED
  BY <1>5, <1>9, <1>10, <1>11, <1>12, CallWindow DEF Window

\* It has stopped and is closed.
LEMMA WaitedWindow ==
  ASSUME OneCall, DesktopTypeOK, WindowInv, NEW c \in Calls, Waited(c)
  PROVE  WindowInv'
<1>1. call[c].pc = "wait" /\ app' = app
  BY DEF Waited
<1>2. PICK k0 \in Call : /\ k0 = call[c] /\ k0 # Idle /\ Window(k0) /\ k0.pc = "wait"
                         /\ k0.h \in Handles \union {None} /\ k0.for \in {"start", "save", "shutdown"}
  BY <1>1, CallFields, TheCall
<1>3. app.h = None /\ app.up # "new" /\ k0.for # "start" /\ (k0.for = "shutdown" => app.up = "quit")
  BY <1>2 DEF Window, Held, Stages
<1>4. \A g \in Handles : rcv'[g].pc = "closed"
  <2>1. \A g \in Handles : rcv[g].pc # "closed" => g = k0.h
    BY <1>2, <1>3, DesktopParameters DEF Window, Held
  <2>2. \A g \in Handles : rcv'[g] = IF g = k0.h THEN Closed ELSE rcv[g]
    BY <1>2, DesktopParameters DEF Waited, Release
  <2>3. QED
    BY <2>1, <2>2 DEF Closed
<1>5. CASE k0.for = "shutdown"
  <2>1. call' = [call EXCEPT ![c] = Idle]
    BY <1>2, <1>5 DEF Waited, Returns
  <2>2. Stages(Idle)' /\ Held(Idle)' /\ Reported(Idle)' /\ Served(Idle)'
    BY <1>1, <1>3, <1>4, <1>5 DEF Stages, Held, Reported, Served
  <2>3. QED
    BY <2>1, <2>2, CallWindow DEF Window
<1>6. CASE k0.for # "shutdown"
  <2>1. PICK k : k = [k0 EXCEPT !.pc = "start", !.h = None]
    OBVIOUS
  <2>2. /\ k \in Call /\ k.pc = "start" /\ k.for = "save" /\ k.next = k0.next /\ k.h = None /\ k # Idle
        /\ call' = [call EXCEPT ![c] = k]
    BY <1>2, <1>3, <1>6, <2>1 DEF Call, Waited, DesktopTypeOK, Idle
  <2>3. k0.next = app.set
    BY <1>2, <1>3, <1>6 DEF Window, Served
  <2>4. Stages(k)' /\ Held(k)'
    BY <1>1, <1>3, <1>4, <2>2 DEF Stages, Held
  <2>5. Reported(k)' /\ Served(k)'
    BY <1>1, <1>3, <2>2, <2>3 DEF Reported, Served
  <2>6. QED
    BY <2>2, <2>4, <2>5, CallWindow DEF Window
<1>7. QED
  BY <1>5, <1>6

\* The next one is opened: no other is open.
LEMMA StartWindow ==
  ASSUME OneCall, DesktopTypeOK, ServiceInv, WindowInv, NEW c \in Calls, NEW h \in Handles, StartReceiver(c, h)
  PROVE  WindowInv'
<1>1. call[c].pc = "start" /\ app' = app
  BY DEF StartReceiver
<1>2. PICK k0 \in Call : k0 = call[c] /\ k0 # Idle /\ Window(k0) /\ k0.pc = "start"
  BY <1>1, CallFields, TheCall
<1>3. PICK k : k = [k0 EXCEPT !.pc = "opening", !.h = h]
  OBVIOUS
<1>4. /\ k \in Call /\ k.pc = "opening" /\ k.for = k0.for /\ k.next = k0.next /\ k.h = h /\ k # Idle
      /\ call' = [call EXCEPT ![c] = k] /\ h # None
  BY <1>2, <1>3, DesktopParameters DEF Call, StartReceiver, DesktopTypeOK, Idle
<1>5. PICK r : r = [pc |-> "begin", set |-> k0.next, id |-> None, key |-> None,
                    next |-> 1, ctx |-> FALSE, err |-> FALSE]
  OBVIOUS
<1>6. rcv' = [rcv EXCEPT ![h] = r] /\ r.pc = "begin" /\ ~r.ctx /\ ~r.err /\ r.set = k0.next
  BY <1>2, <1>5 DEF StartReceiver, Open
<1>7. rcv'[h] = r /\ \A g \in Handles : g # h => rcv'[g] = rcv[g]
  BY <1>6, DesktopParameters DEF ServiceInv, ServiceTypeOK
<1>8. /\ app.h = None /\ app.up # "new" /\ k0.h = None /\ k0.next = app.set
      /\ \A g \in Handles : rcv[g].pc = "closed"
  BY <1>2, DesktopParameters DEF Window, Held, Stages, Served
<1>9. Stages(k)'
  BY <1>1, <1>2, <1>4 DEF Window, Stages
<1>10. Held(k)'
  BY <1>1, <1>4, <1>6, <1>7, <1>8 DEF Held, Rising, Opening
<1>11. Reported(k)' /\ Served(k)'
  BY <1>1, <1>4, <1>8 DEF Reported, Served
<1>12. QED
  BY <1>4, <1>9, <1>10, <1>11, CallWindow DEF Window

\* It is open and the app's, or it failed to open.
LEMMA StartedWindow ==
  ASSUME OneCall, DesktopTypeOK, WindowInv, NEW c \in Calls, Started(c) \/ StartFailed(c)
  PROVE  WindowInv'
<1>1. call[c].pc = "opening" /\ call' = [call EXCEPT ![c] = Idle]
  BY DEF Started, StartFailed, Returns
<1>2. PICK k0 \in Call : /\ k0 = call[c] /\ k0 # Idle /\ Window(k0) /\ k0.pc = "opening"
                         /\ k0.h \in Handles \union {None}
  BY <1>1, CallFields, TheCall
<1>3. /\ app.h = None /\ app.up # "new" /\ k0.h # None /\ k0.h \in Handles /\ k0.next = app.set
      /\ ~rcv[k0.h].ctx /\ rcv[k0.h].set = k0.next
      /\ \A g \in Handles : rcv[g].pc # "closed" => g = k0.h
  BY <1>2, DesktopParameters DEF Window, Held, Stages, Served
<1>4. app \in Apps
  BY AppWith
<1>5. CASE Started(c)
  <2>1. app' = [app EXCEPT !.h = k0.h, !.err = FALSE] /\ rcv' = rcv /\ rcv[k0.h].pc = "open"
    BY <1>2, <1>5 DEF Started, serviceVars
  <2>2. app'.h = k0.h /\ app'.up = app.up /\ app'.set = app.set
    BY <1>4, <2>1 DEF Apps
  <2>3. Stages(Idle)' /\ Held(Idle)'
    BY <1>3, <2>1, <2>2 DEF Stages, Held, Built
  <2>4. Reported(Idle)' /\ Served(Idle)'
    BY <1>3, <2>1, <2>2 DEF Reported, Served
  <2>5. QED
    BY <1>1, <2>3, <2>4, CallWindow DEF Window
<1>6. CASE StartFailed(c)
  <2>1. app' = [app EXCEPT !.err = TRUE]
    BY <1>6 DEF StartFailed
  <2>2. app'.h = None /\ app'.up = app.up /\ app'.err = TRUE
    BY <1>3, <1>4, <2>1 DEF Apps
  <2>3. \A g \in Handles : rcv'[g].pc = "closed"
    <3>1. \A g \in Handles : rcv'[g] = IF g = k0.h THEN Closed ELSE rcv[g]
      BY <1>2, <1>6, DesktopParameters DEF StartFailed, Release
    <3>2. QED
      BY <1>3, <3>1 DEF Closed
  <2>4. Stages(Idle)' /\ Held(Idle)' /\ Reported(Idle)' /\ Served(Idle)'
    BY <2>2, <2>3 DEF Stages, Held, Reported, Served
  <2>5. QED
    BY <1>1, <2>4, CallWindow DEF Window
<1>7. QED
  BY <1>5, <1>6

\* A receiver that goes from one state to another by itself.
GoesOn(r, n) ==
  \/ r.pc \in Opening /\ n.pc \in Rising /\ n.ctx = r.ctx /\ n.err = r.err
  \/ /\ r.pc \in Built /\ n.pc \in Built
     /\ (r.ctx => r.err) => (n.ctx => n.err)
     /\ (r.pc = "stopping" => r.ctx) => (n.pc = "stopping" => n.ctx)
     /\ n.pc = "stopped" => n.err \/ (r.pc = "stopping" /\ n.ctx = r.ctx)

\* The steps of Open.
LEMMA OpeningGoes ==
  ASSUME ServiceInv, NEW s \in Receivers, Progress(s), rcv[s].pc \in Opening
  PROVE  \E n \in Receiver : /\ rcv' = [rcv EXCEPT ![s] = n] /\ n.set = rcv[s].set
                             /\ n.pc \in Rising /\ n.ctx = rcv[s].ctx /\ n.err = rcv[s].err
<1>1. rcv[s] \in Receiver /\ rcv \in [Receivers -> Receiver \union {Closed}]
  BY ReceiverFields DEF ServiceInv, ServiceTypeOK, Opening
<1>2. ASSUME NEW pc \in Rising, Moves(s, pc)
      PROVE  \E n \in Receiver : /\ rcv' = [rcv EXCEPT ![s] = n] /\ n.set = rcv[s].set
                                 /\ n.pc \in Rising /\ n.ctx = rcv[s].ctx /\ n.err = rcv[s].err
  <2>1. PICK n : n = [rcv[s] EXCEPT !.pc = pc]
    OBVIOUS
  <2>2. /\ n \in Receiver /\ n.pc = pc /\ n.set = rcv[s].set /\ n.ctx = rcv[s].ctx /\ n.err = rcv[s].err
    BY <1>1, <1>2, <2>1 DEF Receiver, Rising
  <2>3. rcv' = [rcv EXCEPT ![s] = n]
    BY <1>1, <1>2, <2>1 DEF Moves
  <2>4. QED
    BY <1>2, <2>2, <2>3
<1>3. CASE \/ Begin(s) \/ TimesOut(s) \/ ApplyTemplate(s) \/ LoadCert(s) \/ Issue(s) \/ Sign(s) \/ Bind(s)
           \/ (CreateKey(s) /\ dir.key # None)
  <2>1. PICK pc \in Rising : Moves(s, pc)
    BY <1>3 DEF Begin, TimesOut, ApplyTemplate, LoadCert, Issue, Sign, Bind, CreateKey, Rising, Opening
  <2>2. QED
    BY <1>2, <2>1
<1>4. CASE Migrate(s)
  <2>1. PICK n : n = [rcv[s] EXCEPT !.pc = "begin", !.next = @ + 1]
    OBVIOUS
  <2>2. rcv[s].next \in 1..Migrations + 1 /\ rcv[s].next <= Migrations
    BY <1>1, <1>4 DEF Migrate, Receiver, ServiceInv, DirInv
  <2>3. PICK next \in 1..Migrations + 1 : next = rcv[s].next + 1
    BY <2>2, ServiceParameters
  <2>4. n = [rcv[s] EXCEPT !.pc = "begin", !.next = next]
    BY <2>1, <2>3
  <2>5. n \in Receiver /\ n.pc = "begin" /\ n.set = rcv[s].set /\ n.ctx = rcv[s].ctx /\ n.err = rcv[s].err
    BY <1>1, <2>4 DEF Receiver, Opening
  <2>6. rcv' = [rcv EXCEPT ![s] = n]
    BY <1>1, <1>4, <2>1 DEF Migrate
  <2>7. QED
    BY <2>5, <2>6 DEF Rising, Opening
<1>5. CASE ReadId(s) \/ MintId(s)
  <2>1. PICK id \in Makers \union {None}, pc \in {"mint", "template"} :
          rcv' = [rcv EXCEPT ![s].id = id, ![s].pc = pc]
    BY <1>5 DEF ReadId, MintId, ServiceInv, ServiceTypeOK, Makers
  <2>2. PICK n : n = [rcv[s] EXCEPT !.id = id, !.pc = pc]
    OBVIOUS
  <2>3. n \in Receiver /\ n.pc = pc /\ n.set = rcv[s].set /\ n.ctx = rcv[s].ctx /\ n.err = rcv[s].err
    BY <1>1, <2>2 DEF Receiver, Opening
  <2>4. rcv' = [rcv EXCEPT ![s] = n]
    BY <1>1, <2>1, <2>2
  <2>5. QED
    BY <2>3, <2>4 DEF Rising, Opening
<1>6. CASE LoadKey(s) \/ (CreateKey(s) /\ dir.key = None)
  <2>1. PICK key \in Makers \union {None}, pc \in {"create", "cert"} :
          rcv' = [rcv EXCEPT ![s].key = key, ![s].pc = pc]
    BY <1>6 DEF LoadKey, CreateKey, ServiceInv, ServiceTypeOK, Makers
  <2>2. PICK n : n = [rcv[s] EXCEPT !.key = key, !.pc = pc]
    OBVIOUS
  <2>3. n \in Receiver /\ n.pc = pc /\ n.set = rcv[s].set /\ n.ctx = rcv[s].ctx /\ n.err = rcv[s].err
    BY <1>1, <2>2 DEF Receiver, Opening
  <2>4. rcv' = [rcv EXCEPT ![s] = n]
    BY <1>1, <2>1, <2>2
  <2>5. QED
    BY <2>3, <2>4 DEF Rising, Opening
<1>7. CASE Stop(s) \/ Drained(s)
  BY <1>7 DEF Stop, Drained, Opening
<1>8. QED
  BY <1>3, <1>4, <1>5, <1>6, <1>7 DEF Progress

\* What runs, stops and fails.
LEMMA BuiltGoes ==
  ASSUME ServiceInv, NEW s \in Receivers, Run(s) \/ Stop(s) \/ Drained(s) \/ Faults(s)
  PROVE  \E n \in Receiver : /\ rcv' = [rcv EXCEPT ![s] = n] /\ n.set = rcv[s].set
                             /\ GoesOn(rcv[s], n)
<1>1. rcv[s].pc # "closed"
  BY DEF Run, Stop, Drained, Faults, OpenFails, PartFails, AcceptFails, Opening
<1>2. rcv[s] \in Receiver /\ rcv \in [Receivers -> Receiver \union {Closed}]
  BY <1>1, ReceiverFields DEF ServiceInv, ServiceTypeOK
<1>3. ASSUME NEW pc \in {"failed", "running", "deaf", "stopping", "stopped"}, Moves(s, pc)
      PROVE  \E n \in Receiver : /\ rcv' = [rcv EXCEPT ![s] = n] /\ n.set = rcv[s].set
                                 /\ n.pc = pc /\ n.ctx = rcv[s].ctx /\ n.err = rcv[s].err
  <2>1. PICK n : n = [rcv[s] EXCEPT !.pc = pc]
    OBVIOUS
  <2>2. /\ n \in Receiver /\ n.pc = pc /\ n.set = rcv[s].set /\ n.ctx = rcv[s].ctx /\ n.err = rcv[s].err
    BY <1>2, <1>3, <2>1 DEF Receiver, Serving
  <2>3. rcv' = [rcv EXCEPT ![s] = n]
    BY <1>2, <1>3, <2>1 DEF Moves
  <2>4. QED
    BY <2>2, <2>3
<1>4. CASE OpenFails(s)
  <2>1. PICK n \in Receiver : /\ rcv' = [rcv EXCEPT ![s] = n] /\ n.set = rcv[s].set
                              /\ n.pc = "failed" /\ n.ctx = rcv[s].ctx /\ n.err = rcv[s].err
    BY <1>3, <1>4 DEF OpenFails
  <2>2. QED
    BY <1>4, <2>1 DEF OpenFails, GoesOn, Rising
<1>5. CASE (Run(s) /\ Moves(s, "running")) \/ AcceptFails(s) \/ Stop(s) \/ Drained(s)
  <2>1. PICK pc \in {"running", "deaf", "stopping", "stopped"} :
          /\ Moves(s, pc)
          /\ pc = "stopping" => rcv[s].ctx
          /\ pc = "stopped" => rcv[s].pc = "stopping"
    BY <1>5 DEF AcceptFails, Stop, Drained
  <2>2. PICK n \in Receiver : /\ rcv' = [rcv EXCEPT ![s] = n] /\ n.set = rcv[s].set
                              /\ n.pc = pc /\ n.ctx = rcv[s].ctx /\ n.err = rcv[s].err
    BY <1>3, <2>1
  <2>3. rcv[s].pc \in Built
    BY <1>5 DEF Run, AcceptFails, Stop, Drained, Built
  <2>4. QED
    BY <2>1, <2>2, <2>3 DEF GoesOn, Built
<1>6. CASE PartFails(s)
  <2>1. PICK n : n = [rcv[s] EXCEPT !.ctx = TRUE, !.err = TRUE]
    OBVIOUS
  <2>2. n \in Receiver /\ n.pc = rcv[s].pc /\ n.set = rcv[s].set /\ n.ctx = TRUE /\ n.err = TRUE
    BY <1>2, <2>1 DEF Receiver
  <2>3. rcv' = [rcv EXCEPT ![s] = n]
    BY <1>2, <1>6, <2>1 DEF PartFails
  <2>4. QED
    BY <1>6, <2>2, <2>3 DEF PartFails, GoesOn, Built
<1>7. CASE Run(s) /\ rcv' = [rcv EXCEPT ![s].pc = "stopped", ![s].err = TRUE]
  <2>1. PICK n : n = [rcv[s] EXCEPT !.pc = "stopped", !.err = TRUE]
    OBVIOUS
  <2>2. n \in Receiver /\ n.pc = "stopped" /\ n.set = rcv[s].set /\ n.ctx = rcv[s].ctx /\ n.err = TRUE
    BY <1>2, <2>1 DEF Receiver
  <2>3. rcv' = [rcv EXCEPT ![s] = n]
    BY <1>2, <1>7, <2>1
  <2>4. QED
    BY <1>7, <2>2, <2>3 DEF Run, GoesOn, Built
<1>8. QED
  BY <1>4, <1>5, <1>6, <1>7 DEF Run, Faults

\* A receiver goes on by itself: the window is told when it has stopped.
LEMMA HandleWindow ==
  ASSUME ServiceInv, DesktopTypeOK, WindowInv, NEW h \in Handles,
         HandleProgress(h) \/ (Faults(h) /\ UNCHANGED desktopVars)
  PROVE  WindowInv'
<1>1. PICK k \in Call \union {Idle} : One(k) /\ Window(k)
  BY DEF WindowInv
<1>2. h \in Receivers /\ rcv \in [Receivers -> Receiver \union {Closed}] /\ app \in Apps
  BY DesktopParameters, AppWith DEF ServiceInv, ServiceTypeOK
<1>3. PICK n \in Receiver : /\ rcv' = [rcv EXCEPT ![h] = n] /\ n.set = rcv[h].set
                            /\ GoesOn(rcv[h], n)
  <2>1. CASE Progress(h) /\ rcv[h].pc \in Opening
    BY <1>2, <2>1, OpeningGoes DEF GoesOn
  <2>2. CASE Run(h) \/ Stop(h) \/ Drained(h) \/ Faults(h)
    BY <1>2, <2>2, BuiltGoes
  <2>3. QED
    BY <2>1, <2>2 DEF HandleProgress, Goroutine
<1>4. rcv'[h] = n /\ \A g \in Handles : g # h => rcv'[g] = rcv[g]
  BY <1>2, <1>3, DesktopParameters
<1>5. rcv[h].pc # "closed"
  BY <1>3 DEF GoesOn, Built, Opening
<1>6. /\ UNCHANGED call /\ app'.up = app.up /\ app'.set = app.set /\ app'.h = app.h
      /\ app.err => app'.err
      /\ (app.h = h /\ n.pc = "stopped" /\ n.err /\ rcv[h].pc # "stopped") => app'.err
  <2>1. CASE Goroutine(h)
    <3>1. PICK err \in BOOLEAN : err = (app.err \/ (app.h = h /\ rcv'[h].pc = "stopped" /\ rcv'[h].err))
      OBVIOUS
    <3>2. app' = [app EXCEPT !.err = err] /\ UNCHANGED call
      BY <2>1, <3>1 DEF Goroutine
    <3>3. app'.up = app.up /\ app'.set = app.set /\ app'.h = app.h /\ app'.err = err
      BY <1>2, <3>2 DEF Apps
    <3>4. QED
      BY <1>4, <3>1, <3>2, <3>3
  <2>2. CASE UNCHANGED desktopVars /\ rcv[h].pc \in Opening /\ Progress(h)
    BY <1>2, <1>3, <2>2 DEF desktopVars, GoesOn, Rising, Opening, Built
  <2>3. CASE UNCHANGED desktopVars /\ Faults(h)
    <3>1. n.pc # "stopped"
      <4>1. rcv[h] \in Receiver
        BY <1>2, <1>5, ReceiverFields
      <4>2. CASE OpenFails(h) \/ AcceptFails(h)
        <5>1. PICK pc \in {"failed", "deaf"} : rcv' = [rcv EXCEPT ![h].pc = pc]
          BY <4>2 DEF OpenFails, AcceptFails, Moves
        <5>2. PICK r : r = [rcv[h] EXCEPT !.pc = pc]
          OBVIOUS
        <5>3. r.pc = pc
          BY <4>1, <5>2 DEF Receiver
        <5>4. QED
          BY <1>2, <1>4, <5>1, <5>2, <5>3
      <4>3. CASE PartFails(h)
        <5>1. PICK r : r = [rcv[h] EXCEPT !.ctx = TRUE, !.err = TRUE]
          OBVIOUS
        <5>2. r.pc = rcv[h].pc
          BY <4>1, <5>1 DEF Receiver
        <5>3. QED
          BY <1>2, <1>4, <4>3, <5>1, <5>2 DEF PartFails
      <4>4. QED
        BY <2>3, <4>2, <4>3 DEF Faults
    <3>2. QED
      BY <2>3, <3>1 DEF desktopVars
  <2>4. QED
    BY <2>1, <2>2, <2>3 DEF HandleProgress
<1>7. k # Idle /\ k.pc = "opening" /\ k.h = h => rcv[h].pc \in Opening
  <2>1. SUFFICES ASSUME k # Idle, k.pc = "opening", k.h = h
                 PROVE  rcv[h].pc \in Opening
    OBVIOUS
  <2>2. Calls # {}
    BY <1>1, <2>1 DEF One
  <2>3. ~Goroutine(h)
    BY <1>1, <2>1, <2>2 DEF One, Goroutine
  <2>4. rcv[h].pc \in Rising
    BY <1>1, <2>1 DEF Window, Held
  <2>5. QED
    BY <2>3, <2>4 DEF HandleProgress, Faults, OpenFails, PartFails, AcceptFails, Rising, Opening
<1>8. Stages(k)'
  BY <1>1, <1>6 DEF Window, Stages
<1>9. Held(k)'
  <2>1. app.up = "new" => app.h = None
    BY <1>1 DEF Window, Held
  <2>2. app.h # None => rcv'[app.h].pc \in Built
    <3>1. app.h # None => app.h \in Handles /\ rcv[app.h].pc \in Built
      BY <1>1, AppWith DEF Window, Held
    <3>2. app.h = h => n.pc \in Built
      BY <1>3, <3>1, DesktopParameters DEF GoesOn, Opening, Built
    <3>3. QED
      BY <1>4, <3>1, <3>2
  <2>3. \A g \in Handles : rcv'[g].pc # "closed" => g = app.h \/ (k # Idle /\ g = k.h)
    BY <1>1, <1>4, <1>5 DEF Window, Held
  <2>4. ASSUME k # Idle
        PROVE  /\ k.pc \in {"wait", "start", "opening"} => app.h = None
               /\ k.h # None => k.pc \in {"wait", "opening"}
    BY <1>1, <2>4 DEF Window, Held
  <2>5. ASSUME k # Idle, k.pc = "opening"
        PROVE  /\ k.h # None /\ rcv'[k.h].pc \in Rising
               /\ ~rcv'[k.h].ctx /\ ~rcv'[k.h].err /\ rcv'[k.h].set = k.next
    <3>1. /\ k.h # None /\ rcv[k.h].pc \in Rising
          /\ ~rcv[k.h].ctx /\ ~rcv[k.h].err /\ rcv[k.h].set = k.next
      BY <1>1, <2>5 DEF Window, Held
    <3>2. k.h \in Handles
      BY <1>1, <2>5, <3>1 DEF Call
    <3>3. CASE k.h = h
      <4>1. n.pc \in Rising /\ n.ctx = rcv[h].ctx /\ n.err = rcv[h].err
        BY <1>3, <1>7, <2>5, <3>3 DEF GoesOn, Opening, Built
      <4>2. QED
        BY <1>3, <1>4, <3>1, <3>3, <4>1
    <3>4. CASE k.h # h
      BY <1>4, <3>1, <3>2, <3>4
    <3>5. QED
      BY <3>3, <3>4
  <2>6. QED
    BY <1>6, <2>1, <2>2, <2>3, <2>4, <2>5 DEF Held
<1>10. Reported(k)'
  <2>1. ASSUME app.h # None
        PROVE  /\ rcv'[app.h].ctx => rcv'[app.h].err
               /\ rcv'[app.h].pc = "stopping" => rcv'[app.h].ctx
               /\ rcv'[app.h].pc = "stopped" => app'.err
    <3>1. /\ app.h \in Handles /\ rcv[app.h].pc \in Built
          /\ rcv[app.h].ctx => rcv[app.h].err
          /\ rcv[app.h].pc = "stopping" => rcv[app.h].ctx
          /\ rcv[app.h].pc = "stopped" => app.err
      BY <1>1, <2>1, AppWith DEF Window, Held, Reported
    <3>2. CASE app.h = h
      <4>1. /\ n.ctx => n.err
            /\ n.pc = "stopping" => n.ctx
            /\ n.pc = "stopped" => n.err \/ (rcv[h].pc = "stopping" /\ n.ctx = rcv[h].ctx)
        BY <1>3, <3>1, <3>2 DEF GoesOn, Built, Opening
      <4>2. n.pc = "stopped" => n.err
        BY <3>1, <3>2, <4>1
      <4>3. QED
        BY <1>4, <1>6, <3>1, <3>2, <4>1, <4>2
    <3>3. CASE app.h # h
      BY <1>4, <1>6, <3>1, <3>3
    <3>4. QED
      BY <3>2, <3>3
  <2>2. (app.up = "up" /\ app.h = None /\ (k = Idle \/ (k.for = "save" /\ k.pc \in {"write", "apply", "stop", "template"})))
          => app.err
    BY <1>1 DEF Window, Reported
  <2>3. QED
    BY <1>6, <2>1, <2>2 DEF Reported
<1>11. Served(k)'
  <2>1. app.h # None => rcv'[app.h].set = rcv[app.h].set
    BY <1>3, <1>4, AppWith
  <2>2. QED
    BY <1>1, <1>6, <2>1 DEF Window, Served
<1>12. One(k)'
  BY <1>1, <1>6 DEF One
<1>13. QED
  BY <1>8, <1>9, <1>10, <1>11, <1>12 DEF Window, WindowInv

\* The app is killed: nothing of it is left.
LEMMA KillWindow ==
  ASSUME DesktopKill
  PROVE  WindowInv'
<1>1. /\ \A g \in Handles : rcv'[g].pc = "closed"
      /\ app'.up = "new" /\ app'.h = None /\ \A c \in Calls : call'[c] = Idle
  BY DesktopParameters DEF DesktopKill, Release, Closed
<1>2. Window(Idle)'
  BY <1>1 DEF Window, Stages, Held, Reported, Served
<1>3. One(Idle)'
  BY <1>1 DEF One
<1>4. QED
  BY <1>2, <1>3 DEF WindowInv

\* The window before it was opened.
LEMMA WindowStarts ==
  ASSUME Init
  PROVE  WindowInv
<1>1. /\ \A g \in Handles : rcv[g].pc = "closed"
      /\ app.up = "new" /\ app.h = None /\ \A c \in Calls : call[c] = Idle
  BY DesktopParameters DEF Init, ServiceInit, DesktopInit, Closed
<1>2. Window(Idle)
  BY <1>1 DEF Window, Stages, Held, Reported, Served
<1>3. One(Idle)
  BY <1>1 DEF One
<1>4. QED
  BY <1>2, <1>3 DEF WindowInv

\* A daemon has receivers of its own.
LEMMA DaemonWindow ==
  ASSUME FrontendsInv, WindowInv, NEW d \in Daemons, DaemonNext(d), UNCHANGED desktopVars
  PROVE  WindowInv'
<1>1. d \in Receivers /\ d \notin Handles
  BY DaemonAssumption, FrontendsAssumption
<1>2. rcv \in [Receivers -> Receiver \union {Closed}] /\ DesktopTypeOK
  BY DEF FrontendsInv, ServiceInv, ServiceTypeOK
<1>3. \A h \in Handles : h \in Receivers /\ h # d
  BY <1>1, DesktopParameters
<1>4. \A h \in Handles : rcv'[h] = rcv[h]
  <2>1. CASE \E r : rcv' = [rcv EXCEPT ![d] = r]
    BY <1>2, <1>3, <2>1
  <2>2. CASE rcv' = rcv
    BY <2>2
  <2>3. CASE Release({d})
    BY <1>3, <2>3 DEF Release
  <2>4. QED
    BY <2>1, <2>2, <2>3 DEF DaemonNext, DaemonProgress, Progress, Faults, Start, Open, GivesUp, Serve,
      Run, Stat, Dial, Remove, Listen, CtlMoves, Close, Unlink, CtlFails, Signal, Cancel, Exit, Kill,
      Begin, TimesOut, Migrate, ReadId, MintId, ApplyTemplate, LoadKey, CreateKey, LoadCert, Issue, Sign,
      Bind, Stop, Drained, OpenFails, PartFails, AcceptFails, Moves, serviceVars
<1>5. UNCHANGED <<app, call>>
  BY DEF desktopVars
<1>6. QED
  BY <1>2, <1>4, <1>5, WindowStays

\* Every step keeps the window right, with one call at a time.
LEMMA WindowSteps ==
  ASSUME OneCall, FrontendsInv, WindowInv, [Next]_vars
  PROVE  WindowInv'
<1>1. ServiceInv /\ DesktopTypeOK
  BY DEF FrontendsInv
<1>2. CASE DesktopStep
  <2>1. DesktopNext \/ \E h \in Handles : Faults(h) /\ UNCHANGED desktopVars
    BY <1>2 DEF DesktopStep, Desktops
  <2>2. QED
    BY <1>1, <2>1, CalledWindow, LoadWindow, ReturnWindow, AppliesWindow, StopWindow, WaitedWindow,
       StartWindow, StartedWindow, HandleWindow DEF DesktopNext, CallProgress
<1>3. CASE DesktopKill
  BY <1>3, KillWindow
<1>4. CASE PhoneStep \/ UNCHANGED vars
  <2>1. UNCHANGED <<rcv, app, call>>
    BY <1>4 DEF PhoneStep, vars, serviceVars, desktopVars
  <2>2. QED
    BY <1>1, <2>1, WindowStays
<1>5. CASE DaemonStep
  BY <1>5, DaemonWindow DEF DaemonStep, Alone
<1>6. QED
  BY <1>2, <1>3, <1>4, <1>5 DEF Next

\* While one call of the window is in progress at a time, it is known who has each receiver
\* that is open, whose settings it serves, and that nobody is left without one and without an
\* error: for any number of handles, settings, daemons beside the app, and kills.
THEOREM WindowSound ==
  ASSUME OneCall
  PROVE  Spec => []WindowInv
<1>1. Init => WindowInv
  BY WindowStarts
<1>2. FrontendsInv /\ WindowInv /\ [Next]_vars => WindowInv'
  BY WindowSteps
<1>3. QED
  BY <1>1, <1>2, FrontendsSound, PTL DEF Spec

\* The app never has two receivers on one ledger, however its calls follow one another.
THEOREM ReceiverIsOne ==
  ASSUME OneCall
  PROVE  Spec => []OneReceiver
<1>1. WindowInv => OneReceiver
  <2>1. SUFFICES ASSUME NEW k \in Call \union {Idle}, Window(k),
                        NEW g \in Handles, NEW h \in Handles, rcv[g].pc # "closed", rcv[h].pc # "closed"
                 PROVE  g = h
    BY DEF WindowInv, OneReceiver
  <2>2. (g = app.h \/ (k # Idle /\ g = k.h)) /\ (h = app.h \/ (k # Idle /\ h = k.h))
    BY <2>1 DEF Window, Held
  <2>3. k # Idle /\ k.h # None => app.h = None
    BY <2>1 DEF Window, Held
  <2>4. QED
    BY <2>2, <2>3, DesktopParameters
<1>2. QED
  BY <1>1, WindowSound, PTL

\* With no call in progress the window is right about the receiver: it serves the settings
\* that are shown, or an error is, whatever failed and in whatever order.
THEOREM WindowRight ==
  ASSUME OneCall
  PROVE  Spec => []WindowIsRight
<1>1. FrontendsInv /\ WindowInv => WindowIsRight
  <2>1. SUFFICES ASSUME FrontendsInv, WindowInv, app.up = "up", ~Busy
                 PROVE  \/ app.err
                        \/ app.h # None /\ rcv[app.h].pc # "stopped" /\ rcv[app.h].set.port = app.set.port
    BY DEF WindowIsRight
  <2>2. PICK k \in Call \union {Idle} : One(k) /\ Window(k)
    BY <2>1 DEF WindowInv
  <2>3. k = Idle
    BY <2>1, <2>2 DEF One, Busy
  <2>4. app.err \in BOOLEAN
    BY <2>1, AppWith DEF FrontendsInv
  <2>5. QED
    BY <2>1, <2>2, <2>3, <2>4 DEF Window, Reported, Served
<1>2. QED
  BY <1>1, FrontendsSound, WindowSound, PTL

=============================================================================
