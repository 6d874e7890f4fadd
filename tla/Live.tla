-------------------------------- MODULE Live --------------------------------
(***************************************************************************)
(* What the desktop window shows of files on their way: the receiver       *)
(* publishes events (core/receiver), a bus queues them and drops what does *)
(* not fit (core/events), and the app folds them into a table              *)
(* (desktop/internal/app/live.go).                                         *)
(*                                                                         *)
(* A transfer is an upload of a phone or a file a phone collects; either   *)
(* may stop part way and go on later.  The receiver may be replaced under  *)
(* the app, and then forgets what it announced; its requests end with it.  *)
(* Sizes are a few chunks, the throughput is the bytes it is made of, and  *)
(* the list of what finished lately is left out.                           *)
(***************************************************************************)
EXTENDS Naturals, Sequences

CONSTANTS
  Uploads, Fetches,  \* transfers: files that arrive, files that are collected
  Size,              \* chunks of a file
  Buffer,            \* depth of the subscriber's queue (DefaultBuffer)
  MaxBytes           \* bound: chunks of one transfer that move

ASSUME LiveAssumption ==
  /\ Size \in Nat \ {0} /\ Buffer \in Nat \ {0} /\ MaxBytes \in Nat
  /\ Uploads \intersect Fetches = {}

VARIABLES
  moved,      \* the transfers, as the receiver and the phone have them
  announced,  \* uploads this receiver has reported as started
  queue,      \* events published and not yet applied
  dropped,    \* history: transfers an event of which was dropped
  table       \* the live view

liveVars == <<moved, announced, queue, dropped, table>>

Transfers == Uploads \union Fetches
Event == [kind: {"started", "progress", "finished", "failed"}, of: Transfers, offset: 0..Size]

\* has: how far the file is; at: how far the running request is, from: where it began;
\* bytes: history, chunks that moved since the app started.
Transfer == [st: {"none", "cut", "moving", "flushed", "over", "cancelled", "swept"},
             has: 0..Size, at: 0..Size, from: 0..Size, bytes: 0..MaxBytes]
New      == [st |-> "none", has |-> 0, at |-> 0, from |-> 0, bytes |-> 0]

\* counted: the bytes the throughput is computed from, which the code keeps as one sum.
LiveTypeOK ==
  /\ moved \in [Transfers -> Transfer]
  /\ announced \subseteq Uploads
  /\ queue \in Seq(Event) /\ Len(queue) <= Buffer
  /\ dropped \subseteq Transfers
  /\ DOMAIN table.active \subseteq Transfers /\ \A t \in DOMAIN table.active : table.active[t] \in 0..Size
  /\ table.counted \in [Transfers -> Nat]

\* An upload may be left over from before the app started.
LiveInit ==
  /\ moved \in {m \in [Transfers -> {New, [New EXCEPT !.st = "cut", !.has = 1]}] :
                   \A f \in Fetches : m[f] = New}
  /\ announced = {}
  /\ queue = <<>>
  /\ dropped = {}
  /\ table = [active |-> <<>>, counted |-> [t \in Transfers |-> 0]]

-----------------------------------------------------------------------------
\* Mutant of Publish: the queue has no limit.
PublishAll(kind, t, offset) ==
  queue' = Append(queue, [kind |-> kind, of |-> t, offset |-> offset]) /\ UNCHANGED dropped

\* Bus.Publish never blocks.
Publish(kind, t, offset) ==
  IF Len(queue) < Buffer
    THEN queue' = Append(queue, [kind |-> kind, of |-> t, offset |-> offset]) /\ UNCHANGED dropped
    ELSE dropped' = dropped \union {t} /\ UNCHANGED queue

Quiet == UNCHANGED <<queue, dropped>>

\* uploadStore.announce: once in the life of a receiver.
Announce(u, offset) ==
  /\ announced' = announced \union {u}
  /\ IF u \in announced THEN Quiet ELSE Publish("started", u, offset)

NewUpload(u) ==
  /\ moved[u].st = "none"
  /\ moved' = [moved EXCEPT ![u].st = "cut"]
  /\ Announce(u, 0)
  /\ UNCHANGED table

\* upload.WriteChunk as far as the copy, at the offset that has landed.
WriteChunk(u) ==
  LET m == moved[u] IN
  /\ m.st = "cut" /\ m.has < Size /\ m.bytes < MaxBytes
  /\ moved' = [moved EXCEPT ![u].st = "moving", ![u].at = m.has, ![u].from = m.has]
  /\ Announce(u, m.has)
  /\ UNCHANGED table

\* handleOutboxFetch: every request is a start, at the first byte of its range.
Fetch(f) ==
  /\ moved[f].st \in {"none", "cut", "over"} /\ moved[f].bytes < MaxBytes
  /\ \E from \in {0, moved[f].has} :
       /\ from < Size
       /\ moved' = [moved EXCEPT ![f].st = "moving", ![f].at = from, ![f].from = from]
       /\ Publish("started", f, from)
  /\ UNCHANGED <<announced, table>>

Later(a, b) == IF a > b THEN a ELSE b

\* A chunk passes through the copy; the reporter, last of its writers, publishes if its
\* interval has elapsed.
Move(t) ==
  LET at == moved[t].at + 1 IN
  /\ moved[t].st = "moving" /\ at <= Size /\ moved[t].bytes < MaxBytes
  /\ moved' = [moved EXCEPT ![t].at = at, ![t].has = Later(@, at), ![t].bytes = @ + 1]
  /\ Quiet \/ Publish("progress", t, at)
  /\ UNCHANGED <<announced, table>>

\* The copy ends, wherever the connection did; a collected file is always reported once more.
Flush(t) ==
  LET m == moved[t] IN
  /\ m.st = "moving"
  /\ moved' = [moved EXCEPT ![t].st = IF m.at = Size THEN "flushed" ELSE "cut"]
  /\ IF t \in Fetches \/ m.at > m.from THEN Publish("progress", t, m.at) ELSE Quiet
  /\ UNCHANGED <<announced, table>>

\* FinishUpload, or a fetch that reached the end of its file.
Finish(t) ==
  /\ moved[t].st = "flushed"
  /\ moved' = [moved EXCEPT ![t].st = "over"]
  /\ announced' = announced \ {t}
  /\ Publish("finished", t, Size)
  /\ UNCHANGED table

\* Mutant of FinishFails: the failure is logged and not published.
FinishFailsSilently(u) ==
  /\ moved[u].st = "flushed"
  /\ \E st \in {"over", "cut"} : moved' = [moved EXCEPT ![u].st = st]
  /\ announced' = announced \ {u}
  /\ Quiet /\ UNCHANGED table

\* upload.failed: what did not verify is gone, what could not be placed stays.
FinishFails(u) ==
  /\ moved[u].st = "flushed"
  /\ \E st \in {"over", "cut"} : moved' = [moved EXCEPT ![u].st = st]
  /\ announced' = announced \ {u}
  /\ Publish("failed", u, moved[u].has)
  /\ UNCHANGED table

Terminate(u) ==
  /\ moved[u].st = "cut"
  /\ moved' = [moved EXCEPT ![u].st = "cancelled"]
  /\ announced' = announced \ {u}
  /\ Publish("failed", u, moved[u].has)
  /\ UNCHANGED table

\* sweepIncoming: no event is published.
Sweep(u) ==
  /\ moved[u].st = "cut"
  /\ moved' = [moved EXCEPT ![u].st = "swept"]
  /\ announced' = announced \ {u}
  /\ Quiet /\ UNCHANGED table

\* Another receiver takes over, with no memory of what was announced.
Moving == \E t \in Transfers : moved[t].st \in {"moving", "flushed"}
Replace == announced' = {} /\ UNCHANGED <<moved, queue, dropped, table>>

-----------------------------------------------------------------------------
Row(t)     == table.active[t]
Without(t) == [a \in DOMAIN table.active \ {t} |-> table.active[a]]
With(t, o) == [a \in DOMAIN table.active \union {t} |-> IF a = t THEN o ELSE table.active[a]]

\* Mutant of Advance: every offset counts from the first byte.
AdvanceAll(t, o) == [table.counted EXCEPT ![t] = @ + o]

\* live.advance: only forward movement counts.  A transfer with no row gets one at zero.
From(t)       == IF t \in DOMAIN table.active THEN Row(t) ELSE 0
Advance(t, o) == [table.counted EXCEPT ![t] = @ + Later(o, From(t)) - From(t)]

\* live.apply, for the next event of the queue.
Fold(e) ==
  CASE e.kind = "started" ->
         IF e.of \in DOMAIN table.active THEN table
           ELSE [table EXCEPT !.active = With(e.of, e.offset)]
    [] e.kind = "progress" ->
         [table EXCEPT !.active = With(e.of, Later(e.offset, From(e.of))),
                       !.counted = Advance(e.of, e.offset)]
    [] OTHER ->
         [table EXCEPT !.active = Without(e.of), !.counted = Advance(e.of, e.offset)]

Apply ==
  /\ queue # <<>>
  /\ table' = Fold(Head(queue))
  /\ queue' = Tail(queue)
  /\ UNCHANGED <<moved, announced, dropped>>

LiveNext ==
  \/ \E u \in Uploads : NewUpload(u) \/ WriteChunk(u) \/ FinishFails(u) \/ Terminate(u) \/ Sweep(u)
  \/ \E f \in Fetches : Fetch(f)
  \/ \E t \in Transfers : Move(t) \/ Flush(t) \/ Finish(t)

-----------------------------------------------------------------------------
\* When the window has seen every event, a transfer that moves has a row that is not ahead of
\* it, and one that ended has none (upload.failed: "A silent failure leaves a row in the live
\* view that never resolves").
RowsMatch == queue = <<>> => \A t \in Transfers \ dropped :
  /\ moved[t].st \in {"moving", "flushed"} => t \in DOMAIN table.active /\ Row(t) <= moved[t].has
  /\ moved[t].st \in {"over", "cancelled"} => t \notin DOMAIN table.active

\* No throughput is shown for bytes that did not move, however often a transfer starts again
\* (live.advance: "a burst of throughput that never happened").  Uploads that are cancelled
\* are told apart: the event counts an upload that has no row from its first byte.
RateIsReal == \A t \in Transfers \ dropped :
  moved[t].st # "cancelled" => table.counted[t] <= moved[t].bytes
=============================================================================
