------------------------------ MODULE Transfer ------------------------------
(***************************************************************************)
(* A run of the phone in the foreground (mobile/src/engine/uploader.ts):   *)
(* entries of the library are resolved to files, most of them copies, by   *)
(* a pool (core/pool.ts); what the receiver has not got yet is uploaded by *)
(* a work queue (core/queue.ts); and the copies are deleted at the end.    *)
(* The user pauses, resumes and cancels meanwhile.                         *)
(*                                                                         *)
(* JavaScript runs one callback at a time: a step is what happens from one *)
(* await to the next, microtasks included.  Every file is a copy, and      *)
(* files that were sent are hashed at the end.                             *)
(***************************************************************************)
EXTENDS Naturals, FiniteSets, FiniteSetsExt, Sequences, SequencesExt

CONSTANTS
  Entries,    \* what is selected: the set of files each entry resolves to
  PoolLimit,  \* entries resolved at once
  Lanes,      \* uploads at once
  MaxTaps     \* bound: how often the user presses a button

Files == UNION Entries

ASSUME TransferAssumption ==
  /\ IsFiniteSet(Files)
  /\ \A d, e \in Entries : d # {} /\ (d # e => d \intersect e = {})
  /\ PoolLimit \in Nat \ {0} /\ Lanes \in 1..8 /\ MaxTaps \in Nat

VARIABLES
  run,       \* the phase that is shown, the await run() is at, and the buttons pressed
  pool,      \* entries not taken yet, and those being resolved
  copies,    \* copies on the disk
  resolved,  \* the files run() knows of, and releases
  ledger,    \* the files recorded as sent
  item,      \* the state of each file in the run
  queue,     \* the WorkQueue
  flight     \* its worker for each file, and why it was aborted first

transferVars == <<run, pool, copies, resolved, ledger, item, queue, flight>>

NoFlight == [pc |-> "none", why |-> "none"]

TransferTypeOK ==
  /\ run \in [phase: {"idle", "preparing", "transferring", "paused", "done", "cancelled"},
             at: {"connect", "prepare", "plan", "transfer", "note", "left"}, taps: 0..MaxTaps]
  /\ pool \in [todo: SUBSET Entries, busy: SUBSET Entries]
  /\ copies \subseteq Files /\ resolved \subseteq Files /\ ledger \subseteq Files
  /\ item \in [Files -> {"none", "queued", "uploading", "done", "failed", "cancelled"}]
  /\ queue \in [made: BOOLEAN, pending: Seq(Files), paused: BOOLEAN, stopped: BOOLEAN]
  /\ flight \in [Files -> [pc: {"none", "sending", "recording"}, why: {"none", "paused", "cancelled"}]]

\* What was sent by earlier runs is in the ledger.
TransferInit ==
  /\ run = [phase |-> "idle", at |-> "connect", taps |-> 0]
  /\ pool = [todo |-> Entries, busy |-> {}]
  /\ copies = {} /\ resolved = {}
  /\ ledger \in SUBSET Files
  /\ item = [f \in Files |-> "none"]
  /\ queue = [made |-> FALSE, pending |-> <<>>, paused |-> FALSE, stopped |-> FALSE]
  /\ flight = [f \in Files |-> NoFlight]

InFlight == {f \in Files : flight[f].pc # "none"}

-----------------------------------------------------------------------------
(* Preparing *)

\* Mutant of Released: the items of the run, and not what was resolved for it.
ReleasedItems(files) == {f \in files : item[f] # "none"}

\* run(), finally: a file that was skipped is released as well.
Released(files) == files

\* run() leaves, by returning or by throwing.
Leaves(files) == copies' = copies \ Released(files)

\* connect, of session.ts, finds an address or throws.  prepare sets the phase, whatever
\* it is by now, and the pool takes its first entries.
Connected ==
  /\ run.at = "connect"
  /\ run' = [run EXCEPT !.phase = "preparing", !.at = "prepare"]
  /\ \E first \in kSubset(Min({PoolLimit, Cardinality(Entries)}), Entries) :
       pool' = [todo |-> Entries \ first, busy |-> first]
  /\ UNCHANGED <<copies, resolved, ledger, item, queue, flight>>

ConnectFails ==
  /\ run.at = "connect"
  /\ run' = [run EXCEPT !.at = "left"]
  /\ UNCHANGED <<pool, copies, resolved, ledger, item, queue, flight>>

\* A worker of the pool has the files of an entry, made copies of some, and goes on with
\* another entry, as long as the run is being prepared.
\* After the last, a run that was cancelled returns, and another reads the ledger.
PoolGoesOn(e, files, made) ==
  \E next \in IF run.phase = "preparing" /\ pool.todo # {} THEN {{g} : g \in pool.todo} ELSE {{}} :
    LET busy == (pool.busy \ {e}) \union next
        left == busy = {} /\ run.phase = "cancelled" IN
      /\ pool' = [todo |-> pool.todo \ next, busy |-> busy]
      /\ resolved' = resolved \union files
      /\ run' = [run EXCEPT !.at = IF left THEN "left" ELSE IF busy = {} THEN "plan" ELSE @]
      /\ IF left THEN copies' = (copies \union made) \ Released(resolved')
                 ELSE copies' = copies \union made

Resolve(e) ==
  /\ e \in pool.busy
  /\ PoolGoesOn(e, e, e)
  /\ UNCHANGED <<ledger, item, queue, flight>>

\* resolveAsset throws: the copies of the entry it had made already are returned to nobody.
ResolveFails(e) ==
  /\ e \in pool.busy
  /\ \E made \in SUBSET e : made # e /\ PoolGoesOn(e, {}, made)
  /\ UNCHANGED <<ledger, item, queue, flight>>

-----------------------------------------------------------------------------
(* The queue *)

\* WorkQueue.pump, from a queue, its workers and the states of the items: it starts what
\* there are lanes for, and send begins.
Pump(q, workers, states) ==
  LET busy == Cardinality({f \in Files : workers[f].pc # "none"})
      n == IF q.paused \/ q.stopped THEN 0 ELSE Min({Lanes - busy, Len(q.pending)})
      go == ToSet(SubSeq(q.pending, 1, n)) IN
    /\ queue' = [q EXCEPT !.pending = SubSeq(@, n + 1, Len(@))]
    /\ flight' = [f \in Files |-> IF f \in go THEN [pc |-> "sending", why |-> "none"] ELSE workers[f]]
    /\ item' = [f \in Files |-> IF f \in go THEN "uploading" ELSE states[f]]

\* isIdle, after a step.
IdleNext ==
  /\ \A f \in Files : flight'[f].pc = "none"
  /\ queue'.pending = <<>> \/ queue.stopped

\* Whoever waits for idle goes on: the rest of transfer, then noteTransferred, which hashes
\* what was sent.
GoesOn ==
  IF run.at = "transfer" /\ IdleNext
    THEN LET hashes == \E f \in Files : item'[f] = "done" IN
           /\ run' = [run EXCEPT !.phase = IF @ \in {"cancelled", "paused"} THEN @ ELSE "done",
                                 !.at = IF hashes THEN "note" ELSE "left"]
           /\ IF hashes THEN UNCHANGED copies ELSE Leaves(resolved)
    ELSE UNCHANGED <<run, copies>>

\* The plan is made from the ledger, what was sent before is noted, and transfer begins.
\* It sets the phase as prepare does.
Plan ==
  LET items == resolved \ ledger IN
    /\ run.at = "plan"
    /\ IF items = {}
         THEN /\ run' = [run EXCEPT !.phase = "done", !.at = "left"]
              /\ Leaves(resolved)
              /\ UNCHANGED <<item, queue, flight>>
         ELSE /\ run' = [run EXCEPT !.phase = "transferring", !.at = "transfer"]
              /\ Pump([queue EXCEPT !.made = TRUE, !.pending = SetToSeq(items)], flight,
                      [f \in Files |-> IF f \in items THEN "queued" ELSE "none"])
              /\ UNCHANGED copies
    /\ UNCHANGED <<pool, resolved, ledger>>

\* The ledger cannot be read: run() throws.
PlanFails ==
  /\ run.at = "plan"
  /\ run' = [run EXCEPT !.at = "left"]
  /\ Leaves(resolved)
  /\ UNCHANGED <<pool, resolved, ledger, item, queue, flight>>

-----------------------------------------------------------------------------
(* An upload *)

\* Mutant of Requeued: send throws the error of the native side, which no queue knows.
RequeuedNever(f) == FALSE

\* WorkQueue.run: send throws the reason of the abort, and the queue takes the item back
\* when it was a pause.
Requeued(f) == flight[f].why = "paused" /\ ~queue.stopped

\* A worker ends, with its item in a state; the queue takes it back or not, and goes on.
WorkerEnds(f, state, back) ==
  /\ Pump([queue EXCEPT !.pending = IF back THEN <<f>> \o @ ELSE @],
          [flight EXCEPT ![f] = NoFlight], [item EXCEPT ![f] = state])
  /\ GoesOn

\* send, catch: what was aborted is queued or cancelled, and anything else has failed.
Throws(f) ==
  IF flight[f].why = "none"
    THEN WorkerEnds(f, "failed", FALSE)
    ELSE WorkerEnds(f, IF run.phase = "cancelled" THEN "cancelled" ELSE "queued", Requeued(f))

\* The upload succeeds, which an abort may come too late for.  The item is done, and its
\* file is to be recorded.
Uploaded(f) ==
  /\ flight[f].pc = "sending"
  /\ item' = [item EXCEPT ![f] = "done"]
  /\ flight' = [flight EXCEPT ![f].pc = "recording"]
  /\ UNCHANGED <<run, pool, copies, resolved, ledger, queue>>

Recorded(f) ==
  /\ flight[f].pc = "recording"
  /\ ledger' = ledger \union {f}
  /\ WorkerEnds(f, "done", FALSE)
  /\ UNCHANGED <<pool, resolved>>

\* The upload fails or is aborted, or its record cannot be written.
SendFails(f) ==
  /\ flight[f].pc # "none"
  /\ Throws(f)
  /\ UNCHANGED <<pool, resolved, ledger>>

\* noteTransferred is done, and run() returns.
Noted ==
  /\ run.at = "note"
  /\ run' = [run EXCEPT !.at = "left"]
  /\ Leaves(resolved)
  /\ UNCHANGED <<pool, resolved, ledger, item, queue, flight>>

-----------------------------------------------------------------------------
(* The user *)

Taps(phase) ==
  /\ run.taps < MaxTaps
  /\ run' = [run EXCEPT !.phase = phase, !.taps = @ + 1]

\* An AbortController keeps the first reason it was given.
Aborted(why) ==
  flight' = [f \in Files |-> IF f \in InFlight /\ flight[f].why = "none"
                               THEN [flight[f] EXCEPT !.why = why] ELSE flight[f]]

Pause ==
  /\ run.phase = "transferring"
  /\ Taps("paused")
  /\ queue' = [queue EXCEPT !.paused = TRUE]
  /\ Aborted("paused")
  /\ UNCHANGED <<pool, copies, resolved, ledger, item>>

\* Resume pumps; a run that ended paused has nobody left who waits.
Resume ==
  /\ run.phase = "paused"
  /\ Taps("transferring")
  /\ Pump([queue EXCEPT !.paused = FALSE], flight, item)
  /\ UNCHANGED <<pool, copies, resolved, ledger>>

\* The button, or the screen that goes.  The queue does not pump: that is for the workers
\* it aborts.
CancelRun ==
  /\ Taps("cancelled")
  /\ IF queue.made
       THEN queue' = [queue EXCEPT !.stopped = TRUE, !.pending = <<>>] /\ Aborted("cancelled")
       ELSE UNCHANGED <<queue, flight>>
  /\ UNCHANGED <<pool, copies, resolved, ledger, item>>

RunStep ==
  \/ Connected \/ ConnectFails \/ Plan \/ PlanFails \/ Noted
  \/ \E e \in Entries : Resolve(e) \/ ResolveFails(e)
  \/ \E f \in Files : Uploaded(f) \/ Recorded(f) \/ SendFails(f)

TransferNext ==
  \/ RunStep
  \/ Pause \/ Resume \/ CancelRun

TransferSpec == TransferInit /\ [][TransferNext]_transferVars

-----------------------------------------------------------------------------
(* Properties *)

\* Every file is in one place, however pauses, resumes and cancels meet uploads that end
\* meanwhile: one upload at a time of a file and no more than there are lanes, nothing that
\* is neither queued, in flight nor settled while the queue goes on, and a run that is over
\* without a cancel has sent or failed each.  And a cancel that found the queue is final
\* (queue.ts, pause: "nothing is lost by stopping mid-file"; uploader.ts, send: another
\* error "would quietly drop the file the user was watching").
NothingIsDropped ==
  LET pending == ToSet(queue.pending)
      open == {f \in Files : item[f] \in {"queued", "uploading", "cancelled"}} IN
    /\ Cardinality(pending) = Len(queue.pending)
    /\ pending \intersect InFlight = {}
    /\ Cardinality(InFlight) <= Lanes
    /\ \A f \in pending : item[f] = "queued"
    /\ run.at = "transfer" /\ ~queue.stopped => open = pending \union {f \in InFlight : flight[f].pc = "sending"}
    /\ run.at \in {"note", "left"} /\ ~queue.stopped => open = {}
    /\ queue.stopped => run.phase = "cancelled"

\* A queue that was cancelled while it was paused and nothing was in flight: nobody pumps,
\* so that transfer waits for ever.
Stranded == run.at = "transfer" /\ queue.stopped /\ InFlight = {}

\* The copies run() knows of are deleted, whatever fails and whenever the user stops it,
\* unless the run stays paused or is stranded (uploader.ts, run: "Every copy this made is
\* deleted on the way out, by whichever way it leaves").
CopiesAreReleased ==
  copies \intersect resolved # {} ~> copies \intersect resolved = {} \/ run.phase = "paused" \/ Stranded
=============================================================================
