----------------------------- MODULE Conversion -----------------------------
(***************************************************************************)
(* The conversion queue of the receiver (core/formats/queue.go): a file    *)
(* that was stored is put to the output policy; if the policy asks for a   *)
(* converted copy, a row of the table conversions is inserted and the      *)
(* queue is told over a channel of capacity one.  A pool of workers claims *)
(* rows, runs the tools, removes the original when the policy replaces it, *)
(* and records an outcome.  The receiver may be killed between any two     *)
(* statements, and each statement of the ledger may fail.                  *)
(*                                                                         *)
(* A file is identified by the asset it belongs to and by its row: names,  *)
(* tools and digests are abstracted.  disk[f] says whether stored_path     *)
(* holds the bytes that arrived.                                           *)
(***************************************************************************)
EXTENDS Naturals, FiniteSets

CONSTANTS
    Assets,      \* what a phone sends: each asset is the set of its files
    Policy,      \* per file: what the output preset asks for
    Workers,     \* the goroutines of one ConvertPending
    Faults,      \* what may go wrong, out of the kinds below
    MaxFaults,   \* bound: how often
    None

ReceiverFaults == {"kill", "ledger", "remove", "rot"}

Files == UNION Assets

AssetOf(f) == CHOOSE a \in Assets : f \in a

Paired(f) == Cardinality(AssetOf(f)) > 1

Actions == {"keep", "sidecar", "replace"}

ASSUME ConversionAssumption ==
    /\ \A a, b \in Assets : a # b => a \cap b = {}
    /\ Policy \in [Files -> Actions]
    /\ None \notin Files
    /\ MaxFaults \in Nat

VARIABLES
    up,        \* whether the receiver runs
    stage,     \* per file: how far its upload got on the receiver
    disk,      \* per file: what is at stored_path
    marked,    \* files whose row has original_removed_at
    row,       \* per file: the state of its row of conversions
    output,    \* files a converted copy of which was moved into place
    wake,      \* whether the channel q.wake holds a wake-up
    loop,      \* what Run is doing
    stopping,  \* whether the context of this ConvertPending was cancelled
    worker,    \* per worker: the statement it is about to execute
    removed,   \* history: originals the queue itself removed
    broken,    \* history: whether a ledger error stopped this run of the queue
    faults     \* how many faults there were

queueVars == <<wake, loop, stopping, worker>>
receiverVars == <<up, stage, disk, marked, row, output, queueVars, removed, broken, faults>>

Ended == {"done", "skipped", "failed"}
Idle == [pc |-> "idle", file |-> None, outcome |-> "failed"]
Exited == [Idle EXCEPT !.pc = "exited"]

(* What happens to a file, by the preset and by whether it is one half of  *)
(* a pair: the original of a pair is never replaced.                       *)
Decide(f) ==
    IF Policy[f] = "replace" /\ Paired(f) THEN "sidecar" ELSE Policy[f]

Fault(kind) ==
    /\ kind \in Faults
    /\ faults < MaxFaults
    /\ faults' = faults + 1

ConversionInit ==
    /\ up = TRUE
    /\ stage = [f \in Files |-> "away"]
    /\ disk = [f \in Files |-> "none"]
    /\ marked = {}
    /\ row = [f \in Files |-> "none"]
    /\ output = {}
    /\ wake = FALSE
    /\ loop = "waiting"
    /\ stopping = FALSE
    /\ worker = [w \in Workers |-> Exited]
    /\ removed = {}
    /\ broken = FALSE
    /\ faults = 0

-----------------------------------------------------------------------------
(* A file that was received *)

(* Commit ends: the bytes are at their path and the ledger has the row. *)
Place(f) ==
    /\ up
    /\ stage[f] = "away"
    /\ stage' = [stage EXCEPT ![f] = "placed"]
    /\ disk' = [disk EXCEPT ![f] = "good"]
    /\ UNCHANGED <<up, marked, row, output, queueVars, removed, broken, faults>>

(* The policy decides, and the row is inserted: never before the file is in *)
(* its place.  An insert that fails leaves the file stored, unconverted.    *)
Enqueue(f) ==
    /\ up
    /\ stage[f] = "placed"
    /\ \/ /\ Decide(f) = "keep"
          /\ stage' = [stage EXCEPT ![f] = "stored"]
          /\ UNCHANGED <<row, faults>>
       \/ /\ Decide(f) # "keep"
          /\ row' = [row EXCEPT ![f] = "pending"]
          /\ stage' = [stage EXCEPT ![f] = "queued"]
          /\ UNCHANGED faults
       \/ /\ Decide(f) # "keep"
          /\ Fault("ledger")
          /\ stage' = [stage EXCEPT ![f] = "stored"]
          /\ UNCHANGED row
    /\ UNCHANGED <<up, disk, marked, output, queueVars, removed, broken>>

(* Wake never blocks: a wake-up that is there already stands for this one. *)
Wake(f) ==
    /\ up
    /\ stage[f] = "queued"
    /\ stage' = [stage EXCEPT ![f] = "stored"]
    /\ wake' = TRUE
    /\ UNCHANGED <<up, disk, marked, row, output, loop, stopping, worker, removed, broken, faults>>

-----------------------------------------------------------------------------
(* The queue *)

(* Run starts ConvertPending again: every worker looks for a row. *)
WakeUp ==
    /\ up
    /\ loop = "waiting"
    /\ wake
    /\ wake' = FALSE
    /\ loop' = "working"
    /\ worker' = [w \in Workers |-> Idle]
    /\ UNCHANGED <<up, stage, disk, marked, row, output, stopping, removed, broken, faults>>

(* g.Wait returns once every worker has; the next ConvertPending has a     *)
(* context of its own.                                                     *)
GroupEnds ==
    /\ up
    /\ loop = "working"
    /\ \A w \in Workers : worker[w] = Exited
    /\ loop' = "waiting"
    /\ stopping' = FALSE
    /\ UNCHANGED <<up, stage, disk, marked, row, output, wake, worker, removed, broken, faults>>

At(w, pc) == up /\ worker[w].pc = pc

Goto(w, pc) == worker' = [worker EXCEPT ![w].pc = pc]

(* The SELECT of claim.  Of the pending rows the oldest is read; as times  *)
(* are abstracted, any of them may be it.                                  *)
Select(w) ==
    /\ At(w, "idle")
    /\ ~stopping
    /\ \/ \E f \in Files :
            /\ row[f] = "pending"
            /\ worker' = [worker EXCEPT ![w] = [Idle EXCEPT !.pc = "selected", !.file = f]]
       \/ /\ \A f \in Files : row[f] # "pending"
          /\ worker' = [worker EXCEPT ![w] = Exited]
    /\ UNCHANGED <<up, stage, disk, marked, row, output, wake, loop, stopping, removed, broken, faults>>

(* The bug of a claim that does not look at the rows it affected. *)
ClaimAnyway(w) ==
    LET f == worker[w].file IN
    /\ At(w, "selected")
    /\ ~stopping
    /\ row' = [row EXCEPT ![f] = "running"]
    /\ Goto(w, "claimed")
    /\ UNCHANGED <<up, stage, disk, marked, output, wake, loop, stopping, removed, broken, faults>>

(* The UPDATE of claim: a worker whose row was claimed meanwhile goes      *)
(* round again.                                                            *)
Claim(w) ==
    LET f == worker[w].file IN
    /\ At(w, "selected")
    /\ ~stopping
    /\ \/ /\ row[f] = "pending"
          /\ row' = [row EXCEPT ![f] = "running"]
          /\ Goto(w, "claimed")
       \/ /\ row[f] # "pending"
          /\ worker' = [worker EXCEPT ![w] = Idle]
          /\ UNCHANGED row
    /\ UNCHANGED <<up, stage, disk, marked, output, wake, loop, stopping, removed, broken, faults>>

Outcome(w, outcome) ==
    worker' = [worker EXCEPT ![w].pc = "finish", ![w].outcome = outcome]

(* The bug of a file that needs no conversion and falls through to the     *)
(* removal of its original.                                                *)
ConvertThrough(w) ==
    LET f == worker[w].file IN
    /\ At(w, "claimed")
    /\ ~stopping
    /\ \/ /\ Outcome(w, "failed")
          /\ UNCHANGED output
       \/ /\ disk[f] # "none"
          /\ output' \in {output, output \cup {f}}
          /\ IF Decide(f) = "replace"
             THEN worker' = [worker EXCEPT ![w].pc = "mark", ![w].outcome = "done"]
             ELSE Outcome(w, "done")
    /\ UNCHANGED <<up, stage, disk, marked, row, wake, loop, stopping, removed, broken, faults>>

(* convert: a file that is gone, one the tools refuse, one that needs none, *)
(* or a converted copy that was moved into place under a name of its own.   *)
Convert(w) ==
    LET f == worker[w].file IN
    /\ At(w, "claimed")
    /\ ~stopping
    /\ \/ /\ Outcome(w, "failed")
          /\ UNCHANGED output
       \/ /\ disk[f] # "none"
          /\ Outcome(w, "skipped")
          /\ UNCHANGED output
       \/ /\ disk[f] # "none"
          /\ output' = output \cup {f}
          /\ IF Decide(f) = "replace"
             THEN worker' = [worker EXCEPT ![w].pc = "mark", ![w].outcome = "done"]
             ELSE Outcome(w, "done")
    /\ UNCHANGED <<up, stage, disk, marked, row, wake, loop, stopping, removed, broken, faults>>

(* removeOriginal: the ledger first ... *)
Mark(w) ==
    LET f == worker[w].file IN
    /\ At(w, "mark")
    /\ ~stopping
    /\ \/ /\ marked' = marked \cup {f}
          /\ Goto(w, "remove")
          /\ UNCHANGED faults
       \/ /\ Fault("ledger")
          /\ Outcome(w, "done")
          /\ UNCHANGED marked
    /\ UNCHANGED <<up, stage, disk, row, output, wake, loop, stopping, removed, broken>>

(* ... then the file, which the context does not stop.  A file somebody    *)
(* else removed counts as removed.                                         *)
Remove(w) ==
    LET f == worker[w].file IN
    /\ At(w, "remove")
    /\ \/ /\ disk' = [disk EXCEPT ![f] = "none"]
          /\ removed' = IF disk[f] = "none" THEN removed ELSE removed \cup {f}
          /\ Outcome(w, "done")
          /\ UNCHANGED faults
       \/ /\ disk[f] # "none"
          /\ Fault("remove")
          /\ Goto(w, "undo")
          /\ UNCHANGED <<disk, removed>>
    /\ UNCHANGED <<up, stage, marked, row, output, wake, loop, stopping, broken>>

(* The mark is taken back, if the ledger can be written; its answer is not *)
(* looked at.                                                              *)
Undo(w) ==
    LET f == worker[w].file IN
    /\ At(w, "undo")
    /\ \/ /\ marked' = marked \ {f}
          /\ UNCHANGED faults
       \/ /\ Fault("ledger")
          /\ UNCHANGED marked
    /\ Outcome(w, "done")
    /\ UNCHANGED <<up, stage, disk, row, output, wake, loop, stopping, removed, broken>>

Finish(w) ==
    /\ At(w, "finish")
    /\ ~stopping
    /\ row' = [row EXCEPT ![worker[w].file] = worker[w].outcome]
    /\ worker' = [worker EXCEPT ![w] = Idle]
    /\ UNCHANGED <<up, stage, disk, marked, output, wake, loop, stopping, removed, broken, faults>>

(* Only a broken ledger comes back from a worker as an error; it cancels   *)
(* the context of the whole group.                                         *)
LedgerFails(w) ==
    /\ up
    /\ worker[w].pc \in {"idle", "selected", "finish"}
    /\ Fault("ledger")
    /\ stopping' = TRUE
    /\ broken' = TRUE
    /\ worker' = [worker EXCEPT ![w] = Exited]
    /\ UNCHANGED <<up, stage, disk, marked, row, output, wake, loop, removed>>

(* A worker whose context is gone returns at its next statement, and       *)
(* leaves its row as it is.                                                *)
Cancelled(w) ==
    /\ up
    /\ stopping
    /\ worker[w].pc \in {"idle", "selected", "claimed", "mark", "finish"}
    /\ worker' = [worker EXCEPT ![w] = Exited]
    /\ UNCHANGED <<up, stage, disk, marked, row, output, wake, loop, stopping, removed, broken, faults>>

-----------------------------------------------------------------------------
(* The process and the machine *)

(* The upload a kill interrupts is not answered, and no later offer of the *)
(* same bytes queues its conversion: the receiver has the file by then.    *)
Kill ==
    /\ up
    /\ Fault("kill")
    /\ up' = FALSE
    /\ stage' = [f \in Files |-> IF stage[f] = "away" THEN "away" ELSE "stored"]
    /\ wake' = FALSE
    /\ stopping' = FALSE
    /\ loop' = "waiting"
    /\ worker' = [w \in Workers |-> Exited]
    /\ UNCHANGED <<disk, marked, row, output, removed, broken>>

(* The bug of a start that does not requeue. *)
StartOnly ==
    /\ ~up
    /\ up' = TRUE
    /\ loop' = "working"
    /\ worker' = [w \in Workers |-> Idle]
    /\ broken' = FALSE
    /\ UNCHANGED <<row, faults, stage, disk, marked, output, wake, stopping, removed>>

(* Run: the rows of a process that is gone are requeued, and the queue is  *)
(* worked once before it waits.                                            *)
Start ==
    /\ ~up
    /\ up' = TRUE
    /\ loop' = "working"
    /\ worker' = [w \in Workers |-> Idle]
    /\ \/ /\ row' = [f \in Files |-> IF row[f] = "running" THEN "pending" ELSE row[f]]
          /\ broken' = FALSE
          /\ UNCHANGED faults
       \/ /\ Fault("ledger")
          /\ broken' = TRUE
          /\ UNCHANGED row
    /\ UNCHANGED <<stage, disk, marked, output, wake, stopping, removed>>

(* The user, or the disk, damages or removes a file that was received. *)
Rot(f) ==
    /\ disk[f] = "good"
    /\ Fault("rot")
    /\ disk' \in {[disk EXCEPT ![f] = "bad"], [disk EXCEPT ![f] = "none"]}
    /\ UNCHANGED <<up, stage, marked, row, output, queueVars, removed, broken>>

Worker(w) ==
    \/ Select(w)
    \/ Claim(w)
    \/ Convert(w)
    \/ Mark(w)
    \/ Remove(w)
    \/ Undo(w)
    \/ Finish(w)
    \/ Cancelled(w)

Storing(f) ==
    \/ Enqueue(f)
    \/ Wake(f)

ReceiverStep ==
    \/ \E f \in Files : Storing(f) \/ Rot(f)
    \/ \E w \in Workers : Worker(w) \/ LedgerFails(w)
    \/ WakeUp
    \/ GroupEnds
    \/ Kill
    \/ Start

ConversionNext ==
    \/ \E f \in Files : Place(f)
    \/ ReceiverStep

ConversionSpec == ConversionInit /\ [][ConversionNext]_receiverVars

(* Goroutines are scheduled, a request that is being served goes on, and   *)
(* the receiver is started again; nothing forces files to arrive or        *)
(* anything to go wrong.                                                   *)
Fairness ==
    /\ \A f \in Files : WF_receiverVars(Storing(f))
    /\ \A w \in Workers : WF_receiverVars(Worker(w))
    /\ WF_receiverVars(WakeUp)
    /\ WF_receiverVars(GroupEnds)
    /\ WF_receiverVars(Start)

FairConversionSpec == ConversionSpec /\ Fairness

-----------------------------------------------------------------------------
(* Properties *)

WorkerState ==
    [pc : {"idle", "selected", "claimed", "mark", "remove", "undo", "finish", "exited"},
     file : Files \cup {None},
     outcome : Ended]

(* Every variable of the receiver has its type, and exactly the workers    *)
(* that look for a row, or have returned, hold none (claim).               *)
ReceiverTypeOK ==
    /\ up \in BOOLEAN
    /\ stage \in [Files -> {"away", "placed", "queued", "stored"}]
    /\ disk \in [Files -> {"none", "good", "bad"}]
    /\ marked \subseteq Files
    /\ row \in [Files -> {"none", "pending", "running"} \cup Ended]
    /\ output \subseteq Files
    /\ wake \in BOOLEAN
    /\ loop \in {"waiting", "working"}
    /\ stopping \in BOOLEAN
    /\ worker \in [Workers -> WorkerState]
    /\ \A w \in Workers : worker[w].pc \in {"idle", "exited"} <=> worker[w].file = None
    /\ removed \subseteq Files
    /\ broken \in BOOLEAN
    /\ faults \in 0 .. MaxFaults

Working == {w \in Workers : worker[w].pc \in {"claimed", "mark", "remove", "undo", "finish"}}

(* Two workers never convert one file at a time: the row of each is its    *)
(* own and says running (claim's "The UPDATE is the claim", and the UNIQUE *)
(* of 0003_conversions.sql: two workers would write two sidecars).         *)
OneWorkerPerFile ==
    /\ \A w \in Working : row[worker[w].file] = "running"
    /\ \A v, w \in Working : worker[v].file = worker[w].file => v = w

(* An original the queue removed is not lost and not vouched for: its      *)
(* converted copy is in place, its row says that it was removed, and it    *)
(* was no half of a pair (removeOriginal, Decide; across kills, failed     *)
(* statements and a removal that is taken back).                           *)
RemovedIsReplaced ==
    \A f \in removed :
        /\ f \in output
        /\ f \in marked
        /\ ~Paired(f)

(* Every conversion that was queued ends, across kills of the receiver,    *)
(* with one buffered wake-up for any number of rows, unless an error of    *)
(* the ledger stopped the queue; that lasts until the next start.          *)
ConversionsEnd ==
    \A f \in Files :
        row[f] \in {"pending", "running"} ~> row[f] \in Ended \/ broken

=============================================================================
