---------------------------- MODULE CustodyProofs ----------------------------
(***************************************************************************)
(* The conversion queue and delete after transfer: proofs for any number   *)
(* of assets, files, workers and faults, whatever the policy asks for, and *)
(* for any selections, batches, runs and failures.                         *)
(***************************************************************************)
EXTENDS Custody, TLAPS

(***************************************************************************)
(* The conversion queue: no file is converted by two workers at a time,    *)
(* and an original that the queue removed has a copy and a mark.           *)
(*                                                                         *)
(* A worker that converts f is the only one that does, for the row of f    *)
(* says running and a claim takes pending rows alone.  That settles the    *)
(* removal as well: between the mark and the end of the removal nobody     *)
(* else is at f, so the mark that is taken back is the one that was set    *)
(* for a file which is still there.                                        *)
(*                                                                         *)
(* The receiver also runs beside phones (Custody), whose failures are      *)
(* counted with its own: each fact is about its steps and about theirs.    *)
(***************************************************************************)


\* A file gets its row once, after it was placed.
QueuedInv == \A f \in Files : stage[f] \in {"away", "placed"} => row[f] = "none"

Converting(w, f) == w \in Working /\ worker[w].file = f

ClaimInv ==
  /\ \A w \in Workers, f \in Files : Converting(w, f) => row[f] = "running"
  /\ \A v, w \in Workers, f \in Files : Converting(v, f) /\ Converting(w, f) => v = w

\* What a worker has seen to before it gets to a statement of removeOriginal.
RemovalInv ==
  /\ \A w \in Workers : worker[w].pc \in {"mark", "remove", "undo"} =>
       worker[w].file \in output /\ Decide(worker[w].file) = "replace"
  /\ \A w \in Workers : worker[w].pc \in {"remove", "undo"} => worker[w].file \in marked
  /\ \A w \in Workers : worker[w].pc = "undo" => worker[w].file \notin removed

RemovedInv == \A f \in removed :
  /\ f \in output /\ f \in marked /\ Decide(f) = "replace"
  /\ disk[f] = "none" /\ stage[f] # "away"

QueueInv == ReceiverTypeOK /\ QueuedInv /\ ClaimInv /\ RemovalInv /\ RemovedInv

\* What the phones of a receiver may do to its variables: count a failure of theirs.
Beside ==
  /\ faults' \in 0 .. MaxFaults
  /\ UNCHANGED <<up, stage, disk, marked, row, output, queueVars, removed, broken>>

USE DEF receiverVars, queueVars

-----------------------------------------------------------------------------
Selected(f) == [Idle EXCEPT !.pc = "selected", !.file = f]

\* The states of a worker that looks for a row, has one, or has returned.
LEMMA WorkerTypes ==
  /\ Idle \in WorkerState /\ Idle.pc = "idle" /\ Idle.file = None
  /\ Exited \in WorkerState /\ Exited.pc = "exited" /\ Exited.file = None
  /\ \A f \in Files :
       Selected(f) \in WorkerState /\ Selected(f).pc = "selected" /\ Selected(f).file = f
<1>1. Idle \in WorkerState /\ Idle.pc = "idle" /\ Idle.file = None
  BY DEF WorkerState, Idle, Ended
<1> QED
  BY <1>1 DEF WorkerState, Exited, Selected

WorkersOK ==
  /\ worker \in [Workers -> WorkerState]
  /\ \A w \in Workers : worker[w].pc \in {"idle", "exited"} <=> worker[w].file = None

\* A worker that goes on with its file, to the statement pc; the others are where they were.
GoesOn(w, pc) ==
  /\ WorkersOK'
  /\ \A v \in Workers : v # w => worker'[v] = worker[v]
  /\ worker'[w].pc = pc /\ worker'[w].file = worker[w].file

\* The statements of a worker that has a file, written as GoesOn.
LEMMA WorkerGoesOn ==
  ASSUME WorkersOK, NEW w \in Workers, worker[w].file # None
  PROVE  /\ \A pc \in {"claimed", "mark", "remove", "undo"} : Goto(w, pc) => GoesOn(w, pc)
         /\ \A outcome \in Ended : Outcome(w, outcome) => GoesOn(w, "finish")
         /\ worker' = [worker EXCEPT ![w].pc = "mark", ![w].outcome = "done"] => GoesOn(w, "mark")
<1> USE DEF GoesOn, WorkersOK
<1>0. worker[w] \in WorkerState
  OBVIOUS
<1>1. ASSUME NEW pc \in {"claimed", "mark", "remove", "undo"}, Goto(w, pc)
      PROVE  GoesOn(w, pc)
  <2>1. worker' = [worker EXCEPT ![w] = [worker[w] EXCEPT !.pc = pc]]
    BY <1>1 DEF Goto
  <2> QED
    BY <1>0, <2>1 DEF WorkerState
<1>2. ASSUME NEW outcome \in Ended, NEW pc \in {"mark", "finish"},
             worker' = [worker EXCEPT ![w].pc = pc, ![w].outcome = outcome]
      PROVE  GoesOn(w, pc)
  <2>1. worker' = [worker EXCEPT ![w] = [worker[w] EXCEPT !.pc = pc, !.outcome = outcome]]
    BY <1>0, <1>2
  <2> QED
    BY <1>0, <2>1 DEF WorkerState, Ended
<1> QED
  BY <1>1, <1>2 DEF Outcome, Ended

\* A worker that turns to another row, or returns; the others are where they were.
TurnsTo(w, state) ==
  /\ WorkersOK'
  /\ \A v \in Workers : v # w => worker'[v] = worker[v]
  /\ worker'[w] = state

\* An assignment of a whole state to a worker, written as TurnsTo.
LEMMA WorkerTurns ==
  ASSUME WorkersOK, NEW w \in Workers, NEW state \in WorkerState,
         state.pc \in {"idle", "exited"} <=> state.file = None,
         worker' = [worker EXCEPT ![w] = state]
  PROVE  TurnsTo(w, state)
BY DEF TurnsTo, WorkersOK

\* What each step of a worker makes of the workers.
LEMMA WorkerMoves ==
  ASSUME WorkersOK, NEW w \in Workers
  PROVE  /\ Select(w) => \/ TurnsTo(w, Exited)
                         \/ \E f \in Files : row[f] = "pending" /\ TurnsTo(w, Selected(f))
         /\ Claim(w) => \/ TurnsTo(w, Idle) /\ UNCHANGED row
                        \/ /\ GoesOn(w, "claimed") /\ row[worker[w].file] = "pending"
                           /\ row' = [row EXCEPT ![worker[w].file] = "running"]
         /\ Convert(w) => \/ GoesOn(w, "finish")
                          \/ /\ GoesOn(w, "mark") /\ Decide(worker[w].file) = "replace"
                             /\ output' = output \cup {worker[w].file}
         /\ Mark(w) => \/ GoesOn(w, "finish") /\ UNCHANGED marked
                       \/ GoesOn(w, "remove") /\ marked' = marked \cup {worker[w].file}
         /\ Remove(w) => \/ GoesOn(w, "finish")
                         \/ /\ GoesOn(w, "undo") /\ disk[worker[w].file] # "none"
                            /\ UNCHANGED <<disk, removed>>
         /\ Undo(w) => GoesOn(w, "finish")
         /\ Finish(w) => TurnsTo(w, Idle)
         /\ LedgerFails(w) => TurnsTo(w, Exited)
         /\ Cancelled(w) => TurnsTo(w, Exited)
<1>1. Select(w) => \/ TurnsTo(w, Exited)
                   \/ \E f \in Files : row[f] = "pending" /\ TurnsTo(w, Selected(f))
  <2>1. ASSUME NEW f \in Files, worker' = [worker EXCEPT ![w] = Selected(f)]
        PROVE  TurnsTo(w, Selected(f))
    BY <2>1, WorkerTurns, WorkerTypes, ConversionAssumption
  <2> QED
    BY <2>1, WorkerTurns, WorkerTypes DEF Select, Selected
<1>2. Claim(w) => \/ TurnsTo(w, Idle) /\ UNCHANGED row
                  \/ /\ GoesOn(w, "claimed") /\ row[worker[w].file] = "pending"
                     /\ row' = [row EXCEPT ![worker[w].file] = "running"]
  BY WorkerTurns, WorkerGoesOn, WorkerTypes DEF Claim, At, WorkersOK
<1>3. Convert(w) => \/ GoesOn(w, "finish")
                    \/ /\ GoesOn(w, "mark") /\ Decide(worker[w].file) = "replace"
                       /\ output' = output \cup {worker[w].file}
  BY WorkerGoesOn DEF Convert, At, WorkersOK, Ended
<1>4. Mark(w) => \/ GoesOn(w, "finish") /\ UNCHANGED marked
                 \/ GoesOn(w, "remove") /\ marked' = marked \cup {worker[w].file}
  BY WorkerGoesOn DEF Mark, At, WorkersOK, Ended
<1>5. Remove(w) => \/ GoesOn(w, "finish")
                   \/ /\ GoesOn(w, "undo") /\ disk[worker[w].file] # "none"
                      /\ UNCHANGED <<disk, removed>>
  BY WorkerGoesOn DEF Remove, At, WorkersOK, Ended
<1>6. Undo(w) => GoesOn(w, "finish")
  BY WorkerGoesOn DEF Undo, At, WorkersOK, Ended
<1>7. (Finish(w) => TurnsTo(w, Idle)) /\ (LedgerFails(w) \/ Cancelled(w) => TurnsTo(w, Exited))
  BY WorkerTurns, WorkerTypes DEF Finish, LedgerFails, Cancelled
<1> QED
  BY <1>1, <1>2, <1>3, <1>4, <1>5, <1>6, <1>7

\* The types of all but the workers.
RestOK ==
  /\ up \in BOOLEAN /\ wake \in BOOLEAN /\ stopping \in BOOLEAN /\ broken \in BOOLEAN
  /\ stage \in [Files -> {"away", "placed", "queued", "stored"}]
  /\ disk \in [Files -> {"none", "good", "bad"}]
  /\ row \in [Files -> {"none", "pending", "running"} \cup Ended]
  /\ marked \subseteq Files /\ output \subseteq Files /\ removed \subseteq Files
  /\ loop \in {"waiting", "working"}
  /\ faults \in 0 .. MaxFaults

\* The types hold after every step.
LEMMA TypesStep ==
  ASSUME ReceiverTypeOK, ConversionNext \/ Beside \/ UNCHANGED receiverVars
  PROVE  ReceiverTypeOK'
<1>0. WorkersOK /\ RestOK
  BY DEF ReceiverTypeOK, WorkersOK, RestOK
<1> SUFFICES WorkersOK' /\ RestOK'
  BY DEF ReceiverTypeOK, WorkersOK, RestOK
<1> USE <1>0, ConversionAssumption DEF Fault
<1>1. ASSUME NEW f \in Files, Place(f)
      PROVE  WorkersOK' /\ RestOK'
  BY <1>1 DEF Place, WorkersOK, RestOK
<1>2. ASSUME NEW f \in Files, Enqueue(f)
      PROVE  WorkersOK' /\ RestOK'
  BY <1>2 DEF Enqueue, WorkersOK, RestOK
<1>3. ASSUME NEW f \in Files, Wake(f)
      PROVE  WorkersOK' /\ RestOK'
  BY <1>3 DEF Wake, WorkersOK, RestOK
<1>4. ASSUME NEW f \in Files, Rot(f)
      PROVE  WorkersOK' /\ RestOK'
  BY <1>4 DEF Rot, WorkersOK, RestOK
<1>5. CASE WakeUp
  BY <1>5, WorkerTypes DEF WakeUp, WorkersOK, RestOK
<1>6. CASE GroupEnds
  BY <1>6 DEF GroupEnds, WorkersOK, RestOK
<1>7. CASE Kill
  <2>1. WorkersOK'
    BY <1>7, WorkerTypes DEF Kill, WorkersOK
  <2>2. stage' \in [Files -> {"away", "placed", "queued", "stored"}] /\ faults' \in 0 .. MaxFaults
    BY <1>7 DEF Kill, RestOK
  <2> QED
    BY <1>7, <2>1, <2>2 DEF Kill, RestOK
<1>8. CASE Start
  <2>1. WorkersOK'
    BY <1>8, WorkerTypes DEF Start, WorkersOK
  <2>2. row' \in [Files -> {"none", "pending", "running"} \cup Ended] /\ faults' \in 0 .. MaxFaults
    BY <1>8 DEF Start, RestOK
  <2> QED
    BY <1>8, <2>1, <2>2 DEF Start, RestOK
<1>9. ASSUME NEW w \in Workers, Worker(w) \/ LedgerFails(w)
      PROVE  WorkersOK' /\ RestOK'
  <2>1. WorkersOK'
    BY <1>9, WorkerMoves DEF Worker, GoesOn, TurnsTo
  <2>2. worker[w].file \in Files \cup {None} /\ worker[w].outcome \in Ended
    BY DEF WorkersOK, WorkerState
  <2>3. worker[w].pc \in {"claimed", "mark", "remove", "undo", "finish"} => worker[w].file \in Files
    BY <2>2 DEF WorkersOK
  <2>4. CASE Select(w) \/ Cancelled(w)
    BY <2>1, <2>4 DEF Select, Cancelled, RestOK
  <2>5. CASE Claim(w)
    BY <2>1, <2>3, <2>5 DEF Claim, At, RestOK
  <2>6. CASE Convert(w)
    BY <2>1, <2>3, <2>6 DEF Convert, At, RestOK
  <2>7. CASE Mark(w)
    BY <2>1, <2>3, <2>7 DEF Mark, At, RestOK
  <2>8. CASE Remove(w)
    BY <2>1, <2>3, <2>8 DEF Remove, At, RestOK
  <2>9. CASE Undo(w)
    BY <2>1, <2>3, <2>9 DEF Undo, At, RestOK
  <2>10. CASE Finish(w)
    BY <2>1, <2>2, <2>10 DEF Finish, RestOK
  <2>11. CASE LedgerFails(w)
    BY <2>1, <2>11 DEF LedgerFails, RestOK
  <2> QED
    BY <1>9, <2>4, <2>5, <2>6, <2>7, <2>8, <2>9, <2>10, <2>11 DEF Worker
<1>10. CASE Beside \/ UNCHANGED receiverVars
  BY <1>10 DEF Beside, WorkersOK, RestOK
<1> QED
  BY <1>1, <1>2, <1>3, <1>4, <1>5, <1>6, <1>7, <1>8, <1>9, <1>10
     DEF ConversionNext, ReceiverStep, Storing

\* A row is inserted once, and then no longer new to the queue.
LEMMA QueuedStep ==
  ASSUME QueueInv, ReceiverTypeOK', ConversionNext \/ Beside \/ UNCHANGED receiverVars
  PROVE  QueuedInv'
<1> USE DEF QueueInv, QueuedInv, RestOK
<1>0. WorkersOK /\ RestOK
  BY DEF ReceiverTypeOK, WorkersOK, RestOK
<1>1. ASSUME NEW f \in Files, Place(f) \/ Enqueue(f) \/ Wake(f) \/ Rot(f)
      PROVE  QueuedInv'
  BY <1>0, <1>1 DEF Place, Enqueue, Wake, Rot
<1>2. CASE WakeUp \/ GroupEnds
  BY <1>2 DEF WakeUp, GroupEnds
<1>3. CASE Kill
  BY <1>0, <1>3 DEF Kill
<1>4. CASE Start
  BY <1>0, <1>4 DEF Start
<1>5. ASSUME NEW w \in Workers, Worker(w) \/ LedgerFails(w)
      PROVE  QueuedInv'
  <2>1. worker[w].pc = "finish" => row[worker[w].file] = "running" /\ worker[w].file \in Files
    BY <1>0 DEF ClaimInv, Converting, Working, WorkersOK, WorkerState
  <2>2. CASE Finish(w)
    BY <1>0, <2>1, <2>2 DEF Finish, At
  <2>3. CASE Claim(w)
    BY <1>0, <2>3 DEF Claim, At
  <2>4. CASE Select(w) \/ Convert(w) \/ Mark(w) \/ Remove(w) \/ Undo(w) \/ Cancelled(w) \/ LedgerFails(w)
    BY <2>4 DEF Select, Convert, Mark, Remove, Undo, Cancelled, LedgerFails
  <2> QED
    BY <1>5, <2>2, <2>3, <2>4 DEF Worker
<1>6. CASE Beside \/ UNCHANGED receiverVars
  BY <1>6 DEF Beside
<1> QED
  BY <1>1, <1>2, <1>3, <1>4, <1>5, <1>6 DEF ConversionNext, ReceiverStep, Storing

\* A file in progress is one worker's: a claim takes a pending row, and makes it run.
LEMMA ClaimStep ==
  ASSUME QueueInv, ReceiverTypeOK', ConversionNext \/ Beside \/ UNCHANGED receiverVars
  PROVE  ClaimInv'
<1> USE DEF QueueInv, ClaimInv
<1>0. WorkersOK /\ RestOK
  BY DEF ReceiverTypeOK, WorkersOK, RestOK
<1>1. ASSUME NEW f \in Files, Place(f) \/ Wake(f) \/ Rot(f)
      PROVE  ClaimInv'
  BY <1>1 DEF Place, Wake, Rot, Converting, Working
<1>2. ASSUME NEW f \in Files, Enqueue(f)
      PROVE  ClaimInv'
  <2>1. row[f] = "none"
    BY <1>2 DEF Enqueue, QueuedInv
  <2> QED
    BY <1>0, <1>2, <2>1 DEF Enqueue, Converting, Working, RestOK
<1>3. CASE WakeUp \/ Kill \/ Start
  <2>1. \A w \in Workers, f \in Files : ~Converting(w, f)'
    BY <1>3, WorkerTypes DEF WakeUp, Kill, Start, Converting, Working
  <2> QED
    BY <2>1
<1>4. CASE GroupEnds \/ Beside \/ UNCHANGED receiverVars
  BY <1>4 DEF GroupEnds, Beside, Converting, Working
<1>5. ASSUME NEW w \in Workers, Worker(w) \/ LedgerFails(w)
      PROVE  ClaimInv'
  <2>1. \A v \in Workers : v # w => worker'[v] = worker[v]
    BY <1>0, <1>5, WorkerMoves DEF Worker, GoesOn, TurnsTo
  <2>2. CASE Claim(w)
    <3>1. CASE TurnsTo(w, Idle) /\ UNCHANGED row
      BY <2>1, <3>1, WorkerTypes DEF TurnsTo, Converting, Working
    <3>2. CASE GoesOn(w, "claimed") /\ row[worker[w].file] = "pending"
               /\ row' = [row EXCEPT ![worker[w].file] = "running"]
      <4>1. \A f \in Files : Converting(w, f)' => f = worker[w].file
        BY <3>2 DEF GoesOn, Converting
      <4>2. \A v \in Workers, f \in Files : v # w /\ Converting(v, f)' => Converting(v, f) /\ f # worker[w].file
        BY <2>1, <3>2 DEF Converting, Working
      <4>3. \A f \in Files : row'[f] = IF f = worker[w].file THEN "running" ELSE row[f]
        BY <1>0, <3>2 DEF RestOK
      <4> QED
        BY <4>1, <4>2, <4>3
    <3> QED
      BY <1>0, <2>2, <3>1, <3>2, WorkerMoves
  <2>3. CASE Convert(w) \/ Mark(w) \/ Remove(w) \/ Undo(w)
    <3>1. w \in Working /\ row' = row /\ worker'[w].file = worker[w].file
      BY <1>0, <2>3, WorkerMoves DEF Convert, Mark, Remove, Undo, At, Working, GoesOn
    <3>2. \A v \in Workers, f \in Files : Converting(v, f)' => Converting(v, f)
      BY <2>1, <3>1 DEF Converting, Working
    <3> QED
      BY <3>1, <3>2
  <2>4. CASE Select(w) \/ Cancelled(w) \/ LedgerFails(w)
    <3>1. row' = row /\ worker'[w].pc \in {"idle", "exited", "selected"}
      <4>1. row' = row
        BY <2>4 DEF Select, Cancelled, LedgerFails
      <4>2. TurnsTo(w, Exited) \/ \E f \in Files : TurnsTo(w, Selected(f))
        BY <1>0, <2>4, WorkerMoves
      <4> QED
        BY <4>1, <4>2, WorkerTypes DEF TurnsTo
    <3>2. \A v \in Workers, f \in Files : Converting(v, f)' => Converting(v, f)
      BY <2>1, <3>1 DEF Converting, Working
    <3> QED
      BY <3>1, <3>2
  <2>5. CASE Finish(w)
    <3>1. worker'[w].pc = "idle" /\ w \in Working
      BY <1>0, <2>5, WorkerMoves, WorkerTypes DEF TurnsTo, Finish, At, Working
    <3>2. \A v \in Workers, f \in Files : Converting(v, f)' => Converting(v, f) /\ v # w
      BY <2>1, <3>1 DEF Converting, Working
    <3>3. \A f \in Files : f # worker[w].file => row'[f] = row[f]
      BY <1>0, <2>5 DEF Finish, RestOK
    <3>4. \A v \in Workers, f \in Files : Converting(v, f)' => f # worker[w].file
      <4>1. \A f \in Files : f = worker[w].file => Converting(w, f)
        BY <3>1 DEF Converting
      <4> QED
        BY <3>2, <4>1
    <3>5. \A v \in Workers, f \in Files : Converting(v, f)' => row'[f] = "running"
      BY <3>2, <3>3, <3>4
    <3> QED
      BY <3>2, <3>5
  <2> QED
    BY <1>5, <2>2, <2>3, <2>4, <2>5 DEF Worker
<1> QED
  BY <1>1, <1>2, <1>3, <1>4, <1>5 DEF ConversionNext, ReceiverStep, Storing

\* Nobody else is at a file between its mark and the end of its removal.
LEMMA RemovalStep ==
  ASSUME QueueInv, ReceiverTypeOK', QueuedInv', ClaimInv', ConversionNext \/ Beside \/ UNCHANGED receiverVars
  PROVE  RemovalInv' /\ RemovedInv'
<1> USE DEF QueueInv, RemovalInv, RemovedInv
<1>0. WorkersOK /\ RestOK
  BY DEF ReceiverTypeOK, WorkersOK, RestOK
<1>1. ASSUME NEW f \in Files, Place(f) \/ Enqueue(f) \/ Wake(f) \/ Rot(f)
      PROVE  RemovalInv' /\ RemovedInv'
  <2>1. UNCHANGED <<worker, output, marked, removed>>
    BY <1>1 DEF Place, Enqueue, Wake, Rot
  <2>2. \A g \in removed : disk'[g] = "none" /\ stage'[g] # "away"
    BY <1>0, <1>1 DEF Place, Enqueue, Wake, Rot, RestOK
  <2> QED
    BY <2>1, <2>2
<1>2. CASE WakeUp \/ Kill \/ Start
  <2>1. UNCHANGED <<output, marked, removed, disk>>
    BY <1>2 DEF WakeUp, Kill, Start
  <2>2. \A w \in Workers : worker'[w].pc \in {"idle", "exited"}
    BY <1>2, WorkerTypes DEF WakeUp, Kill, Start
  <2>3. \A f \in Files : stage[f] # "away" => stage'[f] # "away"
    BY <1>0, <1>2 DEF WakeUp, Kill, Start, RestOK
  <2> QED
    BY <1>0, <2>1, <2>2, <2>3 DEF RestOK
<1>3. CASE GroupEnds \/ Beside \/ UNCHANGED receiverVars
  BY <1>3 DEF GroupEnds, Beside
<1>4. ASSUME NEW w \in Workers, Worker(w) \/ LedgerFails(w)
      PROVE  RemovalInv' /\ RemovedInv'
  <2> DEFINE f == worker[w].file
  <2>1. \A v \in Workers : v # w => worker'[v] = worker[v]
    BY <1>0, <1>4, WorkerMoves DEF Worker, GoesOn, TurnsTo
  <2>2. UNCHANGED stage
    BY <1>4 DEF Worker, Select, Claim, Convert, Mark, Remove, Undo, Finish, Cancelled, LedgerFails
  <2>3. \A v \in Workers : v # w /\ w \in Working /\ v \in Working => worker[v].file # f
    BY <1>0 DEF ClaimInv, Converting, Working, WorkersOK, WorkerState
  <2>4. w \in Working => f \in Files /\ stage[f] # "away"
    BY <1>0 DEF ClaimInv, QueuedInv, Converting, Working, WorkersOK, WorkerState
  <2>5. CASE Select(w) \/ Claim(w) \/ Finish(w) \/ Cancelled(w) \/ LedgerFails(w)
    <3>1. UNCHANGED <<output, marked, removed, disk>>
      BY <2>5 DEF Select, Claim, Finish, Cancelled, LedgerFails
    <3>2. worker'[w].pc \notin {"mark", "remove", "undo"}
      BY <1>0, <2>5, WorkerMoves, WorkerTypes DEF GoesOn, TurnsTo
    <3> QED
      BY <2>1, <2>2, <3>1, <3>2
  <2>6. CASE Convert(w)
    <3>1. UNCHANGED <<marked, removed, disk>> /\ output \subseteq output'
      BY <2>6 DEF Convert
    <3>2. worker'[w].pc = "finish" \/ (worker'[w].pc = "mark" /\ worker'[w].file \in output'
                                          /\ Decide(worker'[w].file) = "replace")
      BY <1>0, <2>6, WorkerMoves DEF GoesOn, Convert, At, WorkersOK
    <3> QED
      BY <2>1, <2>2, <3>1, <3>2
  <2>7. CASE Mark(w)
    <3>1. UNCHANGED <<output, removed, disk>> /\ marked \subseteq marked'
      BY <2>7 DEF Mark
    <3>2. worker'[w].file = f /\ (worker'[w].pc = "finish" \/ (worker'[w].pc = "remove" /\ f \in marked'))
      BY <1>0, <2>7, WorkerMoves DEF GoesOn, Mark, At, WorkersOK
    <3>3. f \in output /\ Decide(f) = "replace"
      BY <2>7 DEF Mark, At
    <3> QED
      BY <2>1, <2>2, <3>1, <3>2, <3>3
  <2>8. CASE Remove(w)
    <3>1. UNCHANGED <<output, marked>> /\ w \in Working /\ f \in output /\ f \in marked /\ Decide(f) = "replace"
      BY <2>8 DEF Remove, At, Working
    <3>2. CASE UNCHANGED <<disk, removed>> /\ GoesOn(w, "undo") /\ disk[f] # "none"
      BY <2>1, <2>2, <3>1, <3>2 DEF GoesOn
    <3>3. CASE GoesOn(w, "finish")
      <4>1. \A g \in removed' : g \in removed \/ g = f
        BY <2>8 DEF Remove
      <4>2. \A g \in Files : disk'[g] = disk[g] \/ disk'[g] = "none"
        BY <1>0, <2>8 DEF Remove, RestOK
      <4>3. f \in removed' /\ f \notin removed => disk'[f] = "none"
        BY <1>0, <2>4, <2>8, <3>1 DEF Remove, RestOK
      <4>4. \A v \in Workers : worker'[v].pc = "undo" => worker'[v].file \notin removed'
        BY <2>1, <2>3, <3>1, <3>3, <4>1 DEF GoesOn, Working
      <4> QED
        BY <1>0, <2>1, <2>2, <2>4, <3>1, <3>3, <4>1, <4>2, <4>3, <4>4 DEF GoesOn, RestOK
    <3> QED
      BY <1>0, <2>8, <3>2, <3>3, WorkerMoves DEF Remove, At, WorkersOK
  <2>9. CASE Undo(w)
    <3>1. UNCHANGED <<output, removed, disk>> /\ (marked' = marked \/ marked' = marked \ {f})
      BY <2>9 DEF Undo
    <3>2. w \in Working /\ f \notin removed /\ GoesOn(w, "finish")
      BY <1>0, <2>9, WorkerMoves DEF Undo, At, Working, WorkersOK
    <3>3. \A v \in Workers : worker'[v].pc \in {"remove", "undo"} => worker'[v].file \in marked'
      BY <2>1, <2>3, <3>1, <3>2 DEF GoesOn, Working
    <3> QED
      BY <2>1, <2>2, <3>1, <3>2, <3>3 DEF GoesOn
  <2> QED
    BY <1>4, <2>5, <2>6, <2>7, <2>8, <2>9 DEF Worker
<1> QED
  BY <1>1, <1>2, <1>3, <1>4 DEF ConversionNext, ReceiverStep, Storing

-----------------------------------------------------------------------------
\* Every step of the receiver, and of those beside it, preserves the invariant.
LEMMA QueueInvStep ==
  ASSUME QueueInv, ConversionNext \/ Beside \/ UNCHANGED receiverVars
  PROVE  QueueInv'
BY TypesStep, QueuedStep, ClaimStep, RemovalStep DEF QueueInv

\* A receiver starts with no worker, no row and nothing removed.
LEMMA QueueInvInit ==
  ConversionInit => QueueInv
<1> SUFFICES ASSUME ConversionInit
             PROVE  QueueInv
  OBVIOUS
<1>1. WorkersOK /\ RestOK
  <2>1. WorkersOK
    BY WorkerTypes DEF ConversionInit, WorkersOK
  <2>2. faults \in 0 .. MaxFaults
    BY ConversionAssumption DEF ConversionInit
  <2>3. up \in BOOLEAN /\ wake \in BOOLEAN /\ stopping \in BOOLEAN /\ broken \in BOOLEAN
    BY DEF ConversionInit
  <2> QED
    BY <2>1, <2>2, <2>3 DEF ConversionInit, RestOK
<1>2. ReceiverTypeOK
  BY <1>1 DEF ReceiverTypeOK, WorkersOK, RestOK
<1>3. \A w \in Workers : worker[w].pc = "exited"
  BY WorkerTypes DEF ConversionInit
<1> QED
  BY <1>2, <1>3 DEF ConversionInit, QueueInv, QueuedInv, ClaimInv, Converting, Working, RemovalInv, RemovedInv

\* What the invariant says in the words of the runs.
LEMMA QueueInvImplies ==
  QueueInv => OneWorkerPerFile /\ RemovedIsReplaced
<1> SUFFICES ASSUME QueueInv
             PROVE  OneWorkerPerFile /\ RemovedIsReplaced
  OBVIOUS
<1>1. \A w \in Working : w \in Workers /\ worker[w].file \in Files /\ Converting(w, worker[w].file)
  BY DEF QueueInv, ReceiverTypeOK, WorkerState, Working, Converting
<1>2. OneWorkerPerFile
  BY <1>1 DEF OneWorkerPerFile, QueueInv, ClaimInv, Converting
<1>3. \A f \in removed : ~Paired(f)
  BY DEF QueueInv, RemovedInv, Decide
<1> QED
  BY <1>2, <1>3 DEF RemovedIsReplaced, QueueInv, RemovedInv

\* In every reachable state the variables of the receiver have their types,
\* rows, claims and removals are as QueueInv says.
THEOREM ConversionIsSound ==
  ConversionSpec => []QueueInv
<1>1. QueueInv /\ [ConversionNext]_receiverVars => QueueInv'
  BY QueueInvStep
<1> QED
  BY <1>1, QueueInvInit, PTL DEF ConversionSpec

\* Two workers never convert one file at a time (claim: "The UPDATE is the claim").
THEOREM ConversionClaims ==
  ConversionSpec => []OneWorkerPerFile
BY ConversionIsSound, QueueInvImplies, PTL

\* An original the queue removed has its copy and its mark, and was no half of a pair
\* (removeOriginal, Decide), whatever fails and however often the receiver is killed.
THEOREM ConversionReplaces ==
  ConversionSpec => []RemovedIsReplaced
BY ConversionIsSound, QueueInvImplies, PTL

(***************************************************************************)
(* Delete after transfer: an asset is deleted only after each of its files *)
(* was vouched for, and a row of pending_deletion goes with its asset or   *)
(* with its receiver.                                                      *)
(*                                                                         *)
(* The argument is short once it is said what may be relied on.  What is   *)
(* answered yes was read in this reclaim, because a request lives only     *)
(* while its reclaim asks; a row that says "whole" is of an asset nothing  *)
(* was withheld from, also in the copy the reclaim works on; and the rows  *)
(* that are cleared are those of the verdict that was carried out.         *)
(*                                                                         *)
(* Custody runs beside the conversion queue, which keeps its invariant     *)
(* there too.                                                              *)
(***************************************************************************)

\* The types of the phone.
PhoneOK ==
  /\ withheld \in Selections
  /\ run \in [pc : {"idle", "already", "sending", "noting", "done"}, left : SUBSET Files]
  /\ runs \in 0 .. MaxRuns
  /\ sent \subseteq Files /\ tonote \subseteq sent
  /\ cand \in [Files -> {"none", "part", "whole"}]

Reclaims == [pc : {"idle", "asking", "clearing"}, rows : [Files -> {"none", "part", "whole"}],
             todo : SUBSET Files, yes : SUBSET Files, no : SUBSET Files]

Requests == [asked : SUBSET Files, left : SUBSET Files, at : Files \cup {None},
             yes : SUBSET Files, no : SUBSET Files]

\* The types of a reclaim, which alone has requests.
ReclaimOK ==
  /\ reclaim \in Reclaims
  /\ request \in Requests
  /\ request # NoRequest => reclaim.pc = "asking"
  /\ deleted \subseteq Assets /\ proved \subseteq Files

WholeInv == \A f \in Files :
  cand[f] = "whole" \/ reclaim.rows[f] = "whole" => AssetOf(f) \notin withheld

VouchInv ==
  /\ reclaim.yes \subseteq proved /\ request.yes \subseteq proved
  /\ reclaim.pc = "clearing" => Deletable \subseteq deleted

CustodyInv == QueueInv /\ PhoneOK /\ ReclaimOK /\ WholeInv /\ VouchInv

USE DEF vars, receiverVars, queueVars, phoneVars, custodyVars

-----------------------------------------------------------------------------
\* Files and assets belong together one way only.
LEMMA AssetOfFile ==
  /\ \A a \in Assets : \A f \in a : f \in Files /\ AssetOf(f) = a
  /\ \A f \in Files : AssetOf(f) \in Assets /\ f \in AssetOf(f)
<1>1. \A f \in Files : AssetOf(f) \in Assets /\ f \in AssetOf(f)
  BY DEF Files, AssetOf
<1>2. ASSUME NEW a \in Assets, NEW f \in a
      PROVE  f \in Files /\ AssetOf(f) = a
  <2>1. f \in Files
    BY DEF Files
  <2> QED
    BY <1>1, <2>1, ConversionAssumption
<1> QED
  BY <1>1, <1>2

\* What the phone begins with, and goes back to.
LEMMA Nothing ==
  /\ NoRun \in [pc : {"idle", "already", "sending", "noting", "done"}, left : SUBSET Files]
  /\ NoRun.pc = "idle"
  /\ NoRows \in [Files -> {"none", "part", "whole"}] /\ \A f \in Files : NoRows[f] = "none"
  /\ NoReclaim \in Reclaims
  /\ NoReclaim.pc = "idle" /\ NoReclaim.yes = {} /\ NoReclaim.rows = NoRows
  /\ NoRequest \in Requests
  /\ NoRequest.yes = {} /\ NoRequest.left = {} /\ NoRequest.at = None /\ NoRequest.asked = {}
BY DEF NoRun, NoRows, NoReclaim, NoRequest, Reclaims, Requests

\* What a request becomes is a request, and a yes is added by reading alone.
LEMMA RequestTypes ==
  ASSUME NEW r \in Requests, NEW f \in Files
  PROVE  LET noted   == [r EXCEPT !.left = @ \ {f}, !.no = @ \cup {f}]
             looked  == [r EXCEPT !.left = @ \ {f}, !.at = f]
             good    == [r EXCEPT !.at = None, !.yes = @ \cup {f}]
             damaged == [r EXCEPT !.at = None, !.no = @ \cup {f}]
         IN  /\ noted \in Requests /\ noted.yes = r.yes
             /\ looked \in Requests /\ looked.yes = r.yes
             /\ good \in Requests /\ good.yes = r.yes \cup {f}
             /\ damaged \in Requests /\ damaged.yes = r.yes
BY DEF Requests

\* Reading a file back answers yes only for a file that it adds to those proved.
LEMMA ReadAnswers ==
  ASSUME ReclaimOK, Read
  PROVE  /\ request.at \in Files /\ request' \in Requests
         /\ \/ request'.yes = request.yes \cup {request.at} /\ proved' = proved \cup {request.at}
            \/ request'.yes = request.yes /\ proved' = proved
<1>1. PICK f \in Files : f = request.at
  BY DEF Read, ReclaimOK, Requests
<1>2. request \in Requests
  BY DEF ReclaimOK
<1>3. CASE disk[f] = "good"
  <2>1. /\ request' = [request EXCEPT !.at = None, !.yes = @ \cup {f}]
        /\ proved' = proved \cup {f}
    BY <1>1, <1>3 DEF Read
  <2>2. request' \in Requests /\ request'.yes = request.yes \cup {f}
    BY <1>2, <2>1, RequestTypes
  <2> QED
    BY <1>1, <2>1, <2>2
<1>4. CASE disk[f] # "good"
  <2>1. request' = [request EXCEPT !.at = None, !.no = @ \cup {f}] /\ proved' = proved
    BY <1>1, <1>4 DEF Read
  <2> QED
    BY <1>1, <1>2, <2>1, RequestTypes
<1> QED
  BY <1>3, <1>4

\* For the queue the phone is somebody who may fail, and no more.
LEMMA ReceiverSees ==
  ASSUME CustodyInv, [Next]_vars
  PROVE  ConversionNext \/ Beside \/ UNCHANGED receiverVars
<1>0. faults \in 0 .. MaxFaults /\ MaxFaults \in Nat
  BY ConversionAssumption DEF CustodyInv, QueueInv, ReceiverTypeOK
<1>1. ASSUME NEW kind, Fault(kind)
      PROVE  faults' \in 0 .. MaxFaults
  BY <1>0, <1>1 DEF Fault
<1>2. ASSUME NEW f \in Files, Upload(f)
      PROVE  ConversionNext
  BY <1>2 DEF Upload, ConversionNext
<1>3. CASE Receiver
  BY <1>3 DEF Receiver, ConversionNext
<1>4. ASSUME NEW f \in Files, Note(f) \/ UploadFails(f)
      PROVE  Beside
  <2>1. faults' \in 0 .. MaxFaults
    BY <1>0, <1>1, <1>4 DEF Note, NoteSent, UploadFails
  <2> QED
    BY <1>4, <2>1 DEF Note, UploadFails, Beside
<1>5. ASSUME NEW f \in Files, Uploaded(f) \/ Look(f)
      PROVE  UNCHANGED receiverVars
  BY <1>5 DEF Uploaded, Look
<1>6. CASE Lost \/ AppKill \/ Forget
  <2>1. faults' \in 0 .. MaxFaults
    BY <1>0, <1>1, <1>6 DEF Lost, AppKill, Forget
  <2> QED
    BY <1>6, <2>1 DEF Lost, AppKill, Forget, Beside
<1>7. CASE StartRun \/ NextStage \/ StartReclaim \/ Ask \/ Read \/ Answer
  BY <1>7 DEF StartRun, NextStage, StartReclaim, Ask, Read, Answer
<1>8. CASE KeepAll \/ DeleteAll \/ Clear
  BY <1>8 DEF KeepAll, DeleteAll, Clear
<1> QED
  BY <1>2, <1>3, <1>4, <1>5, <1>6, <1>7, <1>8 DEF Next, Phone

\* The types of the phone hold after every step.
LEMMA PhoneStep ==
  ASSUME CustodyInv, [Next]_vars
  PROVE  PhoneOK'
<1>0. PhoneOK
  BY DEF CustodyInv
<1> USE <1>0, Nothing DEF PhoneOK
<1>1. CASE StartRun
  BY <1>1, CustodyAssumption, AssetOfFile DEF StartRun, OnPhone
<1>2. CASE NextStage
  <2>1. OnPhone \ sent \subseteq Files
    BY AssetOfFile DEF OnPhone
  <2> QED
    BY <1>2, <2>1 DEF NextStage
<1>3. ASSUME NEW f \in Files, Note(f)
      PROVE  PhoneOK'
  BY <1>3 DEF Note, NoteSent
<1>4. ASSUME NEW f \in Files, Uploaded(f) \/ UploadFails(f)
      PROVE  PhoneOK'
  BY <1>4 DEF Uploaded, UploadFails
<1>5. ASSUME NEW f \in Files, Upload(f) \/ Look(f)
      PROVE  PhoneOK'
  BY <1>5 DEF Upload, Look
<1>6. CASE StartReclaim \/ AppKill
  BY <1>6 DEF StartReclaim, AppKill
<1>7. CASE Ask \/ Read \/ Answer \/ Lost \/ KeepAll \/ DeleteAll \/ Receiver \/ UNCHANGED vars
  BY <1>7 DEF Ask, Read, Answer, Lost, KeepAll, DeleteAll, Receiver
<1>8. CASE Clear \/ Forget
  BY <1>8 DEF Clear, Forget
<1> QED
  BY <1>1, <1>2, <1>3, <1>4, <1>5, <1>6, <1>7, <1>8 DEF Next, Phone

\* So do those of the reclaim; in particular, no request outlives its reclaim.
LEMMA ReclaimStep ==
  ASSUME CustodyInv, [Next]_vars
  PROVE  ReclaimOK'
<1>0. ReclaimOK /\ PhoneOK
  BY DEF CustodyInv
<1> USE <1>0, Nothing DEF ReclaimOK, Reclaims, Requests
<1>1. CASE StartReclaim
  <2>1. request = NoRequest
    BY <1>1 DEF StartReclaim
  <2>2. Askable \subseteq Files
    BY DEF Askable
  <2>3. cand \in [Files -> {"none", "part", "whole"}]
    BY DEF PhoneOK
  <2>4. reclaim' = reclaim \/ reclaim' = [NoReclaim EXCEPT !.pc = "asking", !.rows = cand, !.todo = Askable]
    BY <1>1 DEF StartReclaim
  <2>5. reclaim' \in Reclaims
    <3>1. [NoReclaim EXCEPT !.pc = "asking", !.rows = cand, !.todo = Askable] \in Reclaims
      BY <2>2, <2>3
    <3> QED
      BY <2>4, <3>1
  <2> QED
    BY <1>1, <2>1, <2>5 DEF StartReclaim
<1>2. CASE Ask
  <2>1. PICK batch \in SUBSET reclaim.todo :
          /\ reclaim' = [reclaim EXCEPT !.todo = @ \ batch]
          /\ request' = IF up THEN [NoRequest EXCEPT !.asked = batch, !.left = batch] ELSE NoRequest
    BY <1>2 DEF Ask
  <2>2. batch \subseteq Files
    OBVIOUS
  <2>3. reclaim' \in Reclaims
        /\ reclaim'.pc = "asking"
    BY <1>2, <2>1 DEF Ask
  <2>4. request' \in Requests
    <3>1. [NoRequest EXCEPT !.asked = batch, !.left = batch]
             \in Requests
      BY <2>2
    <3> QED
      BY <2>1, <3>1
  <2> QED
    BY <1>2, <2>3, <2>4 DEF Ask
<1>3. ASSUME NEW f \in Files, Look(f)
      PROVE  ReclaimOK'
  <2>1. f \in request.left /\ request # NoRequest
    BY <1>3 DEF Look
  <2>2. request' \in Requests
    BY ONLY ZenonT(60), <1>0, <1>3, <2>1, RequestTypes DEF Look, ReclaimOK
  <2> QED
    BY <1>3, <2>1, <2>2 DEF Look
<1>4. CASE Read
  <2>1. request.at \in Files /\ request # NoRequest
    BY <1>4 DEF Read
  <2>2. request' \in Requests
    BY <1>4, ReadAnswers
  <2>3. proved' \subseteq Files
    BY <1>4, <2>1 DEF Read
  <2> QED
    BY <1>4, <2>1, <2>2, <2>3 DEF Read
<1>5. CASE Answer
  <2>1. reclaim' \in Reclaims
    BY <1>5 DEF Answer
  <2> QED
    BY <1>5, <2>1 DEF Answer
<1>6. CASE Lost
  BY <1>6 DEF Lost
<1>7. CASE KeepAll
  BY <1>7 DEF KeepAll, Asked
<1>8. CASE DeleteAll
  <2>1. request' = NoRequest /\ proved' = proved
    BY <1>8 DEF DeleteAll, Asked
  <2>2. deleted' \subseteq Assets
    BY <1>8 DEF DeleteAll, Deletable
  <2>3. reclaim' \in Reclaims
    BY <1>8 DEF DeleteAll
  <2> QED
    BY <2>1, <2>2, <2>3
<1>9. CASE Clear
  BY <1>9 DEF Clear
<1>10. CASE AppKill
  BY <1>10 DEF AppKill
<1>11. ASSUME NEW f \in Files, Note(f) \/ Upload(f) \/ Uploaded(f) \/ UploadFails(f)
       PROVE  ReclaimOK'
  BY <1>11 DEF Note, Upload, Uploaded, UploadFails
<1>12. CASE StartRun \/ NextStage \/ Forget \/ Receiver \/ UNCHANGED vars
  BY <1>12 DEF StartRun, NextStage, Forget, Receiver
<1> QED
  BY <1>1, <1>2, <1>3, <1>4, <1>5, <1>6, <1>7, <1>8, <1>9, <1>10, <1>11, <1>12 DEF Next, Phone

\* A row says "whole" only of an asset nothing was withheld from, and so does its copy in a reclaim.
LEMMA WholeStep ==
  ASSUME CustodyInv, [Next]_vars
  PROVE  WholeInv'
<1>0. ReclaimOK /\ PhoneOK /\ WholeInv
  BY DEF CustodyInv
<1> USE <1>0, Nothing DEF WholeInv
<1>1. ASSUME NEW f \in Files, Note(f)
      PROVE  WholeInv'
  <2>1. UNCHANGED <<withheld, reclaim>>
    BY <1>1 DEF Note
  <2>2. \A g \in Files : cand'[g] = cand[g] \/ (g = f /\ cand'[g] = "whole" => AssetOf(f) \notin withheld)
    BY <1>1 DEF Note, NoteSent, PhoneOK
  <2> QED
    BY <2>1, <2>2, <1>1 DEF Note, NoteSent, PhoneOK
<1>2. CASE StartReclaim
  <2>1. UNCHANGED <<withheld, cand>>
    BY <1>2 DEF StartReclaim
  <2>2. reclaim'.rows = reclaim.rows \/ reclaim'.rows = cand
    BY <1>2 DEF StartReclaim, NoReclaim
  <2> QED
    BY <2>1, <2>2
<1>3. CASE Clear
  <2>1. withheld' = withheld /\ reclaim' = NoReclaim
    BY <1>3 DEF Clear
  <2>2. \A f \in Files : cand'[f] \in {cand[f], "none"}
    BY <1>3 DEF Clear
  <2> QED
    BY <2>1, <2>2
<1>4. CASE KeepAll \/ AppKill
  BY <1>4 DEF KeepAll, AppKill
<1>5. CASE Forget
  BY <1>5 DEF Forget
<1>6. CASE Ask \/ Answer \/ DeleteAll
  <2>1. reclaim'.rows = reclaim.rows
    BY <1>6 DEF Ask, Answer, DeleteAll, ReclaimOK, Reclaims
  <2> QED
    BY <1>6, <2>1 DEF Ask, Answer, DeleteAll
<1>7. ASSUME NEW f \in Files, Upload(f) \/ Uploaded(f) \/ UploadFails(f) \/ Look(f)
      PROVE  WholeInv'
  BY <1>7 DEF Upload, Uploaded, UploadFails, Look
<1>8. CASE StartRun \/ NextStage \/ Read \/ Lost \/ Receiver \/ UNCHANGED vars
  BY <1>8 DEF StartRun, NextStage, Read, Lost, Receiver
<1> QED
  BY <1>1, <1>2, <1>3, <1>4, <1>5, <1>6, <1>7, <1>8 DEF Next, Phone

\* What was answered yes was read since the reclaim began, and what is being
\* cleared is what was deleted.
LEMMA VouchStep ==
  ASSUME CustodyInv, [Next]_vars
  PROVE  VouchInv'
<1>0. ReclaimOK /\ PhoneOK /\ VouchInv
  BY DEF CustodyInv
<1> USE <1>0, Nothing DEF VouchInv
<1>1. CASE StartReclaim
  <2>1. request' = NoRequest
    BY <1>1 DEF StartReclaim, ReclaimOK
  <2>2. CASE UNCHANGED <<reclaim, proved>>
    BY <1>1, <2>1, <2>2 DEF StartReclaim
  <2>3. CASE reclaim' = [NoReclaim EXCEPT !.pc = "asking", !.rows = cand, !.todo = Askable]
    <3>1. reclaim'.pc = "asking" /\ reclaim'.yes = {}
      BY <2>3 DEF NoReclaim
    <3> QED
      BY <2>1, <3>1
  <2> QED
    BY <1>1, <2>2, <2>3 DEF StartReclaim
<1>2. CASE Ask
  <2>1. reclaim'.yes = reclaim.yes /\ reclaim'.pc = "asking" /\ UNCHANGED proved
    BY <1>2 DEF Ask, ReclaimOK
  <2>2. request'.yes = {}
    BY <1>2 DEF Ask, NoRequest
  <2> QED
    BY <2>1, <2>2
<1>3. ASSUME NEW f \in Files, Look(f)
      PROVE  VouchInv'
  <2>1. request'.yes = request.yes
    BY <1>3 DEF Look, ReclaimOK
  <2> QED
    BY <1>3, <2>1 DEF Look, Deletable, RowsOf, Vouched
<1>4. CASE Read
  <2>1. UNCHANGED <<reclaim, deleted>>
    BY <1>4 DEF Read
  <2>2. request'.yes \subseteq proved' /\ proved \subseteq proved'
    BY <1>4, ReadAnswers
  <2> QED
    BY <2>1, <2>2 DEF Deletable, RowsOf, Vouched
<1>5. CASE Answer
  <2>1. request # NoRequest
    BY <1>5 DEF Answer
  <2>2. reclaim'.pc = "asking" /\ reclaim'.yes = reclaim.yes \cup request.yes
    BY <1>5, <2>1 DEF Answer, ReclaimOK
  <2> QED
    BY <1>5, <2>2 DEF Answer
<1>6. CASE DeleteAll
  <2>1. reclaim'.rows = reclaim.rows /\ reclaim'.yes = reclaim.yes
    BY <1>6 DEF DeleteAll, ReclaimOK
  <2>2. Deletable' = Deletable
    BY <2>1 DEF Deletable, RowsOf, Vouched
  <2> QED
    BY <1>6, <2>1, <2>2 DEF DeleteAll
<1>7. CASE KeepAll \/ Clear \/ AppKill
  BY <1>7 DEF KeepAll, Clear, AppKill
<1>8. CASE Lost
  BY <1>8 DEF Lost, Deletable, RowsOf, Vouched
<1>9. ASSUME NEW f \in Files, Note(f) \/ Upload(f) \/ Uploaded(f) \/ UploadFails(f)
      PROVE  VouchInv'
  BY <1>9 DEF Note, Upload, Uploaded, UploadFails, Deletable, RowsOf, Vouched
<1>10. CASE StartRun \/ NextStage \/ Forget \/ Receiver \/ UNCHANGED vars
  BY <1>10 DEF StartRun, NextStage, Forget, Receiver, Deletable, RowsOf, Vouched
<1> QED
  BY <1>1, <1>2, <1>3, <1>4, <1>5, <1>6, <1>7, <1>8, <1>9, <1>10 DEF Next, Phone

\* The phone starts with no run, no reclaim and no request.
LEMMA CustodyInvInit ==
  Init => CustodyInv
<1> SUFFICES ASSUME Init
             PROVE  CustodyInv
  OBVIOUS
<1>1. QueueInv
  BY QueueInvInit DEF Init
<1>2. PhoneOK
  BY CustodyAssumption, Nothing DEF Init, PhoneOK
<1>3. ReclaimOK
  BY Nothing DEF Init, ReclaimOK
<1> QED
  BY <1>1, <1>2, <1>3, Nothing DEF Init, CustodyInv, WholeInv, VouchInv

\* Every step of the phone and of the receiver preserves the invariant.
LEMMA CustodyInvStep ==
  ASSUME CustodyInv, [Next]_vars
  PROVE  CustodyInv'
<1>1. QueueInv'
  BY ReceiverSees, QueueInvStep DEF CustodyInv
<1> QED
  BY <1>1, PhoneStep, ReclaimStep, WholeStep, VouchStep DEF CustodyInv

\* In every reachable state the queue keeps its invariant beside a phone that
\* deletes, and requests, reclaims and rows are as CustodyInv says.
THEOREM CustodyIsSound ==
  Spec => []CustodyInv
BY CustodyInvInit, CustodyInvStep, PTL DEF Spec

\* Every variable has its type, and a request is answered only for a reclaim that asks.
THEOREM CustodyTypes ==
  Spec => []TypeOK
<1>1. CustodyInv => TypeOK
  BY DEF CustodyInv, QueueInv, PhoneOK, ReclaimOK, Reclaims, Requests, TypeOK
<1> QED
  BY <1>1, CustodyIsSound, PTL

\* What was removed to be replaced has its copy and its mark, also while a phone asks for proofs.
THEOREM CustodyReplaces ==
  Spec => []RemovedIsReplaced
<1>1. CustodyInv => RemovedIsReplaced
  BY QueueInvImplies DEF CustodyInv
<1> QED
  BY <1>1, CustodyIsSound, PTL

\* What DeletesAreVouched asks of one step.
VouchedStep ==
  /\ \A a \in deleted' \ deleted :
       /\ a \notin withheld
       /\ \A f \in a : reclaim.rows[f] # "none" => f \in proved
  /\ \A f \in Files :
       cand[f] # "none" /\ cand'[f] = "none" => AssetOf(f) \in deleted \/ faults' # faults

\* No step deletes an asset, or drops a row, that was not vouched for.
LEMMA StepIsVouched ==
  ASSUME CustodyInv, [Next]_vars
  PROVE  VouchedStep
<1> USE DEF VouchedStep
<1>0. ReclaimOK /\ PhoneOK /\ WholeInv /\ VouchInv
  BY DEF CustodyInv
<1>1. CASE DeleteAll
  <2>1. cand' = cand /\ deleted' \ deleted \subseteq Deletable
    BY <1>1 DEF DeleteAll
  <2>2. ASSUME NEW a \in Deletable
        PROVE  a \notin withheld /\ \A f \in a : reclaim.rows[f] # "none" => f \in proved
    <3>1. a \in Assets /\ RowsOf(a) # {} /\ Vouched(a)
      BY DEF Deletable
    <3>2. PICK f \in RowsOf(a) : reclaim.rows[f] = "whole"
      BY <3>1 DEF Vouched
    <3>3. f \in Files /\ AssetOf(f) = a
      BY <3>1, <3>2, AssetOfFile DEF RowsOf
    <3>4. a \notin withheld
      BY <1>0, <3>2, <3>3 DEF WholeInv
    <3> QED
      BY <1>0, <3>1, <3>4 DEF Vouched, RowsOf, VouchInv
  <2> QED
    BY <2>1, <2>2
<1>2. CASE Clear
  <2>1. deleted' = deleted /\ Deletable \subseteq deleted
    BY <1>0, <1>2 DEF Clear, VouchInv
  <2>2. ASSUME NEW f \in Files, cand[f] # "none", cand'[f] = "none"
        PROVE  AssetOf(f) \in deleted
    <3>1. PICK a \in Deletable : f \in RowsOf(a)
      BY <1>2, <2>2 DEF Clear
    <3>2. AssetOf(f) = a
      BY <3>1, AssetOfFile DEF Deletable, RowsOf
    <3> QED
      BY <2>1, <3>1, <3>2
  <2> QED
    BY <2>1, <2>2
<1>3. CASE Forget
  <2>1. faults \in Nat /\ faults' = faults + 1
    BY <1>3, ConversionAssumption DEF Forget, Fault, CustodyInv, QueueInv, ReceiverTypeOK
  <2> QED
    BY <1>3, <2>1 DEF Forget
<1>4. ASSUME NEW f \in Files, Note(f)
      PROVE  VouchedStep
  BY <1>0, <1>4 DEF Note, NoteSent, PhoneOK
<1>5. ASSUME NEW f \in Files, Upload(f) \/ Uploaded(f) \/ UploadFails(f) \/ Look(f)
      PROVE  VouchedStep
  BY <1>5 DEF Upload, Uploaded, UploadFails, Look
<1>6. CASE StartRun \/ NextStage \/ StartReclaim \/ Ask \/ Read \/ Answer \/ Lost
  BY <1>6 DEF StartRun, NextStage, StartReclaim, Ask, Read, Answer, Lost
<1>7. CASE KeepAll \/ AppKill \/ Receiver \/ UNCHANGED vars
  BY <1>7 DEF KeepAll, AppKill, Receiver
<1> QED
  BY <1>1, <1>2, <1>3, <1>4, <1>5, <1>6, <1>7 DEF Next, Phone

\* Nothing is deleted that was not vouched for in full during the reclaim that deletes it,
\* and no row goes but with its asset or its receiver, across lost batches, kills on either
\* side, originals that are removed meanwhile and receivers that are forgotten.
THEOREM CustodyVouches ==
  Spec => DeletesAreVouched
<1>1. CustodyInv /\ [Next]_vars => VouchedStep
  BY StepIsVouched
<1> QED
  BY <1>1, CustodyIsSound, PTL DEF DeletesAreVouched, VouchedStep, Spec

=============================================================================
