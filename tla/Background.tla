----------------------------- MODULE Background -----------------------------
(***************************************************************************)
(* Uploads that outlive the app (BackgroundUploader.swift,                 *)
(* BackgroundStore.swift, mobile/src/engine/background.ts), against the    *)
(* receiver of Upload.                                                     *)
(*                                                                         *)
(* The jobs and the staged copies are on the phone's disk.  The system     *)
(* sends the bodies in its own process and reports each task to a serial   *)
(* queue.  Calls that pick up interrupted jobs ask the system, read the    *)
(* jobs, ask the receiver and write the jobs back; they run concurrently   *)
(* with those reports, and the app may be killed anywhere.                 *)
(***************************************************************************)
EXTENDS Upload

CONSTANTS
  Callers,      \* calls of reconcile and retryFailed that may overlap
  Declares,     \* whether the metadata has a hash; the app's never has
  MaxAttempts,  \* BackgroundJob.maxAttempts
  MaxBatches    \* bound: files the user starts

ASSUME BackgroundAssumption ==
  /\ Declares \subseteq BOOLEAN
  /\ MaxAttempts \in Nat \ {0}
  /\ MaxBatches \in Nat

VARIABLES
  job,     \* background-jobs.json
  staged,  \* files whose copy is in the app container
  task,    \* the tasks of the background session
  batch,   \* startBackgroundTransfer, one file at a time
  caller,  \* the calls of reconcile and retryFailed
  rec,     \* recordArrivals
  sent,    \* the phone's ledger
  batches  \* files the user started

phone == <<job, staged, task, batch, caller, rec, sent, batches>>
vars == <<up, hasher, files, req, faults, job, staged, task, batch, caller, rec, sent, batches>>

NoJob   == [st |-> "none", loc |-> 0, attempts |-> 0, path |-> FALSE, fresh |-> FALSE]
NoTask  == [st |-> "free", job |-> None, status |-> "bad"]
NoBatch == [pc |-> "idle", job |-> None, up |-> 0]
NoCall  == [pc |-> "idle", kind |-> "reconcile", live |-> {}, left |-> {}, jobs |-> [j \in Assets |-> NoJob],
            job |-> None, off |-> 0]
NoRec   == [pc |-> "idle", left |-> {}]

Live(j) == \E t \in Tasks : task[t].st = "live" /\ task[t].job = j

JobOK(x) ==
  /\ x.st \in {"none", "pending", "running", "done", "failed"}
  /\ x.loc \in 0..MaxUploads /\ x.attempts \in 0..MaxAttempts
  /\ x.path \in BOOLEAN /\ x.fresh \in BOOLEAN

TypeOK ==
  /\ UploadTypeOK
  /\ \A j \in Assets : JobOK(job[j]) /\ sent[j] \in {"no", "path", "nopath"}
  /\ staged \subseteq Assets
  /\ \A t \in Tasks : /\ task[t].st \in {"free", "live", "ended"}
                      /\ task[t].job \in Assets \union {None}
                      /\ task[t].status \in {"path", "nopath", "bad"}
  /\ batch.pc \in {"idle", "staged", "made", "refused"} /\ batch.job \in Assets \union {None}
  /\ \A r \in Callers :
       /\ caller[r].pc \in {"idle", "list", "next", "head", "at", "create", "enqueue"}
       /\ caller[r].kind \in {"reconcile", "retry"}
       /\ caller[r].live \subseteq Assets /\ caller[r].left \subseteq Assets
       /\ caller[r].job \in Assets \union {None} /\ caller[r].off \in 0..Size
       /\ \A j \in Assets : JobOK(caller[r].jobs[j])
  /\ rec.pc \in {"idle", "recording"} /\ rec.left \subseteq Assets \X BOOLEAN
  /\ batches \in 0..MaxBatches

Init ==
  /\ UploadInit
  /\ job = [j \in Assets |-> NoJob]
  /\ staged = {}
  /\ task = [t \in Tasks |-> NoTask]
  /\ batch = NoBatch
  /\ caller = [r \in Callers |-> NoCall]
  /\ rec = NoRec
  /\ sent = [j \in Assets |-> "no"]
  /\ batches = 0

-----------------------------------------------------------------------------
Free(t) == task[t] = NoTask /\ req[t] = NoRequest

\* The system takes the task.  A task without a body fails.
Enqueue(j, x) ==
  \E t \in Tasks :
    /\ Free(t) /\ \A s \in 1..(t - 1) : ~Free(s)
    /\ IF j \in staged
       THEN task' = [task EXCEPT ![t] = [st |-> "live", job |-> j, status |-> "bad"]]
            /\ Arrive(t, x.loc, x.off)
       ELSE task' = [task EXCEPT ![t] = [st |-> "ended", job |-> j, status |-> "bad"]]
            /\ req' = req

Unfinished(x) == x.st \in {"pending", "running"}

\* store.update: a job that is not there is left alone.
Update(j, x) == job' = [job EXCEPT ![j] =
  IF @.st = "none" THEN @ ELSE [x EXCEPT !.fresh = Unfinished(x)]]

-----------------------------------------------------------------------------
(* startBackgroundTransfer.                                                *)

\* The files that are neither in the ledger nor queued are copied, largest first.
Stage(j) ==
  /\ batch = NoBatch
  /\ batches < MaxBatches
  /\ sent[j] = "no" /\ ~Unfinished(job[j])
  /\ batches' = batches + 1
  /\ staged' = staged \union {j}
  /\ batch' = [pc |-> "staged", job |-> j, up |-> 0]
  /\ UNCHANGED <<receiver, job, task, caller, rec, sent>>

\* start: the upload is created and the job written down ...
Start(u) ==
  /\ batch.pc = "staged"
  /\ NewId(u)
  /\ \E declared \in Declares : NewUpload(u, batch.job, declared)
  /\ job' = [job EXCEPT ![batch.job] =
               [st |-> "pending", loc |-> u, attempts |-> 1, path |-> FALSE, fresh |-> TRUE]]
  /\ batch' = [batch EXCEPT !.pc = "made", !.up = u]
  /\ UNCHANGED <<hasher, files, req, faults, staged, task, caller, rec, sent, batches>>

\* ... and the system gets the file.
Started ==
  /\ batch.pc = "made"
  /\ Enqueue(batch.job, [loc |-> batch.up, off |-> 0])
  /\ Update(batch.job, [job[batch.job] EXCEPT !.st = "running"])
  /\ batch' = NoBatch
  /\ UNCHANGED <<up, hasher, files, faults, staged, caller, rec, sent, batches>>

\* The receiver cannot be reached, or the copy is gone: a failed job ...
StartFails ==
  /\ batch.pc = "staged"
  /\ job' = [job EXCEPT ![batch.job] =
               [st |-> "failed", loc |-> 0, attempts |-> 1, path |-> FALSE, fresh |-> FALSE]]
  /\ batch' = [batch EXCEPT !.pc = "refused"]
  /\ UNCHANGED <<receiver, staged, task, caller, rec, sent, batches>>

\* ... whose copy the caller deletes, because start did not name it.
Discard ==
  /\ batch.pc = "refused"
  /\ staged' = staged \ {batch.job}
  /\ batch' = NoBatch
  /\ UNCHANGED <<receiver, job, task, caller, rec, sent, batches>>

-----------------------------------------------------------------------------
(* The background session.                                                 *)

\* The answer is here.
TaskAnswered(t) ==
  /\ task[t].st = "live"
  /\ req[t].pc \in Answers
  /\ task' = [task EXCEPT ![t].st = "ended",
                ![t].status = CASE req[t].pc = "stored"  -> "path"
                                [] req[t].pc = "nothing" -> "nopath"
                                [] OTHER                 -> "bad"]
  /\ req' = [req EXCEPT ![t] = NoRequest]
  /\ UNCHANGED <<up, hasher, files, faults, job, staged, batch, caller, rec, sent, batches>>

\* The connection is gone, or took too long.  The receiver may go on for a while.
Abort(t) == IF req[t].pc \in {"idle"} \union Answers THEN NoRequest ELSE [req[t] EXCEPT !.cut = TRUE]

TaskFails(t) ==
  /\ task[t].st = "live"
  /\ task' = [task EXCEPT ![t].st = "ended"]
  /\ req' = [req EXCEPT ![t] = Abort(t)]
  /\ UNCHANGED <<up, hasher, files, faults, job, staged, batch, caller, rec, sent, batches>>

\* finish: a job that is done has its copy deleted.
Finish(j, st, path) ==
  /\ Update(j, [job[j] EXCEPT !.st = st, !.path = st = "done" /\ path])
  /\ staged' = IF st = "done" /\ job[j].st # "none" THEN staged \ {j} ELSE staged

\* didCompleteWithError, some time after the task ended.
Report(t) ==
  /\ task[t].st = "ended"
  /\ Finish(task[t].job, IF task[t].status = "bad" THEN "failed" ELSE "done", task[t].status = "path")
  /\ task' = [task EXCEPT ![t] = NoTask]
  /\ UNCHANGED <<receiver, batch, caller, rec, sent, batches>>

-----------------------------------------------------------------------------
(* reconcile and retryFailed.                                              *)

Step(r, c) == caller' = [caller EXCEPT ![r] = c]

\* restart returns.
Leave(r) == Step(r, [caller[r] EXCEPT !.pc = "next", !.job = None, !.off = 0,
                                      !.jobs[caller[r].job] = NoJob])

\* liveUploadIds: the tasks the system is working on.
Ask(r, kind) ==
  /\ caller[r] = NoCall
  /\ Step(r, [NoCall EXCEPT !.pc = "list", !.kind = kind, !.live = {j \in Assets : Live(j)}])
  /\ UNCHANGED <<receiver, job, staged, task, batch, rec, sent, batches>>

\* Mutant of Lost: a job that was enqueued a moment ago is taken for one nobody works on.
LostAtOnce(c, j) ==
  /\ j \notin c.live
  /\ IF c.kind = "reconcile" THEN Unfinished(job[j]) ELSE job[j].st = "failed"

\* A job nobody works on, and that was not enqueued a moment ago; a job that failed.
Lost(c, j) ==
  /\ j \notin c.live
  /\ IF c.kind = "reconcile" THEN Unfinished(job[j]) /\ ~job[j].fresh ELSE job[j].st = "failed"

\* What restart uses of the job it was given.
Kept(x) == [NoJob EXCEPT !.loc = x.loc, !.attempts = x.attempts]

\* store.all(), as it is at this moment.
List(r) ==
  /\ caller[r].pc = "list"
  /\ Step(r, [caller[r] EXCEPT !.pc = "next", !.live = {}, !.jobs = [j \in Assets |-> IF Lost(caller[r], j) THEN Kept(job[j]) ELSE NoJob],
                               !.left = {j \in Assets : Lost(caller[r], j)}])
  /\ UNCHANGED <<receiver, job, staged, task, batch, rec, sent, batches>>

\* Mutant of Drop: the record goes and the copy stays.
DropRecord(j) ==
  /\ job' = [job EXCEPT ![j] = NoJob]
  /\ staged' = staged

\* store.remove: the record, and the copy that it names.
Drop(j) ==
  /\ job' = [job EXCEPT ![j] = NoJob]
  /\ staged' = IF job[j].st = "none" THEN staged ELSE staged \ {j}

GivenUp(x) == x.attempts >= MaxAttempts

\* restart, up to its first await.
TakeNext(r) ==
  /\ caller[r].pc = "next"
  /\ IF caller[r].left = {}
     THEN Step(r, NoCall) /\ UNCHANGED <<job, staged>>
     ELSE \E j \in caller[r].left :
            IF j \notin staged \/ GivenUp(caller[r].jobs[j])
            THEN Drop(j) /\ Step(r, [caller[r] EXCEPT !.left = @ \ {j}, !.jobs[j] = NoJob])
            ELSE /\ UNCHANGED <<job, staged>>
                 /\ Step(r, [caller[r] EXCEPT !.left = @ \ {j}, !.job = j,
                       !.pc = IF caller[r].jobs[j].loc = 0 THEN "create" ELSE "head"])
  /\ UNCHANGED <<receiver, task, batch, rec, sent, batches>>

Mine(r) == caller[r].jobs[caller[r].job]

\* HEAD: an offset, or an upload that is gone.
AskOffset(r) ==
  /\ caller[r].pc = "head"
  /\ Step(r, IF Known(Mine(r).loc)
             THEN [caller[r] EXCEPT !.pc = "at", !.off = IF Offset(Mine(r).loc) > Size THEN Size ELSE Offset(Mine(r).loc)]
             ELSE [caller[r] EXCEPT !.pc = "create"])
  /\ UNCHANGED <<receiver, job, staged, task, batch, rec, sent, batches>>

\* The receiver cannot be reached: the job keeps its state, and the next one is looked at.
Unreachable(r) ==
  /\ caller[r].pc \in {"head", "create"}
  /\ Update(caller[r].job, job[caller[r].job])
  /\ Leave(r)
  /\ UNCHANGED <<receiver, staged, task, batch, rec, sent, batches>>

\* Mutant of Tried: attempts are not counted.
NotCounted(n) == n

Tried(n) == n + 1

\* The record that is written back is the one that was read before the receiver was asked.
Again(r, loc, off) ==
  /\ job' = [job EXCEPT ![caller[r].job] = [Mine(r) EXCEPT
       !.st = "pending", !.loc = loc, !.attempts = Tried(@), !.fresh = TRUE]]
  /\ Step(r, [caller[r] EXCEPT !.pc = "enqueue", !.off = off, !.jobs[caller[r].job].loc = loc])

Arrived(off) == off >= Size

\* The rest of the file, unless there is none: then the job is done.
Resume(r) ==
  /\ caller[r].pc = "at"
  /\ LET j == caller[r].job IN
       IF Arrived(caller[r].off)
       THEN Finish(j, "done", FALSE) /\ Leave(r)
       ELSE IF caller[r].off > 0 /\ j \notin staged
       THEN /\ Update(j, job[j]) /\ staged' = staged
            /\ Leave(r)
       ELSE Again(r, Mine(r).loc, caller[r].off) /\ staged' = staged
  /\ UNCHANGED <<receiver, task, batch, rec, sent, batches>>

\* POST, and the file from its start.
Recreate(r, u) ==
  /\ caller[r].pc = "create"
  /\ NewId(u)
  /\ \E declared \in Declares : NewUpload(u, caller[r].job, declared)
  /\ Again(r, u, 0)
  /\ UNCHANGED <<hasher, files, req, faults, staged, task, batch, rec, sent, batches>>

Resumed(r) ==
  /\ caller[r].pc = "enqueue"
  /\ LET j == caller[r].job IN
       /\ Enqueue(j, [loc |-> Mine(r).loc, off |-> caller[r].off])
       /\ Update(j, [job[j] EXCEPT !.st = "running"])
  /\ Leave(r)
  /\ UNCHANGED <<up, hasher, files, faults, staged, batch, rec, sent, batches>>

\* settleSeconds have passed since the job was written, which is more than it takes to hand
\* it to the system, or to read the jobs when the tasks are known.
Settle(j) ==
  /\ job[j].fresh
  /\ ~(batch.pc = "made" /\ batch.job = j)
  /\ \A r \in Callers : caller[r].pc # "list" /\ ~(caller[r].pc = "enqueue" /\ caller[r].job = j)
  /\ job' = [job EXCEPT ![j].fresh = FALSE]
  /\ UNCHANGED <<receiver, staged, task, batch, caller, rec, sent, batches>>

-----------------------------------------------------------------------------
(* recordArrivals.                                                         *)

Landed == {j \in Assets : job[j].st = "done"}

Collect ==
  /\ rec = NoRec
  /\ Landed # {}
  /\ rec' = [pc |-> "recording", left |-> {<<j, job[j].path>> : j \in Landed}]
  /\ UNCHANGED <<receiver, job, staged, task, batch, caller, sent, batches>>

\* recordSentKey, one job at a time.
Record ==
  /\ \E e \in rec.left :
       /\ sent' = [sent EXCEPT ![e[1]] = IF e[2] THEN "path" ELSE "nopath"]
       /\ rec' = [rec EXCEPT !.left = @ \ {e}]
  /\ UNCHANGED <<receiver, job, staged, task, batch, caller, batches>>

\* clearDelivered: every job that is done now.
Clear ==
  /\ rec.pc = "recording" /\ rec.left = {}
  /\ job' = [j \in Assets |-> IF j \in Landed THEN NoJob ELSE job[j]]
  /\ staged' = staged \ Landed
  /\ rec' = NoRec
  /\ UNCHANGED <<receiver, task, batch, caller, sent, batches>>

-----------------------------------------------------------------------------
\* The app is killed.  The system goes on with its tasks.
AppKill ==
  /\ Fault("appkill")
  /\ batch' = NoBatch
  /\ caller' = [r \in Callers |-> NoCall]
  /\ rec' = NoRec
  /\ UNCHANGED <<up, hasher, files, req, job, staged, task, sent, batches>>

\* cancelAll: the tasks, the jobs and the copies.
Cancel ==
  /\ Fault("cancel")
  /\ task' = [t \in Tasks |-> IF task[t].st = "live" THEN [task[t] EXCEPT !.st = "ended"] ELSE task[t]]
  /\ req' = [t \in Tasks |-> IF task[t].st = "live" THEN Abort(t) ELSE req[t]]
  /\ staged' = {j \in staged : job[j].st = "none"}
  /\ job' = [j \in Assets |-> NoJob]
  /\ UNCHANGED <<up, hasher, files, batch, caller, rec, sent, batches>>

Next ==
  \/ \E t \in Tasks :
       \/ Handle(t) /\ UNCHANGED phone
       \/ ShortWrite(t) /\ UNCHANGED phone
       \/ TaskAnswered(t) \/ TaskFails(t) \/ Report(t)
  \/ Kill /\ UNCHANGED phone
  \/ \E u \in Uploads : Sweep(u) /\ UNCHANGED phone
  \/ \E j \in Assets : Stage(j) \/ Settle(j)
  \/ \E u \in Uploads : Start(u)
  \/ Started \/ StartFails \/ Discard
  \/ \E r \in Callers :
       \/ \E kind \in {"reconcile", "retry"} : Ask(r, kind)
       \/ List(r) \/ TakeNext(r) \/ AskOffset(r) \/ Unreachable(r) \/ Resume(r) \/ Resumed(r)
       \/ \E u \in Uploads : Recreate(r, u)
  \/ Collect \/ Record \/ Clear
  \/ AppKill \/ Cancel

Spec == Init /\ [][Next]_vars

\* Requests end, the session reports every task, code that was called goes on unless the
\* app is killed, both kinds of calls are made again and again, and the receiver answers
\* some of them.  A kill, a fault or a network that stays away is nobody's duty.
FairSpec ==
  /\ Spec
  /\ \A t \in Tasks :
       /\ WF_vars(Handle(t) /\ UNCHANGED phone)
       /\ WF_vars(TaskAnswered(t) \/ TaskFails(t))
       /\ WF_vars(Report(t))
  /\ \A j \in Assets : SF_vars(Settle(j))
  /\ WF_vars(StartFails \/ \E u \in Uploads : Start(u))
  /\ WF_vars(Started \/ Discard)
  /\ \A r \in Callers :
       /\ SF_vars(Ask(r, "reconcile")) /\ SF_vars(Ask(r, "retry"))
       /\ WF_vars(List(r) \/ TakeNext(r) \/ Resume(r) \/ Resumed(r))
       /\ SF_vars(AskOffset(r))
       /\ SF_vars(\E u \in Uploads : Recreate(r, u))
  /\ WF_vars(Collect \/ Record \/ Clear)

-----------------------------------------------------------------------------
(* What the phone promises.                                                *)

\* Nothing is recorded as sent, with the path the receiver gave, that it does not hold.
PathIsHeld ==
  \A j \in Assets : sent[j] = "path" => \E f \in files : f.asset = j

\* A file that is recorded as sent is held, or about to be ("the receiver holds the file,
\* which is the only thing the ledger claims": mobile/src/core/background.ts, landed).
SentIsHeld ==
  \A j \in Assets : sent[j] # "no" =>
    \/ \E f \in files : f.asset = j
    \/ \E t \in Tasks : req[t].pc \in {"digest", "commit"} /\ up[req[t].up].asset = j

\* The job a copy belongs to, or the call that has just made it.
Owned(j) == job[j].st # "none" \/ batch.job = j

\* Every staged copy has an owner that will delete it, a job or the batch that made it,
\* until the app is killed (BackgroundUploader.swift, start: "the staged bytes have an owner
\* that will eventually delete them").
CopiesAreOwned ==
  [][AppKill \/ \A j \in staged' : Owned(j)' \/ (j \in staged /\ ~Owned(j))]_vars

\* Every job ends: it is recorded and cleared, or given up (BackgroundStore.swift, attempts:
\* "must eventually be given up on, or it is retried on every wake-up").
JobsEnd == \A j \in Assets : job[j].st # "none" ~> job[j].st = "none"
=============================================================================
