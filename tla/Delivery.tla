------------------------------ MODULE Delivery ------------------------------
(***************************************************************************)
(* A phone collecting what a receiver offers it: mobile/src/engine/inbox.ts *)
(* with its ledger (mobile/src/data/inbox.ts) and the background downloads *)
(* it hands to the system (BackgroundDownloader.swift), composed with the  *)
(* receiver's side of the same items, which is the abstract Offer.         *)
(*                                                                         *)
(* The phone's JavaScript is killed whenever the system likes.  The jobs,  *)
(* the staged files, the ledger and the downloads under way survive it.    *)
(***************************************************************************)
EXTENDS Naturals, FiniteSets

CONSTANTS
  Phone,        \* the device
  Items, Digests, None,
  Resumers,     \* calls of resumeInbox that may overlap
  MaxAttempts,  \* DownloadJob.maxAttempts
  MaxTasks,     \* bound: tasks of the session for one item
  MaxCrashes,   \* bound: times the app is killed
  MaxFetches    \* bound: bodies that arrive for one item

ASSUME DeliveryAssumption ==
  /\ MaxAttempts \in Nat /\ MaxTasks \in Nat /\ MaxCrashes \in Nat /\ MaxFetches \in Nat
  /\ None \notin Digests \union {Phone} \union Resumers
  /\ "check" \notin Resumers

VARIABLES
  st, dev, digest, serving, held,  \* the receiver: see Offer
  job,        \* the download job of each item, with its attempts
  file,       \* what is at the job's staging path
  tasks,      \* download tasks the system has for each item
  received,   \* the ledger of what was saved and acknowledged
  copies,     \* copies in the photo library or the Files container
  check,      \* the call of checkInbox
  resume,     \* the calls of resumeInbox
  saver,      \* the save that runs: one at a time, across every caller
  crashes,    \* times the app was killed
  fetched,    \* history: bodies that arrived for each item
  mishaps     \* history: saves the app was killed in the middle of

Devices == {Phone}

offerVars == <<st, dev, digest, serving, held>>
phoneVars == <<job, file, tasks, received, copies, check, resume, saver, crashes,
               fetched, mishaps>>
vars == <<offerVars, phoneVars>>

Receiver == INSTANCE Offer

-----------------------------------------------------------------------------
NoJob  == [st |-> "none", attempts |-> 0]

\* The job start() makes.
NewJob == [st |-> "pending", attempts |-> 0]
Job == [st: {"none", "pending", "ready", "failed"}, attempts: 0..MaxAttempts]

Idle == [pc |-> "idle", todo |-> {}]
Free == [pc |-> "free", by |-> None, todo |-> {}, item |-> None]

TypeOK ==
  /\ job \in [Items -> Job]
  /\ file \in [Items -> {"none", "good", "bad"}]
  /\ tasks \in [Items -> 0..MaxTasks]
  /\ received \in [Items -> {"unknown", "unacked", "acked"}]
  /\ copies \in [Items -> 0..(MaxFetches + MaxCrashes)]
  /\ check \in [pc: {"idle", "save", "owed", "ack", "mark", "list", "known", "live", "start"},
                todo: SUBSET Items]
  /\ resume \in [Resumers -> {"idle", "reconcile", "save", "retry"}]
  /\ saver \in [pc: {"free", "next", "verify", "refuse", "store", "record", "finish"},
                by: Resumers \union {None, "check"}, todo: SUBSET Items,
                item: Items \union {None}]
  /\ crashes \in 0..MaxCrashes
  /\ fetched \in [Items -> 0..MaxFetches]
  /\ mishaps \in [Items -> 0..MaxCrashes]

Init ==
  /\ Receiver!Init
  /\ job = [i \in Items |-> NoJob]
  /\ file = [i \in Items |-> "none"]
  /\ tasks = [i \in Items |-> 0]
  /\ received = [i \in Items |-> "unknown"]
  /\ copies = [i \in Items |-> 0]
  /\ check = Idle
  /\ resume = [r \in Resumers |-> "idle"]
  /\ saver = Free
  /\ crashes = 0
  /\ fetched = [i \in Items |-> 0]
  /\ mishaps = [i \in Items |-> 0]

-----------------------------------------------------------------------------
(* The receiver's own steps.  A download reaches it while the system has a *)
(* task for the item; the end of a body that arrived is the phone's step.  *)

ReceiverSteps ==
  /\ \E i \in Items :
       \/ Receiver!Queue(i, Phone)
       \/ \E v \in Digests : Receiver!Prepare(i, v)
       \/ Receiver!Spoil(i)
       \/ tasks[i] > 0 /\ Receiver!Serve(Phone, i)
       \/ Receiver!Claim(Phone, i)
       \/ Receiver!Abort(Phone, i)
       \/ Receiver!Refuse(Phone, i)
       \/ Receiver!Drop({i})
  /\ UNCHANGED phoneVars

ReceiverCrash == Receiver!Crash /\ UNCHANGED phoneVars

-----------------------------------------------------------------------------
(* The session and its jobs.                                               *)

\* fail: the staged bytes of a job that is ready go with it.
Fail(i) ==
  /\ job' = IF job[i].st = "none" THEN job ELSE [job EXCEPT ![i].st = "failed"]
  /\ file' = IF job[i].st = "ready" THEN [file EXCEPT ![i] = "none"] ELSE file

\* restart and enqueue.  Attempts are counted up to the limit, beyond which nothing
\* depends on their number.
Restarted(S) ==
  /\ job' = [i \in Items |-> IF i \notin S THEN job[i] ELSE
               [st |-> "pending",
                attempts |-> IF job[i].attempts = MaxAttempts THEN MaxAttempts
                             ELSE job[i].attempts + 1]]
  /\ tasks' = [i \in Items |-> IF i \in S THEN tasks[i] + 1 ELSE tasks[i]]

TaskEnds(i) == tasks[i] > 0 /\ tasks' = [tasks EXCEPT ![i] = @ - 1]

\* didFinishDownloadingTo: park the body and call the job ready.  A body nobody has a
\* job for is dropped.
Park(i, body) ==
  /\ fetched[i] < MaxFetches
  /\ fetched' = [fetched EXCEPT ![i] = @ + 1]
  /\ IF job[i].st = "none" THEN UNCHANGED <<job, file>>
     ELSE /\ job' = [job EXCEPT ![i].st = "ready"]
          /\ file' = [file EXCEPT ![i] = body]

\* The body arrived, with the bytes that were offered.
TaskArrives(i) ==
  /\ TaskEnds(i)
  /\ Receiver!Collect(Phone, i)
  /\ Park(i, "good")
  /\ UNCHANGED <<received, copies, check, resume, saver, crashes, mishaps>>

\* The body arrived damaged: on the network, on the disk, or spliced by a resume.
TaskDamaged(i) ==
  /\ TaskEnds(i)
  /\ Receiver!Abort(Phone, i)
  /\ Park(i, "bad")
  /\ UNCHANGED <<received, copies, check, resume, saver, crashes, mishaps>>

\* The receiver answers 404, 409 or 410, or the task ends with nothing to resume from.
TaskFails(i) ==
  /\ TaskEnds(i)
  /\ Fail(i)
  /\ UNCHANGED <<offerVars, received, copies, check, resume, saver, crashes, fetched, mishaps>>

\* The task is interrupted and leaves resume data: the job is pending again.
TaskInterrupted(i) ==
  /\ TaskEnds(i)
  /\ job' = IF job[i].st = "none" THEN job ELSE [job EXCEPT ![i].st = "pending"]
  /\ UNCHANGED <<offerVars, file, received, copies, check, resume, saver, crashes, fetched, mishaps>>

-----------------------------------------------------------------------------
(* saveArrivals, serialised across every caller.                           *)

Waiters == {r \in Resumers : resume[r] = "save"}
           \union (IF check.pc = "save" THEN {"check"} ELSE {})

\* What a caller does once its saves are done.
Resumes(p) ==
  /\ check' = IF p = "check" THEN [check EXCEPT !.pc = "owed"] ELSE check
  /\ resume' = IF p = "check" THEN resume ELSE [resume EXCEPT ![p] = "retry"]

\* Mutant of MayBegin: saves are not serialised.
MayAlwaysBegin == TRUE

\* Only one save runs at a time.
MayBegin == saver.pc = "free"

SaveBegin(p) ==
  /\ MayBegin
  /\ p \in Waiters
  /\ saver' = [pc |-> "next", by |-> p, item |-> None,
               todo |-> {i \in Items : job[i].st = "ready"}]
  /\ UNCHANGED <<offerVars, job, file, tasks, received, copies, check, resume, crashes,
                 fetched, mishaps>>

SaveNext ==
  /\ saver.pc = "next"
  /\ \E i \in saver.todo :
       saver' = [saver EXCEPT !.pc = "verify", !.item = i, !.todo = @ \ {i}]
  /\ UNCHANGED <<offerVars, job, file, tasks, received, copies, check, resume, crashes,
                 fetched, mishaps>>

SaveEnds ==
  /\ saver.pc = "next"
  /\ saver.todo = {}
  /\ saver' = Free
  /\ Resumes(saver.by)
  /\ UNCHANGED <<offerVars, job, file, tasks, received, copies, crashes, fetched, mishaps>>

\* Mutant of SaveVerify: the digest is not compared.
SaveUnverified ==
  /\ saver.pc = "verify"
  /\ saver' = [saver EXCEPT !.pc = "store"]
  /\ UNCHANGED <<offerVars, job, file, tasks, received, copies, check, resume, crashes,
                 fetched, mishaps>>

\* sha256OfFile; a staged file that is gone throws as well.
SaveVerify ==
  /\ saver.pc = "verify"
  /\ saver' = [saver EXCEPT !.pc = IF file[saver.item] = "good" THEN "store" ELSE "refuse"]
  /\ UNCHANGED <<offerVars, job, file, tasks, received, copies, check, resume, crashes,
                 fetched, mishaps>>

\* failDownload: the bytes are wrong and are thrown away.
SaveRefuse ==
  /\ saver.pc = "refuse"
  /\ Fail(saver.item)
  /\ saver' = [saver EXCEPT !.pc = "next"]
  /\ UNCHANGED <<offerVars, tasks, received, copies, check, resume, crashes, fetched, mishaps>>

\* saveToPhotos copies the staged file, saveToFiles moves it.
SaveStore ==
  /\ saver.pc = "store"
  /\ file[saver.item] # "none"
  /\ copies' = [copies EXCEPT ![saver.item] = @ + 1]
  /\ saver' = [saver EXCEPT !.pc = "record"]
  /\ \/ file' = file
     \/ file' = [file EXCEPT ![saver.item] = "none"]
  /\ UNCHANGED <<offerVars, job, tasks, received, check, resume, crashes, fetched, mishaps>>

\* Mutant of SaveDefers: the refusal is swallowed and the item recorded.
SaveSwallows ==
  /\ saver.pc = "store"
  /\ saver' = [saver EXCEPT !.pc = "record"]
  /\ UNCHANGED <<offerVars, job, file, tasks, received, copies, check, resume, crashes,
                 fetched, mishaps>>

\* DeferredSave: permission refused, no room, no file.  The download is left as it is.
SaveDefers ==
  /\ saver.pc = "store"
  /\ saver' = [saver EXCEPT !.pc = "next"]
  /\ UNCHANGED <<offerVars, job, file, tasks, received, copies, check, resume, crashes,
                 fetched, mishaps>>

\* recordReceived: a conflict leaves unacked_at as it was.  The database may refuse.
SaveRecord ==
  /\ saver.pc = "record"
  /\ saver' = [saver EXCEPT !.pc = "finish"]
  /\ \/ received' = [received EXCEPT ![saver.item] = IF @ = "unknown" THEN "unacked" ELSE @]
     \/ received' = received
  /\ UNCHANGED <<offerVars, job, file, tasks, copies, check, resume, crashes, fetched,
                 mishaps>>

\* finishDownload: the job goes, and the staged file of a job that is ready.
SaveFinish ==
  /\ saver.pc = "finish"
  /\ saver' = [saver EXCEPT !.pc = "next"]
  /\ job' = [job EXCEPT ![saver.item] = NoJob]
  /\ file' = IF job[saver.item].st = "ready" THEN [file EXCEPT ![saver.item] = "none"] ELSE file
  /\ UNCHANGED <<offerVars, tasks, received, copies, check, resume, crashes, fetched, mishaps>>

Save == (\E p \in Resumers \union {"check"} : SaveBegin(p)) \/ SaveNext \/ SaveEnds \/ SaveVerify \/ SaveRefuse \/ SaveStore
        \/ SaveRecord \/ SaveFinish

-----------------------------------------------------------------------------
(* resumeInbox: on launch, in the foreground, when a download finishes.    *)

ResumeBegin(r) ==
  /\ resume[r] = "idle"
  /\ resume' = [resume EXCEPT ![r] = "reconcile"]
  /\ UNCHANGED <<offerVars, job, file, tasks, received, copies, check, saver, crashes,
                 fetched, mishaps>>

\* A pending job without a task is handed to the system again, unless it is too fresh
\* for its task to show.
Reconcile(r) ==
  /\ resume[r] = "reconcile"
  /\ resume' = [resume EXCEPT ![r] = "save"]
  /\ \E S \in SUBSET {i \in Items : job[i].st = "pending" /\ tasks[i] = 0} : Restarted(S)
  /\ UNCHANGED <<offerVars, file, received, copies, check, saver, crashes, fetched, mishaps>>

RetryFailed(r) ==
  /\ resume[r] = "retry"
  /\ resume' = [resume EXCEPT ![r] = "idle"]
  /\ Restarted({i \in Items : /\ job[i].st = "failed" /\ job[i].attempts < MaxAttempts
                              /\ tasks[i] < MaxTasks})
  /\ UNCHANGED <<offerVars, file, received, copies, check, saver, crashes, fetched, mishaps>>

-----------------------------------------------------------------------------
(* checkInbox.                                                             *)

CheckBegin ==
  /\ check.pc = "idle"
  /\ check' = [Idle EXCEPT !.pc = "save"]
  /\ UNCHANGED <<offerVars, job, file, tasks, received, copies, resume, saver, crashes,
                 fetched, mishaps>>

\* connect, and the ids still owed an acknowledgement.
CheckOwed ==
  /\ check.pc = "owed"
  /\ check' = [pc |-> "ack", todo |-> {i \in Items : received[i] = "unacked"}]
  /\ UNCHANGED <<offerVars, job, file, tasks, received, copies, resume, saver, crashes,
                 fetched, mishaps>>

\* DELETE /v1/outbox/{id} reaches the receiver, which marks whatever row it has.
AckArrives(i) ==
  /\ check.pc = "ack"
  /\ i \in check.todo
  /\ check' = [check EXCEPT !.pc = "mark"]
  /\ IF st[i] \in Receiver!Present \ {"delivered"}
     THEN st' = [st EXCEPT ![i] = "delivered"] /\ UNCHANGED <<dev, digest, serving, held>>
     ELSE UNCHANGED offerVars
  /\ UNCHANGED <<job, file, tasks, received, copies, resume, saver, crashes, fetched, mishaps>>

\* Mutant of AckMark: 404 does not count as success.
AckMarkDelivered(i) ==
  /\ check.pc = "mark"
  /\ i \in check.todo
  /\ received' = IF st[i] = "delivered" THEN [received EXCEPT ![i] = "acked"] ELSE received
  /\ check' = [pc |-> "ack", todo |-> check.todo \ {i}]
  /\ UNCHANGED <<offerVars, job, file, tasks, copies, resume, saver, crashes, fetched, mishaps>>

\* Its answer, 2xx or 404, reaches the phone: markAcknowledged.
AckMark(i) ==
  /\ check.pc = "mark"
  /\ i \in check.todo
  /\ received' = [received EXCEPT ![i] = "acked"]
  /\ check' = [pc |-> "ack", todo |-> check.todo \ {i}]
  /\ UNCHANGED <<offerVars, job, file, tasks, copies, resume, saver, crashes, fetched, mishaps>>

\* The request or its answer is lost; the next check tries again.
AckLost(i) ==
  /\ check.pc \in {"ack", "mark"}
  /\ i \in check.todo
  /\ check' = [pc |-> "ack", todo |-> check.todo \ {i}]
  /\ UNCHANGED <<offerVars, job, file, tasks, received, copies, resume, saver, crashes,
                 fetched, mishaps>>

\* GET /v1/outbox: what is on offer.
CheckList ==
  /\ check.pc = "ack"
  /\ check.todo = {}
  /\ check' = [pc |-> "known", todo |-> {i \in Items : st[i] \in Receiver!Servable}]
  /\ UNCHANGED <<offerVars, job, file, tasks, received, copies, resume, saver, crashes,
                 fetched, mishaps>>

\* toCollect drops what the ledger knows.
CheckKnown ==
  /\ check.pc = "known"
  /\ check' = [pc |-> "live", todo |-> {i \in check.todo : received[i] = "unknown"}]
  /\ UNCHANGED <<offerVars, job, file, tasks, received, copies, resume, saver, crashes,
                 fetched, mishaps>>

\* start: liveItemIds, once for the batch ...
CheckLive ==
  /\ check.pc = "live"
  /\ check' = [pc |-> "start", todo |-> {i \in check.todo : tasks[i] = 0}]
  /\ UNCHANGED <<offerVars, job, file, tasks, received, copies, resume, saver, crashes,
                 fetched, mishaps>>

\* ... and then a job per request, unless there is one that is not finished.
Start(i) ==
  /\ check.pc = "start"
  /\ i \in check.todo
  /\ check' = [check EXCEPT !.todo = @ \ {i}]
  /\ IF job[i].st = "pending" \/ tasks[i] = MaxTasks THEN UNCHANGED <<job, tasks>>
     ELSE /\ job' = [job EXCEPT ![i] = NewJob]
          /\ tasks' = [tasks EXCEPT ![i] = @ + 1]
  /\ UNCHANGED <<offerVars, file, received, copies, resume, saver, crashes, fetched, mishaps>>

\* The batch is handed over; or a step on the way throws.
CheckEnds ==
  /\ \/ check.pc = "start" /\ check.todo = {}
     \/ check.pc \in {"owed", "known"}
     \/ check.pc = "ack" /\ check.todo = {}
  /\ check' = Idle
  /\ UNCHANGED <<offerVars, job, file, tasks, received, copies, resume, saver, crashes,
                 fetched, mishaps>>

\* cancelInbox: the jobs go at once, the system drops its tasks in its own time.
Cancel ==
  /\ \E i \in Items : job[i].st # "none"
  /\ job' = [i \in Items |-> NoJob]
  /\ file' = [i \in Items |-> IF job[i].st = "ready" THEN "none" ELSE file[i]]
  /\ UNCHANGED <<offerVars, tasks, received, copies, check, resume, saver, crashes, fetched,
                 mishaps>>

\* The system kills the app.
Kill ==
  /\ crashes < MaxCrashes
  /\ crashes' = crashes + 1
  /\ check' = Idle
  /\ resume' = [r \in Resumers |-> "idle"]
  /\ saver' = Free
  /\ mishaps' = [i \in Items |-> IF saver.pc \in {"record", "finish"} /\ i = saver.item
                                 THEN mishaps[i] + 1 ELSE mishaps[i]]
  /\ UNCHANGED <<offerVars, job, file, tasks, received, copies, fetched>>

-----------------------------------------------------------------------------
Task == \E i \in Items : TaskArrives(i) \/ TaskDamaged(i) \/ TaskFails(i) \/ TaskInterrupted(i)

Resume == \E r \in Resumers : ResumeBegin(r) \/ Reconcile(r) \/ RetryFailed(r)

Check ==
  \/ CheckBegin \/ CheckOwed \/ CheckList \/ CheckKnown \/ CheckLive
  \/ \E i \in Items : AckArrives(i) \/ AckMark(i) \/ Start(i)

Trouble == CheckEnds \/ (\E i \in Items : AckLost(i)) \/ SaveDefers \/ Cancel \/ Kill

Next == ReceiverSteps \/ ReceiverCrash \/ Task \/ Save \/ Resume \/ Check \/ Trouble

Spec == Init /\ [][Next]_vars

\* Code that was started runs on, saves take their turns, and somebody keeps opening the
\* app and checking, with a network that now and then lets a request and its answer through.
Fairness ==
  /\ WF_vars(Save \/ SaveDefers)
  /\ WF_vars(Check \/ CheckEnds)
  /\ SF_vars(SaveBegin("check"))
  /\ SF_vars(CheckOwed)
  /\ \A i \in Items : SF_vars(AckArrives(i)) /\ SF_vars(AckMark(i))

FairSpec == Spec /\ Fairness

-----------------------------------------------------------------------------
(* What the two sides promise together.                                    *)

\* The acknowledgements this phone sends are the ones the receiver's promise allows:
\* it acknowledges an item only when the bytes have arrived (engine/inbox.ts, order of
\* the last three steps; outbox.go, StateDelivered).
ReceiverKeepsItsPromise == Receiver!Spec

\* An item is retired by the receiver, or known to the phone's ledger, only once a copy
\* has been saved, across crashes, cancellations and lost answers.
RetiredIsSaved ==
  \A i \in Items : st[i] = "delivered" \/ received[i] # "unknown" => copies[i] > 0

\* Serialising the saves means that no body is saved twice, unless the app is killed
\* between the save and the moment the job is forgotten (engine/inbox.ts, serialised).
EachBodySavedOnce ==
  \A i \in Items : copies[i] <= fetched[i] + mishaps[i]

\* A copy is made of bytes that match the digest (core/inbox.ts, InboxItem.sha256:
\* "Nothing is saved before the downloaded bytes match it").  It does not hold: a second
\* download of a ready item parks its body over the file that was hashed, and no run
\* checks it.
OnlyVerifiedIsSaved ==
  [][\A i \in Items : copies'[i] > copies[i] => file[i] = "good"]_vars

\* An acknowledgement the phone owes is sent until the receiver has had it, even for an
\* item the receiver has forgotten (engine/inbox.ts, sendAcknowledgements).
AcknowledgementsGetThrough ==
  \A i \in Items : received[i] = "unacked" ~> received[i] = "acked"
=============================================================================
