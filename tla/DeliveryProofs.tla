--------------------------- MODULE DeliveryProofs ---------------------------
(***************************************************************************)
(* Theorems about Delivery for every number of items, resumptions, tasks,  *)
(* crashes and bodies.                                                     *)
(***************************************************************************)
EXTENDS Delivery, TLAPS

(***************************************************************************)
(* The inductive invariant.                                                *)

\* The receiver's side holds values of its types.
OfferTyped ==
  /\ st \in [Items -> Receiver!Present \union {"unused", "removed"}]
  /\ dev \in [Items -> {Phone, None}]
  /\ digest \in [Items -> Digests \union {None}]

\* What is served or held was prepared, and what is there was queued for this phone.
Served ==
  \A i \in Items :
    /\ <<Phone, i>> \in serving \union held => st[i] \notin {"unused", "pending"}
    /\ st[i] \in Receiver!Present => dev[i] = Phone

\* The bounds of the counters follow from those of the events they count.
Bounded ==
  \A i \in Items :
    /\ mishaps[i] <= crashes
    /\ job[i].st = "pending" => MaxTasks > 0

\* A save that is on an item takes it once.
Saving == saver.pc \notin {"free", "next"} => saver.item \in Items /\ saver.item \notin saver.todo

\* Good bytes, a save that verified them and a row of the phone's ledger all mean that
\* the receiver's bytes arrived.
Arrived ==
  /\ \A i \in Items : file[i] = "good" \/ received[i] # "unknown" => <<Phone, i>> \in held
  /\ saver.pc \in {"store", "record", "finish"} => <<Phone, saver.item>> \in held

\* An item is recorded after its copy was made, and acknowledged after it was recorded.
Recorded ==
  /\ saver.pc \in {"record", "finish"} => copies[saver.item] > 0
  /\ check.pc \in {"ack", "mark"} => \A i \in check.todo : received[i] # "unknown"

\* More bodies arrived than copies were made, counting a save that was cut short as one.
Spare(i) == copies[i] < fetched[i] + mishaps[i]

\* Whatever may lead to a copy has a body of its own to make it from.
Credited ==
  /\ \A i \in Items : job[i].st = "ready" =>
       Spare(i) \/ (saver.pc \in {"record", "finish"} /\ saver.item = i)
  /\ \A i \in saver.todo : Spare(i)
  /\ saver.pc \in {"verify", "refuse", "store"} => Spare(saver.item)

Promised == OfferTyped /\ Served

DeliveryInv ==
  /\ TypeOK /\ Promised /\ Bounded /\ Saving /\ Arrived /\ Recorded /\ RetiredIsSaved
  /\ Credited /\ EachBodySavedOnce

USE DEF vars, offerVars, phoneVars, Devices

-----------------------------------------------------------------------------
(* The receiver's side.                                                    *)

\* An action of the receiver other than an acknowledgement.
Offers(i) ==
  \/ Receiver!Queue(i, Phone)
  \/ \E v \in Digests : Receiver!Prepare(i, v)
  \/ Receiver!Spoil(i)
  \/ Receiver!Serve(Phone, i)
  \/ Receiver!Claim(Phone, i)
  \/ Receiver!Abort(Phone, i)
  \/ Receiver!Collect(Phone, i)
  \/ Receiver!Refuse(Phone, i)
  \/ Receiver!Drop({i})

\* No step of the receiver takes an item back to where it was not prepared, forgets that a
\* phone holds it, or retires it.
LEMMA OffersKeep ==
  ASSUME Promised, NEW i \in Items, Offers(i)
  PROVE  /\ Promised'
         /\ held \subseteq held'
         /\ \A j \in Items : st'[j] = "delivered" => st[j] = "delivered"
<1> USE DEF Promised, OfferTyped, Served, Receiver!Present
<1>1. CASE Receiver!Queue(i, Phone)
  BY <1>1 DEF Receiver!Queue
<1>2. ASSUME NEW v \in Digests, Receiver!Prepare(i, v)
      PROVE  /\ Promised' /\ held \subseteq held'
             /\ \A j \in Items : st'[j] = "delivered" => st[j] = "delivered"
  BY <1>2 DEF Receiver!Prepare
<1>3. CASE Receiver!Spoil(i)
  BY <1>3 DEF Receiver!Spoil
<1>4. CASE Receiver!Serve(Phone, i)
  BY <1>4 DEF Receiver!Serve, Receiver!Servable
<1>5. CASE Receiver!Claim(Phone, i)
  BY <1>5 DEF Receiver!Claim
<1>6. CASE Receiver!Abort(Phone, i)
  BY <1>6 DEF Receiver!Abort, Receiver!Ends
<1>7. CASE Receiver!Collect(Phone, i)
  BY <1>7 DEF Receiver!Collect, Receiver!Ends
<1>8. CASE Receiver!Refuse(Phone, i)
  BY <1>8 DEF Receiver!Refuse, Receiver!Ends
<1>9. CASE Receiver!Drop({i})
  BY <1>9 DEF Receiver!Drop
<1>10. QED
  BY <1>1, <1>2, <1>3, <1>4, <1>5, <1>6, <1>7, <1>8, <1>9 DEF Offers

\* Losing every request changes nothing else.
LEMMA CrashKeeps ==
  ASSUME Promised, Receiver!Crash
  PROVE  Promised' /\ held' = held /\ st' = st
  BY DEF Receiver!Crash, Promised, OfferTyped, Served

\* An acknowledgement retires the item it names, if that is there and not retired yet.
LEMMA AckKeeps ==
  ASSUME Promised, NEW i \in Items, AckArrives(i), <<Phone, i>> \in held
  PROVE  /\ Promised' /\ held' = held
         /\ \A j \in Items : st'[j] = "delivered" => st[j] = "delivered" \/ j = i
         /\ Receiver!Acknowledge(Phone, i) \/ UNCHANGED offerVars
<1>1. CASE UNCHANGED offerVars
  BY <1>1 DEF Promised, OfferTyped, Served
<1>2. CASE st[i] \in Receiver!Present \ {"delivered"} /\ st' = [st EXCEPT ![i] = "delivered"]
           /\ UNCHANGED <<dev, digest, serving, held>>
  <2>1. st[i] \in Receiver!Servable \union {"failed"} /\ dev[i] = Phone
    BY <1>2 DEF Promised, OfferTyped, Served, Receiver!Present, Receiver!Servable
  <2>2. Receiver!Acknowledge(Phone, i)
    BY <1>2, <2>1 DEF Receiver!Acknowledge
  <2>3. Promised'
    BY <1>2 DEF Promised, OfferTyped, Served, Receiver!Present
  <2>4. \A j \in Items : st'[j] = "delivered" => st[j] = "delivered" \/ j = i
    BY <1>2 DEF Promised, OfferTyped
  <2>5. QED
    BY <1>2, <2>2, <2>3, <2>4
<1>3. QED
  BY <1>1, <1>2 DEF AckArrives

-----------------------------------------------------------------------------
(* Types.                                                                  *)

\* What a job is set to is a job.
LEMMA JobSet ==
  ASSUME job \in [Items -> Job], NEW i \in Items, NEW s \in {"pending", "ready", "failed"}
  PROVE  /\ [job EXCEPT ![i].st = s] \in [Items -> Job]
         /\ [job EXCEPT ![i] = NoJob] \in [Items -> Job]
         /\ [job EXCEPT ![i] = NewJob] \in [Items -> Job]
<1>1. NoJob \in Job /\ NewJob \in Job
  BY DeliveryAssumption DEF NoJob, NewJob, Job
<1>2. [job EXCEPT ![i].st = s] \in [Items -> Job]
  BY DEF Job
<1>3. QED
  BY <1>1, <1>2

\* Jobs that are handed to the system again get a task each and count one attempt more.
LEMMA RestartedTypes ==
  ASSUME TypeOK, NEW S \in SUBSET Items, Restarted(S),
         \A i \in S : tasks[i] < MaxTasks
  PROVE  job' \in [Items -> Job] /\ tasks' \in [Items -> 0..MaxTasks]
<1>1. job \in [Items -> Job] /\ tasks \in [Items -> 0..MaxTasks] /\ MaxTasks \in Nat /\ MaxAttempts \in Nat
  BY DeliveryAssumption DEF TypeOK
<1>2. \A i \in Items : job[i] \in Job /\ tasks[i] \in 0..MaxTasks
  BY <1>1
<1>3. ASSUME NEW i \in Items
      PROVE  /\ [st |-> "pending", attempts |-> IF job[i].attempts = MaxAttempts THEN MaxAttempts
                                                ELSE job[i].attempts + 1] \in Job
             /\ i \in S => tasks[i] + 1 \in 0..MaxTasks
  BY SMTT(30), <1>1, <1>2 DEF Job
<1>4. QED
  BY <1>1, <1>2, <1>3 DEF Restarted

\* The system's part keeps the types.
LEMMA TaskTypes ==
  ASSUME DeliveryInv, NEW i \in Items,
         TaskArrives(i) \/ TaskDamaged(i) \/ TaskFails(i) \/ TaskInterrupted(i)
  PROVE  TypeOK'
<1>1. /\ TypeOK /\ MaxTasks \in Nat /\ MaxFetches \in Nat /\ job \in [Items -> Job]
      /\ tasks \in [Items -> 0..MaxTasks] /\ fetched \in [Items -> 0..MaxFetches]
      /\ file \in [Items -> {"none", "good", "bad"}]
  BY DeliveryAssumption DEF DeliveryInv, TypeOK
<1>2. tasks' \in [Items -> 0..MaxTasks]
  <2>1. TaskEnds(i)
    BY DEF TaskArrives, TaskDamaged, TaskFails, TaskInterrupted
  <2>2. tasks[i] - 1 \in 0..MaxTasks
    BY <1>1, <2>1 DEF TaskEnds
  <2>3. QED
    BY <1>1, <2>1, <2>2 DEF TaskEnds
<1>3. job' \in [Items -> Job] /\ file' \in [Items -> {"none", "good", "bad"}]
  BY ZenonT(60), <1>1, JobSet DEF TaskArrives, TaskDamaged, TaskFails, TaskInterrupted, Park, Fail
<1>4. fetched' \in [Items -> 0..MaxFetches]
  <2>1. fetched' = fetched \/ (fetched[i] < MaxFetches /\ fetched' = [fetched EXCEPT ![i] = fetched[i] + 1])
    BY DEF TaskArrives, TaskDamaged, TaskFails, TaskInterrupted, Park
  <2>2. fetched[i] \in 0..MaxFetches
    BY <1>1
  <2>3. fetched[i] < MaxFetches => fetched[i] + 1 \in 0..MaxFetches
    BY <1>1, <2>2
  <2>4. QED
    BY <1>1, <2>1, <2>3
<1>5. UNCHANGED <<received, copies, check, resume, saver, crashes, mishaps>>
  BY DEF TaskArrives, TaskDamaged, TaskFails, TaskInterrupted
<1>6. QED
  BY <1>1, <1>2, <1>3, <1>4, <1>5 DEF TypeOK

\* A body for every copy keeps the copies within their bound.
LEMMA SpareBounds ==
  ASSUME DeliveryInv, NEW i \in Items, Spare(i)
  PROVE  copies[i] + 1 \in 0..(MaxFetches + MaxCrashes)
<1>1. /\ copies[i] \in Nat /\ fetched[i] \in 0..MaxFetches /\ mishaps[i] \in Nat /\ crashes \in 0..MaxCrashes
      /\ MaxFetches \in Nat /\ MaxCrashes \in Nat
  BY DeliveryAssumption DEF DeliveryInv, TypeOK
<1>2. mishaps[i] <= crashes /\ copies[i] < fetched[i] + mishaps[i]
  BY DEF DeliveryInv, Bounded, Spare
<1>3. QED
  BY <1>1, <1>2

\* So do the saves.
LEMMA SaveTypes ==
  ASSUME DeliveryInv, Save \/ SaveDefers
  PROVE  TypeOK'
<1>1. /\ TypeOK /\ job \in [Items -> Job] /\ file \in [Items -> {"none", "good", "bad"}]
      /\ Saving /\ Free \in [pc: {"free"}, by: {None}, todo: {{}}, item: {None}]
      /\ saver \in [pc: {"free", "next", "verify", "refuse", "store", "record", "finish"},
                    by: Resumers \union {None, "check"}, todo: SUBSET Items,
                    item: Items \union {None}]
  BY DEF DeliveryInv, TypeOK, Free
<1> DEFINE SaverType == [pc: {"free", "next", "verify", "refuse", "store", "record", "finish"},
                         by: Resumers \union {None, "check"}, todo: SUBSET Items,
                         item: Items \union {None}]
<1>2. ASSUME NEW p \in Resumers \union {"check"}, SaveBegin(p) PROVE TypeOK'
  <2>1. saver' \in SaverType
    BY <1>2 DEF SaveBegin
  <2>2. QED
    BY <1>1, <1>2, <2>1 DEF SaveBegin, TypeOK
<1>3. CASE SaveNext
  <2>1. saver' \in SaverType
    BY ZenonT(60), <1>1, <1>3 DEF SaveNext
  <2>2. QED
    BY <1>1, <1>3, <2>1 DEF SaveNext, TypeOK
<1>4. CASE SaveEnds
  <2>1. saver' \in SaverType
    BY <1>1, <1>4 DEF SaveEnds
  <2>2. check' \in [pc: {"idle", "save", "owed", "ack", "mark", "list", "known", "live", "start"},
                    todo: SUBSET Items]
    BY <1>1, <1>4 DEF SaveEnds, Resumes, TypeOK
  <2>3. resume' \in [Resumers -> {"idle", "reconcile", "save", "retry"}]
    BY <1>1, <1>4 DEF SaveEnds, Resumes, TypeOK
  <2>4. QED
    BY <1>1, <1>4, <2>1, <2>2, <2>3 DEF SaveEnds, TypeOK
<1>5. ASSUME NEW s \in {"next", "verify", "refuse", "store", "record", "finish"},
             saver' = [saver EXCEPT !.pc = s]
      PROVE  saver' \in SaverType
  BY <1>1, <1>5
<1>6. CASE SaveVerify
  <2>1. saver' \in SaverType
    BY <1>5, <1>6 DEF SaveVerify
  <2>2. QED
    BY <1>1, <1>6, <2>1 DEF SaveVerify, TypeOK
<1>7. CASE SaveRefuse
  <2>1. saver' \in SaverType /\ saver.item \in Items
    BY <1>1, <1>5, <1>7 DEF SaveRefuse, Saving
  <2>2. job' \in [Items -> Job] /\ file' \in [Items -> {"none", "good", "bad"}]
    BY <1>1, <1>7, <2>1, JobSet DEF SaveRefuse, Fail
  <2>3. QED
    BY <1>1, <1>7, <2>1, <2>2 DEF SaveRefuse, TypeOK
<1>8. CASE SaveStore
  <2>1. saver' \in SaverType /\ saver.item \in Items /\ Spare(saver.item)
    BY <1>1, <1>5, <1>8 DEF SaveStore, Saving, DeliveryInv, Credited
  <2>2. copies' \in [Items -> 0..(MaxFetches + MaxCrashes)]
    <3>1. copies[saver.item] + 1 \in 0..(MaxFetches + MaxCrashes)
      BY <2>1, SpareBounds
    <3>2. QED
      BY <1>1, <1>8, <3>1 DEF SaveStore, TypeOK
  <2>3. file' \in [Items -> {"none", "good", "bad"}]
    BY <1>1, <1>8 DEF SaveStore
  <2>4. QED
    BY <1>1, <1>8, <2>1, <2>2, <2>3 DEF SaveStore, TypeOK
<1>9. CASE SaveDefers
  <2>1. saver' \in SaverType
    BY <1>5, <1>9 DEF SaveDefers
  <2>2. QED
    BY <1>1, <1>9, <2>1 DEF SaveDefers, TypeOK
<1>10. CASE SaveRecord
  <2>1. saver' \in SaverType
    BY <1>5, <1>10 DEF SaveRecord
  <2>2. received' \in [Items -> {"unknown", "unacked", "acked"}]
    BY <1>1, <1>10 DEF SaveRecord, TypeOK
  <2>3. QED
    BY <1>1, <1>10, <2>1, <2>2 DEF SaveRecord, TypeOK
<1>11. CASE SaveFinish
  <2>1. saver' \in SaverType /\ saver.item \in Items
    BY <1>1, <1>5, <1>11 DEF SaveFinish, Saving
  <2>2. job' \in [Items -> Job] /\ file' \in [Items -> {"none", "good", "bad"}]
    BY <1>1, <1>11, <2>1, JobSet DEF SaveFinish
  <2>3. QED
    BY <1>1, <1>11, <2>1, <2>2 DEF SaveFinish, TypeOK
<1>12. QED
  BY <1>2, <1>3, <1>4, <1>6, <1>7, <1>8, <1>9, <1>10, <1>11 DEF Save

\* So do resumeInbox and checkInbox.
LEMMA AppTypes ==
  ASSUME DeliveryInv, Resume \/ Check \/ CheckEnds \/ (\E i \in Items : AckLost(i)) \/ Cancel \/ Kill
  PROVE  TypeOK'
<1> DEFINE CheckType == [pc: {"idle", "save", "owed", "ack", "mark", "list", "known", "live", "start"},
                         todo: SUBSET Items]
<1>1. /\ TypeOK /\ check \in CheckType /\ tasks \in [Items -> 0..MaxTasks] /\ MaxTasks \in Nat
      /\ job \in [Items -> Job] /\ resume \in [Resumers -> {"idle", "reconcile", "save", "retry"}]
  BY DeliveryAssumption DEF DeliveryInv, TypeOK
<1>2. CASE Resume
  <2>1. ASSUME NEW r \in Resumers, ResumeBegin(r) PROVE TypeOK'
    BY <1>1, <2>1 DEF ResumeBegin, TypeOK
  <2>2. ASSUME NEW r \in Resumers, Reconcile(r) PROVE TypeOK'
    <3>1. PICK S \in SUBSET Items : Restarted(S) /\ \A i \in S : job[i].st = "pending" /\ tasks[i] = 0
      BY <2>2 DEF Reconcile
    <3>2. \A i \in S : tasks[i] < MaxTasks
      BY <1>1, <3>1 DEF DeliveryInv, Bounded
    <3>3. job' \in [Items -> Job] /\ tasks' \in [Items -> 0..MaxTasks]
      BY <1>1, <3>1, <3>2, RestartedTypes
    <3>4. QED
      BY <1>1, <2>2, <3>3 DEF Reconcile, TypeOK
  <2>3. ASSUME NEW r \in Resumers, RetryFailed(r) PROVE TypeOK'
    <3>1. PICK S \in SUBSET Items : Restarted(S) /\ \A i \in S : tasks[i] < MaxTasks
      BY <2>3 DEF RetryFailed
    <3>2. job' \in [Items -> Job] /\ tasks' \in [Items -> 0..MaxTasks]
      BY <1>1, <3>1, RestartedTypes
    <3>3. QED
      BY <1>1, <2>3, <3>2 DEF RetryFailed, TypeOK
  <2>4. QED
    BY <1>2, <2>1, <2>2, <2>3 DEF Resume
<1>3. CASE CheckBegin \/ CheckOwed \/ CheckList \/ CheckKnown \/ CheckLive \/ CheckEnds
           \/ \E i \in Items : AckArrives(i) \/ AckMark(i) \/ AckLost(i)
  <2>1. check' \in CheckType
    BY <1>1, <1>3 DEF CheckBegin, CheckOwed, CheckList, CheckKnown, CheckLive, CheckEnds,
                      AckArrives, AckMark, AckLost, Idle
  <2>2. received' \in [Items -> {"unknown", "unacked", "acked"}]
    BY <1>1, <1>3 DEF CheckBegin, CheckOwed, CheckList, CheckKnown, CheckLive, CheckEnds,
                      AckArrives, AckMark, AckLost, TypeOK
  <2>3. UNCHANGED <<job, file, tasks, copies, resume, saver, crashes, fetched, mishaps>>
    BY <1>3 DEF CheckBegin, CheckOwed, CheckList, CheckKnown, CheckLive, CheckEnds,
                AckArrives, AckMark, AckLost
  <2>4. QED
    BY <1>1, <2>1, <2>2, <2>3 DEF TypeOK
<1>4. ASSUME NEW i \in Items, Start(i) PROVE TypeOK'
  <2>1. check' \in CheckType
    BY <1>1, <1>4 DEF Start
  <2>2. tasks[i] # MaxTasks => tasks[i] + 1 \in 0..MaxTasks
    <3>1. tasks[i] \in 0..MaxTasks
      BY <1>1
    <3>2. QED
      BY <1>1, <3>1
  <2>3. job' \in [Items -> Job] /\ tasks' \in [Items -> 0..MaxTasks]
    BY ZenonT(60), <1>1, <1>4, <2>2, JobSet DEF Start
  <2>4. QED
    BY <1>1, <1>4, <2>1, <2>3 DEF Start, TypeOK
<1>5. CASE Cancel
  <2>1. job' \in [Items -> Job]
    <3>1. NoJob \in Job
      BY DeliveryAssumption DEF NoJob, Job
    <3>2. QED
      BY <1>5, <3>1 DEF Cancel
  <2>2. QED
    BY <1>1, <1>5, <2>1 DEF Cancel, TypeOK
<1>6. CASE Kill
  <2>1. check' \in CheckType
    BY <1>6 DEF Kill, Idle
  <2>2. saver' \in [pc: {"free", "next", "verify", "refuse", "store", "record", "finish"},
                by: Resumers \union {None, "check"}, todo: SUBSET Items,
                item: Items \union {None}]
    BY <1>6 DEF Kill, Free
  <2>3. crashes' \in 0..MaxCrashes
    BY <1>1, <1>6, DeliveryAssumption DEF Kill, TypeOK
  <2>4. mishaps' \in [Items -> 0..MaxCrashes]
    <3>1. ASSUME NEW i \in Items PROVE mishaps[i] \in 0..MaxCrashes /\ mishaps[i] + 1 \in 0..MaxCrashes
      <4>1. mishaps[i] \in 0..MaxCrashes /\ mishaps[i] <= crashes /\ crashes < MaxCrashes /\ crashes \in Nat
        BY <1>1, <1>6 DEF DeliveryInv, Bounded, TypeOK, Kill
      <4>2. QED
        BY <4>1, DeliveryAssumption
    <3>2. QED
      BY <1>6, <3>1 DEF Kill
  <2>5. QED
    BY <1>1, <1>6, <2>1, <2>2, <2>3, <2>4 DEF Kill, TypeOK
<1>7. QED
  BY <1>2, <1>3, <1>4, <1>5, <1>6 DEF Check

\* Every step keeps the types.
LEMMA TypeStep == DeliveryInv /\ [Next]_vars => TypeOK'
<1> SUFFICES ASSUME DeliveryInv, [Next]_vars PROVE TypeOK'
  OBVIOUS
<1>1. CASE ReceiverSteps \/ ReceiverCrash \/ UNCHANGED vars
  <2>1. UNCHANGED phoneVars
    BY <1>1 DEF ReceiverSteps, ReceiverCrash
  <2>2. QED
    BY <2>1 DEF DeliveryInv, TypeOK
<1>2. QED
  BY <1>1, TaskTypes, SaveTypes, AppTypes DEF Next, Task, Trouble

-----------------------------------------------------------------------------
(* The two sides together.                                                 *)

\* An action of Offer for this phone is a step of Offer.
LEMMA OffersNext ==
  /\ \A i \in Items : Offers(i) \/ Receiver!Acknowledge(Phone, i) => Receiver!Next
  /\ Receiver!Crash => Receiver!Next
  BY DEF Offers, Receiver!Next

\* Which steps reach the receiver: its own, the arrival or the loss of a body, and an
\* acknowledgement.
LEMMA OfferSteps ==
  ASSUME [Next]_vars
  PROVE  \/ UNCHANGED offerVars
         \/ \E i \in Items : Offers(i)
         \/ Receiver!Crash
         \/ \E i \in Items : AckArrives(i)
<1> DEFINE Goal == \/ UNCHANGED offerVars
                   \/ \E i \in Items : Offers(i)
                   \/ Receiver!Crash
                   \/ \E i \in Items : AckArrives(i)
<1>1. CASE ReceiverSteps
  BY <1>1 DEF ReceiverSteps, Offers
<1>2. CASE ReceiverCrash
  BY <1>2 DEF ReceiverCrash
<1>3. ASSUME NEW i \in Items, TaskArrives(i) \/ TaskDamaged(i) PROVE Goal
  BY <1>3 DEF TaskArrives, TaskDamaged, Offers
<1>4. ASSUME NEW i \in Items, TaskFails(i) \/ TaskInterrupted(i) PROVE UNCHANGED offerVars
  BY <1>4 DEF TaskFails, TaskInterrupted
<1>5. ASSUME Save \/ SaveDefers PROVE UNCHANGED offerVars
  BY <1>5 DEF Save, SaveDefers, SaveBegin, SaveNext, SaveEnds, SaveVerify, SaveRefuse, SaveStore,
              SaveRecord, SaveFinish
<1>6. ASSUME Resume PROVE UNCHANGED offerVars
  BY <1>6 DEF Resume, ResumeBegin, Reconcile, RetryFailed
<1>7. ASSUME CheckBegin \/ CheckOwed \/ CheckList \/ CheckKnown \/ CheckLive \/ CheckEnds
             \/ \E i \in Items : AckMark(i) \/ AckLost(i) \/ Start(i)
      PROVE UNCHANGED offerVars
  BY <1>7 DEF CheckBegin, CheckOwed, CheckList, CheckKnown, CheckLive, CheckEnds, AckMark, AckLost, Start
<1>8. ASSUME Cancel \/ Kill PROVE UNCHANGED offerVars
  BY <1>8 DEF Cancel, Kill
<1>9. QED
  BY <1>1, <1>2, <1>3, <1>4, <1>5, <1>6, <1>7, <1>8 DEF Next, Task, Check, Trouble

\* The receiver's side keeps its own invariant, forgets nothing a phone holds, and retires
\* only what the phone's ledger has; and every step is one Offer allows.
LEMMA PromisedStep ==
  ASSUME DeliveryInv, [Next]_vars
  PROVE  /\ Promised' /\ held \subseteq held'
         /\ \A j \in Items : st'[j] = "delivered" => st[j] = "delivered" \/ received[j] # "unknown"
         /\ Receiver!Next \/ UNCHANGED offerVars
<1>1. Promised
  BY DEF DeliveryInv
<1>2. CASE UNCHANGED offerVars
  BY <1>1, <1>2 DEF Promised, OfferTyped, Served
<1>3. ASSUME NEW i \in Items, AckArrives(i)
      PROVE  /\ Promised' /\ held \subseteq held'
             /\ \A j \in Items : st'[j] = "delivered" => st[j] = "delivered" \/ received[j] # "unknown"
             /\ Receiver!Next \/ UNCHANGED offerVars
  <2>1. received[i] # "unknown" /\ <<Phone, i>> \in held
    BY <1>3 DEF AckArrives, DeliveryInv, Recorded, Arrived
  <2>2. QED
    BY <1>1, <1>3, <2>1, AckKeeps, OffersNext
<1>4. QED
  BY <1>1, <1>2, <1>3, OfferSteps, OffersKeep, CrashKeeps, OffersNext

-----------------------------------------------------------------------------
(* The phone's part of the invariant.                                      *)

\* An item has been handed to the system only if there is room for a task.
LEMMA BoundedStep == DeliveryInv /\ [Next]_vars => Bounded'
<1> SUFFICES ASSUME DeliveryInv, [Next]_vars, NEW i \in Items
             PROVE  mishaps'[i] <= crashes' /\ (job'[i].st = "pending" => MaxTasks > 0)
  BY DEF Bounded
<1>1. /\ mishaps[i] \in Nat /\ crashes \in Nat /\ mishaps[i] <= crashes /\ MaxTasks \in Nat
      /\ mishaps \in [Items -> 0..MaxCrashes]
      /\ job \in [Items -> Job] /\ tasks \in [Items -> 0..MaxTasks]
      /\ \A j \in Items : tasks[j] \in Nat /\ tasks[j] <= MaxTasks
      /\ \A j \in Items : job[j].st = "pending" => MaxTasks > 0
  BY DeliveryAssumption DEF DeliveryInv, TypeOK, Bounded
<1>2. mishaps'[i] <= crashes'
  <2>1. CASE Kill
    BY <1>1, <2>1 DEF Kill
  <2>2. CASE UNCHANGED <<mishaps, crashes>>
    BY <1>1, <2>2
  <2>3. Kill \/ UNCHANGED <<mishaps, crashes>>
    BY DEF Next, ReceiverSteps, ReceiverCrash, Task, TaskArrives, TaskDamaged, TaskFails, TaskInterrupted,
           Save, SaveDefers, SaveBegin, SaveNext, SaveEnds, SaveVerify, SaveRefuse, SaveStore,
           SaveRecord, SaveFinish, Resume, ResumeBegin, Reconcile, RetryFailed, Check, Trouble, CheckBegin,
           CheckOwed, CheckList, CheckKnown, CheckLive, CheckEnds, AckArrives, AckMark, AckLost, Start, Cancel
  <2>4. QED
    BY <2>1, <2>2, <2>3
<1>3. job'[i].st = "pending" => MaxTasks > 0
  <2> DEFINE Room == job'[i].st = "pending" => MaxTasks > 0
  <2>1. CASE job' = job
    BY <1>1, <2>1
  <2>2. ASSUME NEW j \in Items, TaskArrives(j) \/ TaskDamaged(j) \/ TaskFails(j) \/ TaskInterrupted(j)
        PROVE  Room
    BY <1>1, <2>2 DEF TaskArrives, TaskDamaged, TaskFails, TaskInterrupted, Park, Fail, TaskEnds, Job
  <2>3. CASE SaveRefuse
    BY <1>1, <2>3 DEF SaveRefuse, Fail, Job
  <2>4. CASE SaveFinish \/ Cancel
    BY <1>1, <2>4 DEF SaveFinish, Cancel, NoJob
  <2>5. ASSUME NEW r \in Resumers, Reconcile(r) \/ RetryFailed(r) PROVE Room
    <3>1. PICK S \in SUBSET Items : /\ Restarted(S)
                                    /\ \A j \in S : job[j].st = "pending" \/ tasks[j] < MaxTasks
      BY <2>5 DEF Reconcile, RetryFailed
    <3>2. QED
      BY <1>1, <3>1 DEF Restarted
  <2>6. ASSUME NEW j \in Items, Start(j) PROVE Room
    BY <1>1, <2>6 DEF Start, NewJob
  <2>7. ASSUME ReceiverSteps \/ ReceiverCrash \/ UNCHANGED vars PROVE job' = job
    BY <2>7 DEF ReceiverSteps, ReceiverCrash
  <2>8. ASSUME SaveDefers \/ SaveNext \/ SaveEnds \/ SaveVerify \/ SaveStore \/ SaveRecord
               \/ \E p \in Resumers \union {"check"} : SaveBegin(p)
        PROVE  job' = job
    BY <2>8 DEF SaveDefers, SaveBegin, SaveNext, SaveEnds, SaveVerify, SaveStore, SaveRecord
  <2>9. ASSUME (\E r \in Resumers : ResumeBegin(r)) \/ CheckBegin \/ CheckOwed \/ CheckList
               \/ CheckKnown \/ CheckLive \/ CheckEnds \/ Kill
               \/ \E j \in Items : AckArrives(j) \/ AckMark(j) \/ AckLost(j)
        PROVE  job' = job
    BY <2>9 DEF ResumeBegin, CheckBegin, CheckOwed, CheckList, CheckKnown, CheckLive, CheckEnds,
                AckArrives, AckMark, AckLost, Kill
  <2>10. QED
    BY <2>1, <2>2, <2>3, <2>4, <2>5, <2>6, <2>7, <2>8, <2>9 DEF Next, Task, Save, Resume, Check, Trouble
<1>4. QED
  BY <1>2, <1>3

\* Which steps write each of the phone's variables.
LEMMA Writers ==
  ASSUME [Next]_vars
  PROVE  /\ saver' = saver \/ Save \/ SaveDefers \/ Kill
         /\ copies' = copies \/ SaveStore
         /\ received' = received \/ SaveRecord \/ \E i \in Items : AckMark(i)
         /\ mishaps' = mishaps \/ Kill
         /\ \/ check' = check \/ SaveEnds \/ Check \/ CheckEnds \/ Kill
            \/ \E i \in Items : AckLost(i)
         /\ fetched' = fetched \/ \E i \in Items : TaskArrives(i) \/ TaskDamaged(i)
<1>1. CASE ReceiverSteps \/ ReceiverCrash \/ UNCHANGED vars
  BY <1>1 DEF ReceiverSteps, ReceiverCrash
<1>2. CASE Task
  BY <1>2 DEF Task, TaskArrives, TaskDamaged, TaskFails, TaskInterrupted
<1>3. CASE Save \/ SaveDefers
  BY <1>3 DEF Save, SaveDefers, SaveBegin, SaveNext, SaveEnds, SaveVerify, SaveRefuse, SaveStore,
              SaveRecord, SaveFinish
<1>4. CASE Resume
  BY <1>4 DEF Resume, ResumeBegin, Reconcile, RetryFailed
<1>5. CASE Check \/ CheckEnds \/ \E i \in Items : AckLost(i)
  BY <1>5 DEF Check, CheckBegin, CheckOwed, CheckList, CheckKnown, CheckLive, CheckEnds, AckArrives,
              AckMark, AckLost, Start
<1>6. CASE Cancel \/ Kill
  BY <1>6 DEF Cancel, Kill
<1>7. QED
  BY <1>1, <1>2, <1>3, <1>4, <1>5, <1>6 DEF Next, Trouble

\* How the save that runs moves.
LEMMA SaverMoves ==
  ASSUME DeliveryInv, [Next]_vars
  PROVE  \/ saver' = saver
         \/ saver'.pc = "free" /\ saver'.todo = {}
         \/ SaveNext /\ \E i \in saver.todo :
              saver'.pc = "verify" /\ saver'.item = i /\ saver'.todo = saver.todo \ {i}
         \/ saver.pc = "free" /\ saver'.pc = "next"
              /\ saver'.todo = {i \in Items : job[i].st = "ready"}
         \/ /\ saver'.item = saver.item /\ saver'.todo = saver.todo
            /\ \/ saver.pc = "verify" /\ saver'.pc = "store" /\ file[saver.item] = "good"
               \/ saver.pc = "verify" /\ saver'.pc = "refuse"
               \/ saver.pc = "refuse" /\ saver'.pc = "next"
               \/ saver.pc = "store" /\ saver'.pc = "next" /\ SaveDefers
               \/ saver.pc = "store" /\ saver'.pc = "record" /\ SaveStore
               \/ saver.pc = "record" /\ saver'.pc = "finish"
               \/ saver.pc = "finish" /\ saver'.pc = "next" /\ SaveFinish
<1>1. saver \in [pc: {"free", "next", "verify", "refuse", "store", "record", "finish"},
                 by: Resumers \union {None, "check"}, todo: SUBSET Items,
                 item: Items \union {None}]
  BY DEF DeliveryInv, TypeOK
<1>2. CASE Kill \/ SaveEnds
  BY <1>2 DEF Kill, SaveEnds, Free
<1>3. ASSUME NEW p \in Resumers \union {"check"}, SaveBegin(p)
      PROVE  saver.pc = "free" /\ saver'.pc = "next" /\ saver'.todo = {i \in Items : job[i].st = "ready"}
  BY <1>3 DEF SaveBegin, MayBegin
<1>4. CASE SaveNext
  BY <1>1, <1>4 DEF SaveNext
<1>5. CASE SaveVerify
  BY <1>1, <1>5 DEF SaveVerify
<1>6. CASE SaveRefuse
  BY <1>1, <1>6 DEF SaveRefuse
<1>7. CASE SaveStore
  BY <1>1, <1>7 DEF SaveStore
<1>8. CASE SaveDefers
  BY <1>1, <1>8 DEF SaveDefers
<1>9. CASE SaveRecord
  BY <1>1, <1>9 DEF SaveRecord
<1>10. CASE SaveFinish
  BY <1>1, <1>10 DEF SaveFinish
<1>11. QED
  BY <1>2, <1>3, <1>4, <1>5, <1>6, <1>7, <1>8, <1>9, <1>10, Writers DEF Save

\* The item of a save is not among those still to save.
LEMMA SavingStep == DeliveryInv /\ [Next]_vars => Saving'
<1> SUFFICES ASSUME DeliveryInv, [Next]_vars, saver'.pc \notin {"free", "next"}
             PROVE  saver'.item \in Items /\ saver'.item \notin saver'.todo
  BY DEF Saving
<1>1. saver.todo \subseteq Items /\ Saving
  BY DEF DeliveryInv, TypeOK
<1>2. QED
  BY <1>1, SaverMoves DEF Saving

\* Good bytes are parked only by a task whose body the receiver handed over.
LEMMA FileMoves ==
  ASSUME DeliveryInv, [Next]_vars, NEW i \in Items, file'[i] = "good"
  PROVE  file[i] = "good" \/ <<Phone, i>> \in held'
<1>1. file \in [Items -> {"none", "good", "bad"}]
  BY DEF DeliveryInv, TypeOK
<1>2. CASE ReceiverSteps \/ ReceiverCrash \/ UNCHANGED vars
  BY <1>2 DEF ReceiverSteps, ReceiverCrash
<1>3. ASSUME NEW j \in Items, TaskArrives(j) PROVE file[i] = "good" \/ <<Phone, i>> \in held'
  <2>1. <<Phone, j>> \in held' /\ (i # j => file'[i] = file[i])
    BY <1>1, <1>3 DEF TaskArrives, Park, Receiver!Collect
  <2>2. QED
    BY <1>3, <2>1
<1>4. ASSUME NEW j \in Items, TaskDamaged(j) \/ TaskFails(j) \/ TaskInterrupted(j) PROVE file[i] = "good"
  BY <1>1, <1>4 DEF TaskDamaged, TaskFails, TaskInterrupted, Park, Fail
<1>5. ASSUME SaveRefuse \/ SaveStore \/ SaveFinish \/ Cancel PROVE file[i] = "good"
  BY <1>1, <1>5 DEF SaveRefuse, SaveStore, SaveFinish, Cancel, Fail
<1>6. ASSUME SaveDefers \/ SaveNext \/ SaveEnds \/ SaveVerify \/ SaveRecord
             \/ \E p \in Resumers \union {"check"} : SaveBegin(p)
      PROVE  file' = file
  BY <1>6 DEF SaveDefers, SaveBegin, SaveNext, SaveEnds, SaveVerify, SaveRecord
<1>7. ASSUME Resume \/ Check \/ CheckEnds \/ Kill \/ \E j \in Items : AckLost(j) PROVE file' = file
  BY <1>7 DEF Resume, ResumeBegin, Reconcile, RetryFailed, Check, CheckBegin, CheckOwed, CheckList,
              CheckKnown, CheckLive, CheckEnds, AckArrives, AckMark, AckLost, Start, Kill
<1>8. QED
  BY <1>2, <1>3, <1>4, <1>5, <1>6, <1>7 DEF Next, Task, Save, Trouble

\* The ledger gains the item that is being saved, and loses none.
LEMMA ReceivedMoves ==
  ASSUME DeliveryInv, [Next]_vars, NEW i \in Items
  PROVE  /\ received[i] # "unknown" => received'[i] # "unknown"
         /\ received'[i] # "unknown" =>
              received[i] # "unknown" \/ (saver.pc = "record" /\ saver.item = i)
<1>1. received \in [Items -> {"unknown", "unacked", "acked"}]
  BY DEF DeliveryInv, TypeOK
<1>2. CASE SaveRecord
  BY <1>1, <1>2 DEF SaveRecord
<1>3. ASSUME NEW j \in Items, AckMark(j)
      PROVE  /\ received[i] # "unknown" => received'[i] # "unknown"
             /\ received'[i] # "unknown" => received[i] # "unknown"
  BY <1>1, <1>3 DEF AckMark, DeliveryInv, Recorded
<1>4. QED
  BY <1>1, <1>2, <1>3, Writers

\* A copy is made of the item that is being saved, and none is lost.
LEMMA CopiesMove ==
  ASSUME DeliveryInv, [Next]_vars, NEW i \in Items
  PROVE  /\ copies[i] \in Nat /\ copies'[i] \in Nat /\ copies'[i] >= copies[i]
         /\ ~SaveStore \/ saver.item # i => copies'[i] = copies[i]
         /\ SaveStore /\ saver.item = i => copies'[i] = copies[i] + 1
<1>1. copies \in [Items -> 0..(MaxFetches + MaxCrashes)] /\ copies[i] \in Nat
  BY DEF DeliveryInv, TypeOK
<1>2. CASE SaveStore
  BY <1>1, <1>2 DEF SaveStore
<1>3. CASE copies' = copies /\ ~SaveStore
  BY <1>1, <1>3
<1>4. QED
  BY <1>2, <1>3, Writers

\* What was saved had arrived.
LEMMA ArrivedStep == DeliveryInv /\ [Next]_vars => Arrived'
<1> SUFFICES ASSUME DeliveryInv, [Next]_vars PROVE Arrived'
  OBVIOUS
<1>1. held \subseteq held' /\ Arrived /\ Saving
  BY PromisedStep DEF DeliveryInv
<1>2. ASSUME NEW i \in Items, file'[i] = "good" \/ received'[i] # "unknown" PROVE <<Phone, i>> \in held'
  BY <1>1, <1>2, FileMoves, ReceivedMoves DEF Arrived
<1>3. ASSUME saver'.pc \in {"store", "record", "finish"} PROVE <<Phone, saver'.item>> \in held'
  BY <1>1, <1>3, SaverMoves DEF Arrived, Saving
<1>4. QED
  BY <1>2, <1>3 DEF Arrived

\* What check still has to acknowledge is in the ledger.
LEMMA CheckMoves ==
  ASSUME DeliveryInv, [Next]_vars, check'.pc \in {"ack", "mark"}, NEW i \in check'.todo
  PROVE  i \in Items /\ received[i] # "unknown"
<1>1. /\ check \in [pc: {"idle", "save", "owed", "ack", "mark", "list", "known", "live", "start"},
                    todo: SUBSET Items]
      /\ Recorded
  BY DEF DeliveryInv, TypeOK
<1>2. CASE check' = check
  BY <1>1, <1>2 DEF Recorded
<1>3. CASE CheckOwed
  BY <1>1, <1>3 DEF CheckOwed
<1>4. ASSUME NEW j \in Items, AckArrives(j) \/ AckMark(j) \/ AckLost(j)
      PROVE  i \in Items /\ received[i] # "unknown"
  BY <1>1, <1>4 DEF AckArrives, AckMark, AckLost, Recorded
<1>5. ASSUME SaveEnds PROVE i \in Items /\ received[i] # "unknown"
  <2>1. saver.by = "check" => check'.pc = "owed"
    BY <1>1, <1>5 DEF SaveEnds, Resumes
  <2>2. QED
    BY <1>2, <1>5, <2>1 DEF SaveEnds, Resumes
<1>6. ASSUME NEW j \in Items, Start(j) PROVE FALSE
  BY <1>1, <1>6 DEF Start
<1>7. ~(CheckBegin \/ CheckList \/ CheckKnown \/ CheckLive \/ CheckEnds \/ Kill)
  BY <1>1 DEF CheckBegin, CheckList, CheckKnown, CheckLive, CheckEnds, Kill, Idle
<1>8. QED
  BY <1>2, <1>3, <1>4, <1>5, <1>6, <1>7, Writers DEF Check

\* A copy comes before the row, and the row before the acknowledgement.
LEMMA RecordedStep == DeliveryInv /\ [Next]_vars => Recorded'
<1> SUFFICES ASSUME DeliveryInv, [Next]_vars PROVE Recorded'
  OBVIOUS
<1>1. ASSUME saver'.pc \in {"record", "finish"} PROVE copies'[saver'.item] > 0
  <2>1. /\ saver'.item = saver.item /\ saver.item \in Items
        /\ saver.pc \in {"record", "finish"} \/ SaveStore
    BY <1>1, SaverMoves DEF DeliveryInv, Saving
  <2>2. copies[saver.item] > 0 \/ SaveStore
    BY <2>1 DEF DeliveryInv, Recorded
  <2>3. QED
    BY <2>1, <2>2, CopiesMove
<1>2. ASSUME check'.pc \in {"ack", "mark"}, NEW i \in check'.todo PROVE received'[i] # "unknown"
  BY <1>2, CheckMoves, ReceivedMoves
<1>3. QED
  BY <1>1, <1>2 DEF Recorded

\* So that what is retired or known has been saved.
LEMMA RetiredStep == DeliveryInv /\ [Next]_vars => RetiredIsSaved'
<1> SUFFICES ASSUME DeliveryInv, [Next]_vars, NEW i \in Items,
                    st'[i] = "delivered" \/ received'[i] # "unknown"
             PROVE  copies'[i] > 0
  BY DEF RetiredIsSaved
<1>1. copies[i] > 0
  BY PromisedStep, ReceivedMoves DEF DeliveryInv, RetiredIsSaved, Recorded
<1>2. QED
  BY <1>1, CopiesMove

-----------------------------------------------------------------------------
(* The bodies and the copies.                                              *)

\* Bodies and interruptions are only counted up.
LEMMA CountsGrow ==
  ASSUME DeliveryInv, [Next]_vars, NEW i \in Items
  PROVE  /\ fetched[i] \in Nat /\ mishaps[i] \in Nat /\ fetched'[i] \in Nat /\ mishaps'[i] \in Nat
         /\ fetched'[i] >= fetched[i] /\ mishaps'[i] >= mishaps[i]
         /\ Kill /\ saver.pc \in {"record", "finish"} /\ saver.item = i => mishaps'[i] = mishaps[i] + 1
<1>1. /\ fetched \in [Items -> 0..MaxFetches] /\ mishaps \in [Items -> 0..MaxCrashes]
      /\ fetched[i] \in Nat /\ mishaps[i] \in Nat
  BY DEF DeliveryInv, TypeOK
<1>2. fetched'[i] \in Nat /\ fetched'[i] >= fetched[i]
  <2>1. CASE fetched' = fetched
    BY <1>1, <2>1
  <2>2. ASSUME NEW j \in Items, TaskArrives(j) \/ TaskDamaged(j)
        PROVE  fetched' = [fetched EXCEPT ![j] = fetched[j] + 1] /\ fetched[j] \in Nat
    BY <1>1, <2>2 DEF TaskArrives, TaskDamaged, Park
  <2>3. QED
    BY <1>1, <2>1, <2>2, Writers
<1>3. CASE Kill
  BY <1>1, <1>2, <1>3 DEF Kill
<1>4. CASE ~Kill /\ mishaps' = mishaps
  BY <1>1, <1>2, <1>4
<1>5. QED
  BY <1>3, <1>4, Writers

\* A job becomes ready only when a body of its item has arrived.
LEMMA ReadyMoves ==
  ASSUME DeliveryInv, [Next]_vars, NEW i \in Items, job'[i].st = "ready"
  PROVE  /\ job[i].st = "ready" \/ fetched'[i] = fetched[i] + 1
         /\ ~(SaveFinish /\ saver.item = i)
<1>1. /\ job \in [Items -> Job] /\ fetched \in [Items -> 0..MaxFetches]
  BY DEF DeliveryInv, TypeOK
<1> DEFINE Goal == job[i].st = "ready" \/ fetched'[i] = fetched[i] + 1
<1>2. ~(SaveFinish /\ saver.item = i)
  BY <1>1 DEF SaveFinish, NoJob
<1>3. CASE job' = job
  BY <1>2, <1>3
<1>4. ASSUME NEW j \in Items, TaskArrives(j) \/ TaskDamaged(j) PROVE Goal
  BY <1>1, <1>4 DEF TaskArrives, TaskDamaged, Park
<1>5. ASSUME NEW j \in Items, TaskFails(j) \/ TaskInterrupted(j) PROVE Goal
  BY <1>1, <1>5 DEF TaskFails, TaskInterrupted, Fail, Job
<1>6. ASSUME SaveRefuse PROVE Goal
  BY <1>1, <1>6 DEF SaveRefuse, Fail, Job
<1>7. ASSUME SaveFinish \/ Cancel PROVE Goal
  BY <1>1, <1>7 DEF SaveFinish, Cancel, NoJob
<1>8. ASSUME NEW r \in Resumers, Reconcile(r) \/ RetryFailed(r) PROVE Goal
  BY <1>1, <1>8 DEF Reconcile, RetryFailed, Restarted
<1>9. ASSUME NEW j \in Items, Start(j) PROVE Goal
  BY <1>1, <1>9 DEF Start, NewJob
<1>10. ASSUME ReceiverSteps \/ ReceiverCrash \/ UNCHANGED vars PROVE job' = job
  BY <1>10 DEF ReceiverSteps, ReceiverCrash
<1>11. ASSUME SaveDefers \/ SaveNext \/ SaveEnds \/ SaveVerify \/ SaveStore \/ SaveRecord
              \/ \E p \in Resumers \union {"check"} : SaveBegin(p)
       PROVE  job' = job
  BY <1>11 DEF SaveDefers, SaveBegin, SaveNext, SaveEnds, SaveVerify, SaveStore, SaveRecord
<1>12. ASSUME (\E r \in Resumers : ResumeBegin(r)) \/ CheckBegin \/ CheckOwed \/ CheckList
              \/ CheckKnown \/ CheckLive \/ CheckEnds \/ Kill
              \/ \E j \in Items : AckArrives(j) \/ AckMark(j) \/ AckLost(j)
       PROVE  job' = job
  BY <1>12 DEF ResumeBegin, CheckBegin, CheckOwed, CheckList, CheckKnown, CheckLive, CheckEnds,
               AckArrives, AckMark, AckLost, Kill
<1>13. QED
  BY <1>2, <1>3, <1>4, <1>5, <1>6, <1>7, <1>8, <1>9, <1>10, <1>11, <1>12
  DEF Next, Task, Save, Resume, Check, Trouble

\* Saves are serialised, so that a body is spent by the copy made of it and by no other.
LEMMA CreditedStep == DeliveryInv /\ [Next]_vars => Credited' /\ EachBodySavedOnce'
<1> SUFFICES ASSUME DeliveryInv, [Next]_vars PROVE Credited' /\ EachBodySavedOnce'
  OBVIOUS
<1>1. Credited /\ EachBodySavedOnce /\ Saving /\ saver.todo \subseteq Items
  BY DEF DeliveryInv, TypeOK
<1>2. ASSUME NEW i \in Items PROVE copies[i] <= fetched[i] + mishaps[i]
  BY <1>1, <1>2 DEF EachBodySavedOnce
<1>3. ASSUME NEW i \in Items, Spare(i), ~SaveStore \/ saver.item # i PROVE Spare(i)'
  BY <1>3, CopiesMove, CountsGrow DEF Spare
<1>4. SaveStore => saver.pc = "store" /\ saver'.pc = "record" /\ saver'.item = saver.item
                   /\ saver'.todo = saver.todo /\ saver.item \in Items /\ saver.item \notin saver.todo
  <2>1. SaveStore => saver.pc = "store"
    BY DEF SaveStore
  <2>2. SaveStore => saver' = [saver EXCEPT !.pc = "record"]
    BY DEF SaveStore
  <2>3. saver \in [pc: {"free", "next", "verify", "refuse", "store", "record", "finish"},
                 by: Resumers \union {None, "check"}, todo: SUBSET Items,
                 item: Items \union {None}]
    BY DEF DeliveryInv, TypeOK
  <2>4. QED
    BY <1>1, <2>1, <2>2, <2>3 DEF Saving
<1>5. ASSUME NEW i \in Items PROVE copies'[i] <= fetched'[i] + mishaps'[i]
  <2>1. CASE SaveStore /\ saver.item = i
    <3>1. Spare(i)
      BY <1>1, <1>4, <2>1 DEF Credited
    <3>2. QED
      BY <2>1, <3>1, CopiesMove, CountsGrow DEF Spare
  <2>2. CASE ~(SaveStore /\ saver.item = i)
    BY <1>2, <2>2, CopiesMove, CountsGrow
  <2>3. QED
    BY <2>1, <2>2
<1>6. ASSUME NEW i \in Items, job'[i].st = "ready"
      PROVE  Spare(i)' \/ (saver'.pc \in {"record", "finish"} /\ saver'.item = i)
  <2>1. CASE SaveStore /\ saver.item = i
    BY <1>4, <2>1
  <2>2. CASE ~(SaveStore /\ saver.item = i) /\ fetched'[i] = fetched[i] + 1
    BY <1>2, <2>2, CopiesMove, CountsGrow DEF Spare
  <2>3. CASE ~(SaveStore /\ saver.item = i) /\ job[i].st = "ready" /\ Spare(i)
    BY <1>3, <2>3
  <2>4. CASE job[i].st = "ready" /\ saver.pc \in {"record", "finish"} /\ saver.item = i
    <3>1. CASE Kill
      BY <1>2, <1>4, <2>4, <3>1, CopiesMove, CountsGrow DEF Spare
    <3>2. CASE ~Kill
      <4>1. ~(SaveFinish /\ saver.item = i)
        BY <1>6, ReadyMoves
      <4>2. \/ saver' = saver
            \/ saver.pc = "record" /\ saver'.pc = "finish" /\ saver'.item = saver.item
        <5>1. ~SaveEnds
          BY <2>4 DEF SaveEnds
        <5>2. saver' = saver \/ Save \/ SaveDefers
          BY <3>2, Writers
        <5>3. saver' = saver \/ SaveRecord
          BY <2>4, <4>1, <5>1, <5>2
          DEF Save, SaveBegin, MayBegin, SaveNext, SaveVerify, SaveRefuse, SaveStore, SaveFinish, SaveDefers
        <5>4. SaveRecord => saver.pc = "record" /\ saver' = [saver EXCEPT !.pc = "finish"]
          BY DEF SaveRecord
        <5>5. saver \in [pc: {"free", "next", "verify", "refuse", "store", "record", "finish"},
                         by: Resumers \union {None, "check"}, todo: SUBSET Items,
                         item: Items \union {None}]
          BY DEF DeliveryInv, TypeOK
        <5>6. QED
          BY <5>3, <5>4, <5>5
      <4>3. QED
        BY <2>4, <4>2
    <3>3. QED
      BY <3>1, <3>2
  <2>5. QED
    BY <1>1, <1>6, <2>1, <2>2, <2>3, <2>4, ReadyMoves DEF Credited
<1>7. ASSUME NEW i \in saver'.todo PROVE Spare(i)'
  <2>1. i \in Items /\ Spare(i) /\ (~SaveStore \/ saver.item # i)
    <3>1. CASE i \in saver.todo
      BY <1>1, <1>4, <3>1 DEF Credited
    <3>2. CASE i \notin saver.todo
      <4>1. saver.pc = "free" /\ i \in Items /\ job[i].st = "ready"
        BY <1>7, <3>2, SaverMoves
      <4>2. QED
        BY <1>1, <1>4, <4>1 DEF Credited
    <3>3. QED
      BY <3>1, <3>2
  <2>2. QED
    BY <1>3, <2>1
<1>8. ASSUME saver'.pc \in {"verify", "refuse", "store"} PROVE Spare(saver.item)'
  <2>1. ~SaveStore
    BY <1>4, <1>8
  <2>2. PICK i \in Items : i = saver'.item /\ Spare(i)
    <3>1. \/ saver' = saver \/ saver'.item \in saver.todo
          \/ saver'.item = saver.item /\ saver.pc = "verify"
      BY <1>8, SaverMoves
    <3>2. CASE saver'.item \in saver.todo
      <4>1. PICK i \in saver.todo : i = saver'.item
        BY <3>2
      <4>2. QED
        BY <1>1, <4>1 DEF Credited
    <3>3. CASE saver'.item = saver.item /\ saver.pc \in {"verify", "refuse", "store"}
      BY <1>1, <3>3 DEF Credited, Saving
    <3>4. QED
      BY <1>8, <3>1, <3>2, <3>3
  <2>3. Spare(i)'
    BY <1>3, <2>1, <2>2
  <2>4. QED
    BY <2>2, <2>3 DEF Spare
<1>9. Credited'
  BY <1>6, <1>7, <1>8 DEF Credited
<1>10. EachBodySavedOnce'
  BY <1>5 DEF EachBodySavedOnce
<1>11. QED
  BY <1>9, <1>10

-----------------------------------------------------------------------------
(* The theorems.                                                           *)

\* Nothing has been offered, asked for or saved yet.
LEMMA InitDelivery == Init => DeliveryInv
<1> SUFFICES ASSUME Init PROVE DeliveryInv
  OBVIOUS
<1> USE DEF Init, Receiver!Init
<1>1. /\ MaxAttempts \in Nat /\ MaxTasks \in Nat /\ MaxCrashes \in Nat /\ MaxFetches \in Nat
      /\ MaxFetches + MaxCrashes \in Nat
  BY DeliveryAssumption
<1>2. NoJob \in Job /\ NoJob.st = "none"
  BY <1>1 DEF NoJob, Job
<1>3. TypeOK
  BY <1>1, <1>2 DEF TypeOK, Idle, Free
<1>4. Promised
  BY DEF Promised, OfferTyped, Served, Receiver!Present
<1>5. Bounded /\ Saving /\ Arrived /\ Recorded /\ RetiredIsSaved
  BY <1>2 DEF Bounded, Saving, Arrived, Recorded, RetiredIsSaved, Free, Idle
<1>6. Credited /\ EachBodySavedOnce
  BY <1>2 DEF Credited, EachBodySavedOnce, Free
<1>7. QED
  BY <1>3, <1>4, <1>5, <1>6 DEF DeliveryInv

\* The conjunction of the parts is inductive.
LEMMA DeliveryStep == DeliveryInv /\ [Next]_vars => DeliveryInv'
<1> SUFFICES ASSUME DeliveryInv, [Next]_vars PROVE DeliveryInv'
  OBVIOUS
<1>1. Promised'
  BY PromisedStep
<1>2. QED
  BY <1>1, TypeStep, BoundedStep, SavingStep, ArrivedStep, RecordedStep, RetiredStep, CreditedStep
  DEF DeliveryInv

\* Every reachable state of a phone and its receiver satisfies the inductive invariant.
THEOREM DeliveryIsSound == Spec => []DeliveryInv
  BY InitDelivery, DeliveryStep, PTL DEF Spec

\* Whatever is lost, repeated or cut short, an item is retired by the receiver or entered in
\* the phone's ledger only after a copy of it was saved (engine/inbox.ts, the order of the
\* last three steps).
THEOREM RetiredItemsAreSaved == Spec => []RetiredIsSaved
<1>1. DeliveryInv => RetiredIsSaved
  BY DEF DeliveryInv
<1>2. QED
  BY <1>1, DeliveryIsSound, PTL

\* However many calls of resumeInbox overlap, no body becomes two copies unless the app was
\* killed between the save and the moment its job is forgotten (engine/inbox.ts, serialised).
THEOREM BodiesAreSavedOnce == Spec => []EachBodySavedOnce
<1>1. DeliveryInv => EachBodySavedOnce
  BY DEF DeliveryInv
<1>2. QED
  BY <1>1, DeliveryIsSound, PTL

\* Composed with this phone, the receiver's side goes only through steps that Offer allows:
\* every acknowledgement is made by the phone that holds the bytes.
THEOREM PhoneKeepsTheReceiversPromise == Spec => ReceiverKeepsItsPromise
<1>1. Init => Receiver!Init
  BY DEF Init
<1>2. DeliveryInv /\ [Next]_vars => [Receiver!Next]_(Receiver!offerVars)
  <2>1. Receiver!offerVars = <<st, dev, digest, serving, held>>
    BY DEF Receiver!offerVars
  <2>2. ASSUME DeliveryInv, [Next]_vars PROVE Receiver!Next \/ UNCHANGED Receiver!offerVars
    BY <2>2, PromisedStep DEF Receiver!offerVars
  <2>3. QED
    BY <2>2
<1>3. QED
  BY <1>1, <1>2, DeliveryIsSound, PTL DEF Spec, ReceiverKeepsItsPromise, Receiver!Spec
=============================================================================
