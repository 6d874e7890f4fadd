---------------------------- MODULE OutboxProofs ----------------------------
(***************************************************************************)
(* Theorems about Outbox for every number of devices, files, handlers,     *)
(* callers, items and writes.                                              *)
(***************************************************************************)
EXTENDS Outbox, TLAPS

(***************************************************************************)
(* The inductive invariant.  TypeOK says what each variable may hold; the  *)
(* other parts relate the variables.                                       *)

\* What is under way names a device, an item and a file, and only then.
Referenced ==
  /\ worker.pc \in {"open", "read", "record"} => worker.item \in Items
  /\ worker.pc = "open" => worker.src \in Files
  /\ \A i \in Items : row[i].st \in Kept => row[i].dev \in Devices /\ row[i].src \in Files
  /\ \A c \in Callers : IF add[c].pc = "idle" THEN add[c].rows = {}
                                             ELSE add[c].dev \in Devices
  /\ \A h \in Handlers :
       /\ handler[h].pc # "idle" => handler[h].dev \in Devices /\ handler[h].item \in Items
       /\ handler[h].pc = "open" => handler[h].src \in Files

\* A path names an inode that has a version, and no version is ahead of the clock.
Clocked ==
  /\ \A f \in Files : disk[f] # 0 => disk[f] <= clock /\ content[disk[f]] # 0
  /\ \A v \in Versions : content[v] <= clock

\* Versions of a file only grow, so one that is the same at both ends was the same
\* in between.
Hashed ==
  /\ worker.pc \in {"read", "record"} =>
       /\ worker.fd <= clock
       /\ worker.before # 0
       /\ worker.before <= content[worker.fd]
  /\ worker.pc = "record" =>
       worker.before <= worker.digest /\ worker.digest <= content[worker.fd]

\* A request under way is for an item that was queued for its device, and one that
\* acknowledges is made by a phone that holds the bytes.
Requested ==
  \A h \in Handlers : handler[h].pc # "idle" =>
    /\ row[handler[h].item].st # "unused"
    /\ row[handler[h].item].st \in Kept => row[handler[h].item].dev = handler[h].dev
    /\ handler[h].pc = "open" => handler[h].sha = handler[h].stamp
    /\ handler[h].pc = "ack" => <<handler[h].dev, handler[h].item>> \in held

\* OnlyTheOwnerCollects, and no id is reused.
Collected ==
  \A p \in held :
    /\ row[p[2]].st # "unused"
    /\ row[p[2]].st \in Kept => row[p[2]].dev = p[1]

\* NoLostWakeUp from the moment the worker finds nothing to hash.
Notified ==
  \A i \in Items :
    row[i].st = "pending" /\ worker.pc \in {"drained", "wait"} /\ ~wake
      => i \in stranded \/ \E c \in Callers : i \in add[c].rows

IInv == /\ TypeOK /\ Referenced /\ Clocked /\ Hashed /\ OfferIsVerifiable
        /\ Requested /\ Collected /\ DeliveredIsHeld /\ Notified

-----------------------------------------------------------------------------
\* What a call, a request and the worker are reset to are values of their types (Add,
\* Run and the handlers start and end with nothing in hand).
LEMMA IdleTyped ==
  /\ IdleAdd.pc = "idle" /\ IdleAdd.rows = {} /\ IdleAdd \in AddType
  /\ IdleHandler.pc = "idle" /\ IdleHandler \in HandlerType
  /\ Sweeping.pc = "next" /\ Sweeping \in WorkerType
  /\ Waiting.pc = "wait" /\ Waiting \in WorkerType
  BY OutboxAssumption
  DEF IdleAdd, IdleHandler, Sweeping, Waiting, Versions, AddType, HandlerType, WorkerType

\* A row that was never inserted, or was deleted, is a value of the row type.
LEMMA NoRowTyped ==
  ASSUME NEW s \in {"pending", "unused", "removed"}
  PROVE  NoRow(s) \in Row
  BY OutboxAssumption DEF NoRow, Row, Versions, Kept

\* Every UPDATE and INSERT of outbox.go and query.go leaves a table of rows.
LEMMA RowOperations ==
  ASSUME row \in [Items -> Row], NEW i, NEW d, NEW v \in Versions, NEW t \in Versions
  PROVE  /\ Fail(i) \in [Items -> Row]
         /\ RecordDigest(i, v, t) \in [Items -> Row]
         /\ Claim(d, i) \in [Items -> Row]
         /\ Deliver(d, i) \in [Items -> Row]
<1>1. ASSUME NEW s \in Kept PROVE [row EXCEPT ![i].st = s] \in [Items -> Row]
  BY <1>1 DEF Row
<1>2. Fail(i) \in [Items -> Row]
  BY <1>1 DEF Fail, Kept
<1>3. RecordDigest(i, v, t) \in [Items -> Row]
  <2> DEFINE updated == [row[i] EXCEPT !.st = "ready", !.sha = v, !.stamp = t]
  <2>1. ASSUME i \in Items PROVE updated \in Row
    BY <2>1 DEF Row, Kept
  <2>2. RecordDigest(i, v, t) = row \/ RecordDigest(i, v, t) = [row EXCEPT ![i] = updated]
    BY DEF RecordDigest
  <2>3. ASSUME NEW r, i \in Items => r \in Row PROVE [row EXCEPT ![i] = r] \in [Items -> Row]
    BY <2>3
  <2>4. QED
    BY <2>1, <2>2, <2>3
<1>4. Claim(d, i) \in [Items -> Row]
  BY <1>1 DEF Claim, Kept
<1>5. Deliver(d, i) \in [Items -> Row]
  BY <1>1 DEF Deliver, Kept
<1>6. QED
  BY <1>2, <1>3, <1>4, <1>5

\* Every step of the worker, of a call, of a request, of the user and of the disk
\* preserves the types.
LEMMA TypeStep == TypeOK /\ Referenced /\ [Next]_vars => TypeOK'
<1> SUFFICES ASSUME TypeOK, Referenced, [Next]_vars PROVE TypeOK'
  OBVIOUS
<1> USE IdleTyped, NoRowTyped, RowOperations, OutboxAssumption DEF TypeOK, diskVars
<1>0. 0 \in Versions
  BY DEF Versions
<1>1. ASSUME WorkerNext PROVE TypeOK'
  BY <1>1 DEF WorkerNext, WorkerType, Row, Pending
<1>2. ASSUME WorkerWaits PROVE TypeOK'
  BY <1>2 DEF WorkerWaits
<1>3. ASSUME WorkerWakes PROVE TypeOK'
  BY <1>3 DEF WorkerWakes
<1>4. ASSUME HashOpen PROVE TypeOK'
  <2>1. CASE disk[worker.src] = 0
    <3>1. worker' = Sweeping /\ row' = Fail(worker.item)
      BY <1>4, <2>1 DEF HashOpen
    <3>2. worker' \in WorkerType /\ row' \in [Items -> Row]
      BY <3>1, <1>0
    <3>3. UNCHANGED <<diskVars, paired, wake, add, handler, held, stranded>>
      BY <1>4 DEF HashOpen
    <3>4. QED
      BY <3>2, <3>3
  <2>2. CASE disk[worker.src] # 0
    <3>1. worker.pc = "open" /\ row' = row
      BY <1>4, <2>2 DEF HashOpen
    <3>2. worker' = [worker EXCEPT !.pc = "read", !.fd = disk[worker.src],
                                   !.before = content[disk[worker.src]]]
      BY <1>4, <2>2 DEF HashOpen
    <3>3. disk[worker.src] \in Versions /\ content[disk[worker.src]] \in Versions
      BY <3>1 DEF Referenced
    <3>4. worker' \in WorkerType
      BY <3>2, <3>3 DEF WorkerType
    <3>5. QED
      BY <1>4, <3>1, <3>4 DEF HashOpen
  <2>3. QED
    BY <2>1, <2>2
<1>5. ASSUME HashRead PROVE TypeOK'
  BY <1>5 DEF HashRead, WorkerType
<1>6. ASSUME HashRecord PROVE TypeOK'
  BY <1>6 DEF HashRecord, WorkerType
<1>7. ASSUME WorkerLedgerError PROVE TypeOK'
  BY <1>7 DEF WorkerLedgerError, WorkerType, Pending
<1>8. ASSUME NEW c \in Callers, NEW d \in Devices, AddBegin(c, d) PROVE TypeOK'
  BY <1>8 DEF AddBegin, AddType
<1>9. ASSUME NEW c \in Callers, NEW f \in Files, AddPath(c, f) PROVE TypeOK'
  <2>1. PICK i \in Items :
          /\ row' = [row EXCEPT ![i] = NewRow(add[c].dev, f)]
          /\ add' = [add EXCEPT ![c].rows = @ \union {i}]
    BY <1>9 DEF AddPath
  <2>2. add[c] \in AddType
    OBVIOUS
  <2>3. NewRow(add[c].dev, f) \in Row
    BY <2>2 DEF NewRow, Row, AddType
  <2>4. row' \in [Items -> Row]
    BY <2>1, <2>3
  <2>5. add' \in [Callers -> AddType]
    BY <2>1, <2>2 DEF AddType
  <2>6. QED
    BY <1>9, <2>4, <2>5 DEF AddPath
<1>10. ASSUME NEW c \in Callers, AddFails(c) PROVE TypeOK'
  BY <1>10 DEF AddFails, AddType
<1>11. ASSUME NEW c \in Callers, AddReturns(c) PROVE TypeOK'
  BY <1>11 DEF AddReturns
<1>12. ASSUME NEW h \in Handlers, NEW d \in Devices, NEW i \in Items, FetchRead(h, d, i) PROVE TypeOK'
  <2>1. row[i] \in Row
    OBVIOUS
  <2>2. [pc |-> "open", dev |-> d, item |-> i, src |-> row[i].src, sha |-> row[i].sha,
         stamp |-> row[i].stamp, fd |-> 0] \in HandlerType
    BY <1>0, <2>1 DEF Row, HandlerType
  <2>3. handler' \in [Handlers -> HandlerType]
    BY <1>12, <2>2 DEF FetchRead
  <2>4. QED
    BY <1>12, <2>3 DEF FetchRead
<1>13. ASSUME NEW h \in Handlers, NEW d \in Devices, NEW i \in Items, AckRead(h, d, i) PROVE TypeOK'
  BY <1>13 DEF AckRead, HandlerType
<1>14. ASSUME NEW h \in Handlers, FetchOpen(h) PROVE TypeOK'
  <2> DEFINE inode == disk[handler[h].src]
  <2>1. CASE inode # 0 /\ SameFile(inode, handler[h].stamp)
    <3>1. /\ row' = row
          /\ handler' = [handler EXCEPT ![h] =
               [@ EXCEPT !.pc = "claim", !.fd = inode, !.src = None, !.stamp = 0]]
      BY <1>14, <2>1 DEF FetchOpen
    <3>2. inode \in Versions
      BY <1>14 DEF FetchOpen, Referenced
    <3>3. [handler[h] EXCEPT !.pc = "claim", !.fd = inode, !.src = None, !.stamp = 0]
            \in HandlerType
      BY <1>0, <3>2 DEF HandlerType
    <3>4. QED
      BY <1>14, <3>1, <3>3 DEF FetchOpen
  <2>2. CASE ~(inode # 0 /\ SameFile(inode, handler[h].stamp))
    <3>1. handler' = [handler EXCEPT ![h] = IdleHandler] /\ row' = Fail(handler[h].item)
      BY <1>14, <2>2 DEF FetchOpen
    <3>2. handler' \in [Handlers -> HandlerType] /\ row' \in [Items -> Row]
      BY <3>1, <1>0
    <3>3. UNCHANGED <<diskVars, paired, worker, wake, add, held, stranded>>
      BY <1>14 DEF FetchOpen
    <3>4. QED
      BY <3>2, <3>3
  <2>3. QED
    BY <2>1, <2>2
<1>15. ASSUME NEW h \in Handlers, FetchClaim(h) PROVE TypeOK'
  BY <1>15 DEF FetchClaim, HandlerType
<1>16. ASSUME NEW h \in Handlers, FetchServe(h) PROVE TypeOK'
  <2>1. held' \subseteq Devices \X Items
    <3>1. <<handler[h].dev, handler[h].item>> \in Devices \X Items
      BY <1>16 DEF FetchServe, Referenced
    <3>2. QED
      BY <1>16, <3>1 DEF FetchServe
  <2>2. QED
    BY <1>16, <2>1 DEF FetchServe
<1>17. ASSUME NEW h \in Handlers, FetchAborts(h) PROVE TypeOK'
  BY <1>17 DEF FetchAborts
<1>18. ASSUME NEW h \in Handlers, AckWrite(h) PROVE TypeOK'
  BY <1>18 DEF AckWrite
<1>19. ASSUME NEW d \in Devices, NEW i \in Items, Remove(d, i) PROVE TypeOK'
  BY <1>19 DEF Remove
<1>20. ASSUME NEW d \in Devices, Clear(d) PROVE TypeOK'
  BY <1>20 DEF Clear
<1>21. ASSUME NEW d \in Devices, Unpair(d) PROVE TypeOK'
  BY <1>21 DEF Unpair
<1>22. ASSUME NEW d \in Devices, PairAgain(d) PROVE TypeOK'
  BY <1>22 DEF PairAgain
<1>23. ASSUME NEW f \in Files, WriteNew(f) PROVE TypeOK'
  <2>1. clock + 1 \in Versions
    BY <1>23 DEF WriteNew, Versions
  <2>2. QED
    BY <1>23, <2>1 DEF WriteNew
<1>24. ASSUME NEW f \in Files, WriteInPlace(f) PROVE TypeOK'
  <2>1. clock + 1 \in Versions
    BY <1>24 DEF WriteInPlace, Versions
  <2>2. QED
    BY <1>24, <2>1 DEF WriteInPlace
<1>25. ASSUME NEW f \in Files, Delete(f) PROVE TypeOK'
  BY <1>0, <1>25 DEF Delete
<1>26. ASSUME Restart PROVE TypeOK'
  BY <1>26 DEF Restart
<1>27. CASE UNCHANGED vars
  BY <1>27 DEF vars
<1>28. QED
  BY <1>1, <1>2, <1>3, <1>4, <1>5, <1>6, <1>7, <1>8, <1>9, <1>10, <1>11, <1>12, <1>13, <1>14, <1>15, <1>16, <1>17, <1>18, <1>19, <1>20, <1>21, <1>22, <1>23, <1>24, <1>25, <1>26, <1>27
  DEF Next, Worker, Queueing, Serving, User, Disk

-----------------------------------------------------------------------------
(* What a step may do to the rows.                                         *)

\* The statements that write a row, and what each leaves in it.
Written ==
  \/ row' = row
  \/ \E i \in Items : row' = Fail(i)
  \/ worker.pc = "record" /\ worker' = Sweeping /\ Unchanged(worker)
       /\ row' = RecordDigest(worker.item, worker.digest, content[worker.fd])
  \/ \E h \in Handlers : handler[h].pc = "claim" /\ row' = Claim(handler[h].dev, handler[h].item)
  \/ \E h \in Handlers : /\ handler[h].pc = "ack"
                         /\ row' = Deliver(handler[h].dev, handler[h].item)
                         /\ held' = held
  \/ \E i \in Items : row' = [row EXCEPT ![i] = NoRow("removed")]
  \/ \E d \in Devices : row' = [i \in Items |-> IF i \in Finished(d) THEN NoRow("removed") ELSE row[i]]
  \/ \E i \in Items, c \in Callers, f \in Files :
       /\ row[i].st = "unused"
       /\ add[c].pc = "adding"
       /\ row' = [row EXCEPT ![i] = NewRow(add[c].dev, f)]
       /\ add' = [add EXCEPT ![c].rows = @ \union {i}]

\* Every step leaves the rows alone or makes one of the writes of the code.
LEMMA RowsWritten == TypeOK /\ Referenced /\ [Next]_vars => Written
<1> SUFFICES ASSUME TypeOK, Referenced, [Next]_vars PROVE Written
  OBVIOUS
<1>1. ASSUME HashOpen PROVE Written
  BY <1>1 DEF HashOpen, Written, Referenced
<1>2. ASSUME HashRecord PROVE Written
  BY <1>2 DEF HashRecord, Written, Referenced
<1>3. ASSUME NEW h \in Handlers, FetchOpen(h) PROVE Written
  BY <1>3 DEF FetchOpen, Written, Referenced
<1>4. ASSUME NEW h \in Handlers, FetchClaim(h) PROVE Written
  BY <1>4 DEF FetchClaim, Written
<1>5. ASSUME NEW h \in Handlers, AckWrite(h) PROVE Written
  BY <1>5 DEF AckWrite, Written
<1>6. ASSUME NEW d \in Devices, NEW i \in Items, Remove(d, i) PROVE Written
  BY <1>6 DEF Remove, Written
<1>7. ASSUME NEW d \in Devices, Clear(d) PROVE Written
  BY <1>7 DEF Clear, Written
<1>8. ASSUME NEW c \in Callers, NEW f \in Files, AddPath(c, f) PROVE Written
  BY <1>8 DEF AddPath, Written
<1>9. CASE row' = row
  BY <1>9 DEF Written
<1>10. QED
  <2>1. ASSUME WorkerNext \/ WorkerWaits \/ WorkerWakes \/ HashRead \/ WorkerLedgerError \/ Restart
        PROVE  row' = row
    BY <2>1 DEF WorkerNext, WorkerWaits, WorkerWakes, HashRead, WorkerLedgerError, Restart
  <2>2. ASSUME NEW c \in Callers, AddFails(c) \/ AddReturns(c) PROVE row' = row
    BY <2>2 DEF AddFails, AddReturns
  <2>3. ASSUME NEW d \in Devices, Unpair(d) \/ PairAgain(d) \/ \E c \in Callers : AddBegin(c, d)
        PROVE  row' = row
    BY <2>3 DEF AddBegin, Unpair, PairAgain
  <2>4. ASSUME NEW h \in Handlers, FetchServe(h) \/ FetchAborts(h) PROVE row' = row
    BY <2>4 DEF FetchServe, FetchAborts
  <2>5. ASSUME NEW h \in Handlers, NEW d \in Devices, NEW i \in Items,
               FetchRead(h, d, i) \/ AckRead(h, d, i)
        PROVE  row' = row
    BY <2>5 DEF FetchRead, AckRead
  <2>6. ASSUME Disk \/ UNCHANGED vars PROVE row' = row
    BY <2>6 DEF Disk, WriteNew, WriteInPlace, Delete, vars
  <2>7. QED
    BY <1>1, <1>2, <1>3, <1>4, <1>5, <1>6, <1>7, <1>8, <1>9, <2>1, <2>2, <2>3, <2>4, <2>5, <2>6
    DEF Next, Worker, Queueing, Serving, User

\* A row keeps its device and its source for as long as it is there, and an id that
\* was given to a row is never given to another.
LEMMA RowsPersist ==
  ASSUME TypeOK, Referenced, [Next]_vars, NEW i \in Items, row[i].st # "unused"
  PROVE  /\ row'[i].st # "unused"
         /\ row'[i].st \in Kept => /\ row[i].st \in Kept
                                   /\ row'[i].dev = row[i].dev
                                   /\ row'[i].src = row[i].src
<1> DEFINE Persists ==
      /\ row'[i].st # "unused"
      /\ row'[i].st \in Kept => /\ row[i].st \in Kept
                                /\ row'[i].dev = row[i].dev
                                /\ row'[i].src = row[i].src
<1>1. Written /\ row \in [Items -> Row]
  BY RowsWritten DEF TypeOK
<1>2. NoRow("removed").st = "removed" /\ row[i] \in Row
  BY <1>1 DEF NoRow
<1> USE DEF Kept
<1>3. ASSUME row'[i] = row[i] \/ row'[i] = NoRow("removed") PROVE Persists
  BY <1>2, <1>3 DEF Row
<1>4. ASSUME NEW j \in Items, row' = Fail(j) PROVE Persists
  BY <1>1, <1>4 DEF Fail, Row
<1>5. ASSUME row' = RecordDigest(worker.item, worker.digest, content[worker.fd]) PROVE Persists
  BY <1>1, <1>5 DEF RecordDigest, Row
<1>6. ASSUME NEW d, NEW j, row' = Claim(d, j) PROVE Persists
  BY <1>1, <1>6 DEF Claim, Row
<1>7. ASSUME NEW d, NEW j, row' = Deliver(d, j) PROVE Persists
  BY <1>1, <1>7 DEF Deliver, Scoped, Row
<1>8. ASSUME NEW j \in Items, row' = [row EXCEPT ![j] = NoRow("removed")] PROVE Persists
  BY <1>1, <1>3, <1>8
<1>9. ASSUME NEW d \in Devices,
             row' = [j \in Items |-> IF j \in Finished(d) THEN NoRow("removed") ELSE row[j]]
      PROVE  Persists
  BY <1>3, <1>9
<1>10. ASSUME NEW j \in Items, NEW r, row[j].st = "unused", row' = [row EXCEPT ![j] = r]
       PROVE  Persists
  BY <1>1, <1>3, <1>10
<1>11. QED
  BY <1>1, <1>3, <1>4, <1>5, <1>6, <1>7, <1>8, <1>9, <1>10 DEF Written

-----------------------------------------------------------------------------
(* Each part of the invariant is preserved.                                *)

\* The set of what the phones hold changes only when a body has been served.
LEMMA HeldGrows == [Next]_vars => held' = held \/ \E h \in Handlers : FetchServe(h)
<1> SUFFICES ASSUME [Next]_vars PROVE held' = held \/ \E h \in Handlers : FetchServe(h)
  OBVIOUS
<1>1. ASSUME Worker \/ WorkerLedgerError \/ Disk \/ Restart \/ UNCHANGED vars PROVE held' = held
  BY <1>1 DEF Worker, WorkerNext, WorkerWaits, WorkerWakes, HashOpen, HashRead, HashRecord,
              WorkerLedgerError, Disk, WriteNew, WriteInPlace, Delete, Restart, vars
<1>2. ASSUME Queueing \/ User PROVE held' = held
  BY <1>2 DEF Queueing, AddBegin, AddPath, AddFails, AddReturns, User, Remove, Clear, Unpair, PairAgain
<1>3. ASSUME NEW h \in Handlers,
             FetchOpen(h) \/ FetchClaim(h) \/ FetchAborts(h) \/ AckWrite(h)
             \/ \E d \in Devices, i \in Items : FetchRead(h, d, i) \/ AckRead(h, d, i)
      PROVE  held' = held
  BY <1>3 DEF FetchOpen, FetchClaim, FetchAborts, AckWrite, FetchRead, AckRead
<1>4. QED
  BY <1>1, <1>2, <1>3 DEF Next, Serving

\* A device that held a file holds it still.
LEMMA HeldKept == [Next]_vars => held \subseteq held'
  BY HeldGrows DEF FetchServe

\* The disk changes only by the steps of those who write to it.
LEMMA DiskSteps == [Next]_vars => Disk \/ UNCHANGED diskVars
<1> SUFFICES ASSUME [Next]_vars, ~Disk PROVE UNCHANGED diskVars
  OBVIOUS
<1> USE DEF diskVars
<1>1. ASSUME Worker \/ WorkerLedgerError \/ Restart \/ UNCHANGED vars PROVE UNCHANGED diskVars
  BY <1>1 DEF Worker, WorkerNext, WorkerWaits, WorkerWakes, HashOpen, HashRead, HashRecord,
              WorkerLedgerError, Restart, vars
<1>2. ASSUME Queueing \/ User PROVE UNCHANGED diskVars
  BY <1>2 DEF Queueing, AddBegin, AddPath, AddFails, AddReturns, User, Remove, Clear, Unpair, PairAgain
<1>3. ASSUME Serving PROVE UNCHANGED diskVars
  BY <1>3 DEF Serving, FetchOpen, FetchClaim, FetchServe, FetchAborts, AckWrite, FetchRead, AckRead
<1>4. QED
  BY <1>1, <1>2, <1>3 DEF Next

\* Versions and inodes stay within the clock.
LEMMA ClockedStep == TypeOK /\ Clocked /\ [Next]_vars => Clocked'
<1> SUFFICES ASSUME TypeOK, Clocked, [Next]_vars PROVE Clocked'
  OBVIOUS
<1>1. /\ disk \in [Files -> Versions] /\ content \in [Versions -> Versions]
      /\ clock \in Nat /\ \A v \in Versions : v \in Nat
  BY DEF TypeOK, Versions
<1>2. CASE UNCHANGED diskVars
  BY <1>2 DEF Clocked, diskVars
<1>3. ASSUME NEW f \in Files, WriteNew(f) PROVE Clocked'
  <2>1. /\ clock + 1 \in Versions /\ clock' = clock + 1
        /\ disk' = [disk EXCEPT ![f] = clock + 1]
        /\ content' = [content EXCEPT ![clock + 1] = clock + 1]
    <3>1. clock < MaxVersion /\ clock \in 0..MaxVersion
      BY <1>3 DEF WriteNew, TypeOK, Versions
    <3>2. clock + 1 \in Versions
      BY <3>1, OutboxAssumption DEF Versions
    <3>3. QED
      BY <1>3, <3>2 DEF WriteNew
  <2>2. ASSUME NEW v \in Versions PROVE content'[v] <= clock'
    <3>1. content'[v] = IF v = clock + 1 THEN clock + 1 ELSE content[v]
      BY <1>1, <2>1
    <3>2. content[v] \in Nat /\ content[v] <= clock
      BY <1>1 DEF Clocked
    <3>3. QED
      BY <1>1, <2>1, <3>1, <3>2
  <2>3. ASSUME NEW g \in Files, disk'[g] # 0 PROVE disk'[g] <= clock' /\ content'[disk'[g]] # 0
    <3>1. CASE g = f
      <4>1. disk'[g] = clock + 1 /\ content'[clock + 1] = clock + 1
        BY <1>1, <2>1, <3>1
      <4>2. QED
        BY <1>1, <2>1, <4>1
    <3>2. CASE g # f
      <4>1. disk'[g] = disk[g] /\ disk[g] \in Nat /\ disk[g] \in Versions
        BY <1>1, <2>1, <3>2
      <4>2. disk[g] <= clock /\ content[disk[g]] # 0
        BY <2>3, <4>1 DEF Clocked
      <4>3. disk[g] # clock + 1 /\ disk[g] <= clock + 1
        BY <1>1, <4>1, <4>2
      <4>4. content'[disk[g]] = content[disk[g]]
        BY <1>1, <2>1, <4>1, <4>3
      <4>5. QED
        BY <2>1, <4>1, <4>2, <4>3, <4>4
    <3>3. QED
      BY <3>1, <3>2
  <2>4. QED
    BY <2>2, <2>3 DEF Clocked
<1>4. ASSUME NEW f \in Files, WriteInPlace(f) PROVE Clocked'
  <2>1. /\ clock' = clock + 1 /\ disk' = disk
        /\ content' = [content EXCEPT ![disk[f]] = clock + 1]
    BY <1>4 DEF WriteInPlace
  <2>2. ASSUME NEW v \in Versions PROVE content'[v] <= clock'
    <3>1. content'[v] = IF v = disk[f] THEN clock + 1 ELSE content[v]
      BY <1>1, <2>1
    <3>2. content[v] \in Nat /\ content[v] <= clock
      BY <1>1 DEF Clocked
    <3>3. QED
      BY <1>1, <2>1, <3>1, <3>2
  <2>3. ASSUME NEW g \in Files, disk'[g] # 0 PROVE disk'[g] <= clock' /\ content'[disk'[g]] # 0
    <3>1. disk'[g] = disk[g] /\ disk[g] \in Nat /\ disk[g] \in Versions
      BY <1>1, <2>1
    <3>2. disk[g] <= clock /\ content[disk[g]] # 0
      BY <2>3, <3>1 DEF Clocked
    <3>3. content'[disk[g]] = IF disk[g] = disk[f] THEN clock + 1 ELSE content[disk[g]]
      BY <1>1, <2>1, <3>1
    <3>4. QED
      BY <1>1, <2>1, <3>1, <3>2, <3>3
  <2>4. QED
    BY <2>2, <2>3 DEF Clocked
<1>5. ASSUME NEW f \in Files, Delete(f) PROVE Clocked'
  BY <1>1, <1>5 DEF Delete, Clocked
<1>6. QED
  BY <1>2, <1>3, <1>4, <1>5, DiskSteps DEF Disk

\* A file that is written to never gets an earlier version back.
LEMMA VersionsGrow ==
  ASSUME TypeOK, Clocked, [Next]_vars
  PROVE  /\ clock <= clock'
         /\ \A v \in Versions : content[v] <= content'[v]
<1>1. /\ disk \in [Files -> Versions] /\ content \in [Versions -> Versions]
      /\ clock \in Nat /\ \A v \in Versions : v \in Nat
  BY DEF TypeOK, Versions
<1>2. ASSUME content' = content, clock' = clock
      PROVE  clock <= clock' /\ \A v \in Versions : content[v] <= content'[v]
  BY <1>1, <1>2
<1>3. ASSUME NEW v \in Versions, clock' = clock + 1, content' = [content EXCEPT ![v] = clock + 1]
      PROVE  clock <= clock' /\ \A u \in Versions : content[u] <= content'[u]
  <2>1. clock <= clock'
    BY <1>1, <1>3
  <2>2. ASSUME NEW u \in Versions PROVE content[u] <= content'[u]
    <3>1. content'[u] = IF u = v THEN clock + 1 ELSE content[u]
      BY <1>1, <1>3
    <3>2. content[u] \in Nat /\ content[u] <= clock
      BY <1>1 DEF Clocked
    <3>3. QED
      BY <1>1, <3>1, <3>2
  <2>3. QED
    BY <2>1, <2>2
<1>4. ASSUME NEW f \in Files, WriteNew(f) \/ WriteInPlace(f)
      PROVE  \E v \in Versions : clock' = clock + 1 /\ content' = [content EXCEPT ![v] = clock + 1]
  <2>1. CASE WriteNew(f)
    <3>1. clock < MaxVersion /\ clock \in 0..MaxVersion
      BY <2>1 DEF WriteNew, TypeOK, Versions
    <3>2. clock + 1 \in Versions
      BY <3>1, OutboxAssumption DEF Versions
    <3>3. QED
      BY <2>1, <3>2 DEF WriteNew
  <2>2. CASE WriteInPlace(f)
    BY <1>1, <2>2 DEF WriteInPlace
  <2>3. QED
    BY <1>4, <2>1, <2>2
<1>5. QED
  BY <1>2, <1>3, <1>4, DiskSteps DEF Disk, Delete, diskVars

\* The worker's own steps, the ledger refusing it, and a restart are all that moves it.
LEMMA WorkerSteps ==
  [Next]_vars => \/ worker' = worker \/ Worker \/ WorkerLedgerError \/ Restart
<1> SUFFICES ASSUME [Next]_vars, ~Worker, ~WorkerLedgerError, ~Restart PROVE worker' = worker
  OBVIOUS
<1>1. ASSUME Queueing \/ User PROVE worker' = worker
  BY <1>1 DEF Queueing, AddBegin, AddPath, AddFails, AddReturns, User, Remove, Clear, Unpair, PairAgain
<1>2. ASSUME Serving PROVE worker' = worker
  BY <1>2 DEF Serving, FetchOpen, FetchClaim, FetchServe, FetchAborts, AckWrite, FetchRead, AckRead
<1>3. ASSUME Disk \/ UNCHANGED vars PROVE worker' = worker
  BY <1>3 DEF Disk, WriteNew, WriteInPlace, Delete, vars
<1>4. QED
  BY <1>1, <1>2, <1>3 DEF Next

\* Between the two looks the worker takes at a file, its version only grows.
LEMMA HashedStep == TypeOK /\ Referenced /\ Clocked /\ Hashed /\ [Next]_vars => Hashed'
<1> SUFFICES ASSUME TypeOK, Referenced, Clocked, Hashed, [Next]_vars PROVE Hashed'
  OBVIOUS
<1>1. /\ content \in [Versions -> Versions] /\ content' \in [Versions -> Versions]
      /\ clock \in Nat /\ clock' \in Nat /\ \A v \in Versions : v \in Nat
      /\ disk \in [Files -> Versions]
      /\ worker.fd \in Versions /\ worker.before \in Versions /\ worker.digest \in Versions
  BY TypeStep DEF TypeOK, Versions, WorkerType
<1>2. clock <= clock' /\ \A v \in Versions : content[v] <= content'[v]
  BY VersionsGrow
<1>3. CASE worker' = worker
  <2>1. worker.pc \in {"read", "record"} => worker.fd <= clock' /\ worker.before <= content'[worker.fd]
    BY <1>1, <1>2 DEF Hashed
  <2>2. worker.pc = "record" => worker.digest <= content'[worker.fd]
    BY <1>1, <1>2 DEF Hashed
  <2>3. QED
    BY <1>3, <2>1, <2>2 DEF Hashed
<1>4. CASE worker'.pc \notin {"read", "record"}
  BY <1>4 DEF Hashed
<1>5. CASE HashOpen /\ disk[worker.src] # 0
  <2>1. /\ worker' = [worker EXCEPT !.pc = "read", !.fd = disk[worker.src],
                                    !.before = content[disk[worker.src]]]
        /\ content' = content /\ clock' = clock /\ worker.src \in Files
    BY <1>5 DEF HashOpen, diskVars, Referenced
  <2>2. /\ worker'.pc = "read" /\ worker'.fd = disk[worker.src]
        /\ worker'.before = content[disk[worker.src]]
    BY <2>1 DEF TypeOK, WorkerType
  <2>3. disk[worker.src] \in Versions /\ content[disk[worker.src]] \in Nat
    BY <1>1, <2>1
  <2>4. disk[worker.src] <= clock /\ content[disk[worker.src]] # 0
    BY <1>5, <2>1 DEF Clocked
  <2>5. QED
    BY <1>1, <2>1, <2>2, <2>3, <2>4 DEF Hashed
<1>6. CASE HashRead
  <2>1. /\ worker' = [worker EXCEPT !.pc = "record", !.digest = content[worker.fd]]
        /\ worker.pc = "read" /\ content' = content /\ clock' = clock
    BY <1>6 DEF HashRead, diskVars
  <2>2. /\ worker'.pc = "record" /\ worker'.fd = worker.fd
        /\ worker'.before = worker.before /\ worker'.digest = content[worker.fd]
    BY <2>1 DEF TypeOK, WorkerType
  <2>3. content[worker.fd] \in Nat
    BY <1>1
  <2>4. QED
    BY <1>1, <2>1, <2>2, <2>3 DEF Hashed
<1>7. QED
  <2>1. ASSUME WorkerWaits \/ WorkerWakes \/ HashRecord \/ WorkerLedgerError \/ Restart
        PROVE  worker'.pc \notin {"read", "record"}
    BY <2>1 DEF WorkerWaits, WorkerWakes, HashRecord, WorkerLedgerError, Restart, Sweeping, Waiting
  <2>2. CASE WorkerNext
    BY <1>4, <2>2 DEF WorkerNext, Sweeping
  <2>3. CASE HashOpen /\ disk[worker.src] = 0
    BY <1>4, <2>3 DEF HashOpen, Sweeping
  <2>4. QED
    BY <1>3, <1>4, <1>5, <1>6, <2>1, <2>2, <2>3, WorkerSteps DEF Worker

\* Requests move only by the handlers' steps and a restart.
LEMMA HandlerSteps == [Next]_vars => handler' = handler \/ Serving \/ Restart
<1> SUFFICES ASSUME [Next]_vars, ~Serving, ~Restart PROVE handler' = handler
  OBVIOUS
<1>1. ASSUME Worker \/ WorkerLedgerError \/ Disk \/ UNCHANGED vars PROVE handler' = handler
  BY <1>1 DEF Worker, WorkerNext, WorkerWaits, WorkerWakes, HashOpen, HashRead, HashRecord,
              WorkerLedgerError, Disk, WriteNew, WriteInPlace, Delete, vars
<1>2. ASSUME Queueing \/ User PROVE handler' = handler
  BY <1>2 DEF Queueing, AddBegin, AddPath, AddFails, AddReturns, User, Remove, Clear, Unpair, PairAgain
<1>3. QED
  BY <1>1, <1>2 DEF Next

\* Calls of Add move only by their own steps and a restart.
LEMMA AddSteps == [Next]_vars => add' = add \/ Queueing \/ Restart
<1> SUFFICES ASSUME [Next]_vars, ~Queueing, ~Restart PROVE add' = add
  OBVIOUS
<1>1. ASSUME Worker \/ WorkerLedgerError \/ Disk \/ UNCHANGED vars PROVE add' = add
  BY <1>1 DEF Worker, WorkerNext, WorkerWaits, WorkerWakes, HashOpen, HashRead, HashRecord,
              WorkerLedgerError, Disk, WriteNew, WriteInPlace, Delete, vars
<1>2. ASSUME User PROVE add' = add
  BY <1>2 DEF User, Remove, Clear, Unpair, PairAgain
<1>3. ASSUME Serving PROVE add' = add
  BY <1>3 DEF Serving, FetchOpen, FetchClaim, FetchServe, FetchAborts, AckWrite, FetchRead, AckRead
<1>4. QED
  BY <1>1, <1>2, <1>3 DEF Next

\* A row appears only because an Add call under way inserted it.
LEMMA RowsQueued ==
  ASSUME TypeOK, Referenced, [Next]_vars, NEW i \in Items,
         row[i].st \notin Kept, row'[i].st \in Kept
  PROVE  \E c \in Callers, f \in Files :
           /\ add[c].pc = "adding"
           /\ row'[i] = NewRow(add[c].dev, f)
           /\ i \in add'[c].rows
<1>1. Written /\ row \in [Items -> Row] /\ add \in [Callers -> AddType]
  BY RowsWritten DEF TypeOK
<1>2. NoRow("removed").st \notin Kept /\ row'[i] # row[i]
  BY DEF NoRow, Kept
<1>3. ASSUME NEW j \in Items, row' = Fail(j) PROVE FALSE
  BY <1>1, <1>3 DEF Fail, Row
<1>4. row' # RecordDigest(worker.item, worker.digest, content[worker.fd])
  BY <1>1 DEF RecordDigest, Row, Kept
<1>5. ASSUME NEW d, NEW j, row' = Claim(d, j) PROVE FALSE
  BY <1>1, <1>5 DEF Claim, Row, Kept
<1>6. ASSUME NEW d, NEW j, row' = Deliver(d, j) PROVE FALSE
  BY <1>1, <1>6 DEF Deliver, Row, Scoped
<1>7. ASSUME NEW j \in Items, row' = [row EXCEPT ![j] = NoRow("removed")] PROVE FALSE
  BY <1>1, <1>2, <1>7
<1>8. ASSUME NEW d \in Devices,
             row' = [j \in Items |-> IF j \in Finished(d) THEN NoRow("removed") ELSE row[j]]
      PROVE  FALSE
  BY <1>2, <1>8
<1>9. ASSUME NEW j \in Items, NEW c \in Callers, NEW f \in Files,
             row' = [row EXCEPT ![j] = NewRow(add[c].dev, f)],
             add' = [add EXCEPT ![c].rows = @ \union {j}]
      PROVE  row'[i] = NewRow(add[c].dev, f) /\ i \in add'[c].rows
  <2>1. i = j
    BY <1>1, <1>2, <1>9
  <2>2. QED
    BY <1>1, <1>9, <2>1 DEF AddType
<1>10. QED
  BY <1>1, <1>2, <1>3, <1>4, <1>5, <1>6, <1>7, <1>8, <1>9 DEF Written

\* A phone collects only rows queued for it: the request was checked when it was
\* read, and a row does not change hands afterwards.
LEMMA CollectedStep == IInv /\ [Next]_vars => Collected'
<1> SUFFICES ASSUME IInv, [Next]_vars, NEW p \in held'
             PROVE  row'[p[2]].st # "unused" /\ (row'[p[2]].st \in Kept => row'[p[2]].dev = p[1])
  BY DEF Collected
<1>1. TypeOK /\ Referenced /\ Collected /\ Requested
  BY DEF IInv
<1>2. CASE p \in held
  <2>1. row[p[2]].st # "unused" /\ p \in Devices \X Items
    BY <1>1, <1>2 DEF TypeOK, Collected
  <2>2. p[2] \in Items
    BY <2>1
  <2>3. row[p[2]].st \in Kept => row[p[2]].dev = p[1]
    BY <1>1, <1>2 DEF Collected
  <2>4. QED
    BY <1>1, <2>1, <2>2, <2>3, RowsPersist
<1>3. ASSUME NEW h \in Handlers, FetchServe(h), p \notin held
      PROVE  row' = row /\ handler[h].pc # "idle" /\ p = <<handler[h].dev, handler[h].item>>
  BY <1>3 DEF FetchServe
<1>4. p \in held \/ \E h \in Handlers : FetchServe(h)
  BY HeldGrows
<1>5. QED
  BY <1>1, <1>2, <1>3, <1>4 DEF Requested

\* A digest is recorded only when the file did not change under the hash, so that the
\* digest and the version recorded with it are the same.
LEMMA VerifiableStep == IInv /\ [Next]_vars => OfferIsVerifiable'
<1> SUFFICES ASSUME IInv, [Next]_vars, NEW i \in Items
             PROVE  /\ row'[i].sha = row'[i].stamp
                    /\ row'[i].st \in OnOffer => row'[i].sha # 0
  BY DEF OfferIsVerifiable
<1>1. Written /\ row \in [Items -> Row] /\ Hashed
  BY RowsWritten DEF IInv, TypeOK
<1>2. row[i] \in Row /\ row[i].sha = row[i].stamp /\ (row[i].st \in OnOffer => row[i].sha # 0)
  BY <1>1 DEF IInv, OfferIsVerifiable
<1> DEFINE Verifiable == /\ row'[i].sha = row'[i].stamp
                         /\ row'[i].st \in OnOffer => row'[i].sha # 0
<1>3. ASSUME row'[i] = row[i] PROVE Verifiable
  BY <1>2, <1>3
<1>4. ASSUME row'[i] = NoRow("removed") PROVE Verifiable
  BY <1>4 DEF NoRow, OnOffer
<1>5. ASSUME NEW j \in Items, row' = Fail(j) PROVE Verifiable
  BY <1>1, <1>2, <1>5 DEF Fail, Row, OnOffer
<1>6. ASSUME worker.pc = "record", Unchanged(worker),
             row' = RecordDigest(worker.item, worker.digest, content[worker.fd])
      PROVE  Verifiable
  <2>1. /\ worker.digest \in Nat /\ worker.before \in Nat /\ content[worker.fd] \in Nat
    BY DEF IInv, TypeOK, WorkerType, Versions
  <2>2. /\ content[worker.fd] = worker.before /\ worker.before # 0
        /\ worker.before <= worker.digest /\ worker.digest <= content[worker.fd]
    BY <1>1, <1>6 DEF Hashed, Unchanged
  <2>3. worker.digest = content[worker.fd] /\ worker.digest # 0
    BY <2>1, <2>2
  <2>4. QED
    BY <1>1, <1>2, <1>6, <2>3 DEF RecordDigest, Row, OnOffer
<1>7. ASSUME NEW d, NEW j, row' = Claim(d, j) PROVE Verifiable
  BY <1>1, <1>2, <1>7 DEF Claim, Row, OnOffer
<1>8. ASSUME NEW d, NEW j, row' = Deliver(d, j) PROVE Verifiable
  BY <1>1, <1>2, <1>8 DEF Deliver, Row, OnOffer
<1>9. ASSUME NEW j \in Items, row' = [row EXCEPT ![j] = NoRow("removed")] PROVE Verifiable
  BY <1>1, <1>3, <1>4, <1>9
<1>10. ASSUME NEW d \in Devices,
              row' = [j \in Items |-> IF j \in Finished(d) THEN NoRow("removed") ELSE row[j]]
       PROVE  Verifiable
  BY <1>3, <1>4, <1>10
<1>11. ASSUME NEW j \in Items, NEW d, NEW f,
              row' = [row EXCEPT ![j] = NewRow(d, f)]
       PROVE  Verifiable
  <2>1. CASE i = j
    BY <1>1, <1>11, <2>1 DEF NewRow, NoRow, OnOffer
  <2>2. CASE i # j
    BY <1>1, <1>3, <1>11, <2>2
  <2>3. QED
    BY <2>1, <2>2
<1>12. QED
  BY <1>1, <1>3, <1>5, <1>6, <1>7, <1>8, <1>9, <1>10, <1>11 DEF Written

\* A row becomes delivered only by the acknowledgement of a device that holds it.
LEMMA DeliveredStep == IInv /\ [Next]_vars => DeliveredIsHeld'
<1> SUFFICES ASSUME IInv, [Next]_vars, NEW i \in Items, row'[i].st = "delivered"
             PROVE  <<row'[i].dev, i>> \in held'
  BY DEF DeliveredIsHeld
<1>1. Written /\ row \in [Items -> Row] /\ held \subseteq held' /\ Requested
  BY RowsWritten, HeldKept DEF IInv, TypeOK
<1>2. row[i] \in Row /\ (row[i].st = "delivered" => <<row[i].dev, i>> \in held)
  BY <1>1 DEF IInv, DeliveredIsHeld
<1> DEFINE Held == <<row'[i].dev, i>> \in held'
<1>3. ASSUME row'[i] = row[i] PROVE Held
  BY <1>1, <1>2, <1>3
<1>4. row'[i] # NoRow("removed")
  BY DEF NoRow
<1>5. ASSUME NEW j \in Items, row' = Fail(j) PROVE Held
  BY <1>1, <1>2, <1>5 DEF Fail, Row
<1>6. ASSUME row' = RecordDigest(worker.item, worker.digest, content[worker.fd]) PROVE Held
  BY <1>1, <1>2, <1>6 DEF RecordDigest, Row
<1>7. ASSUME NEW d, NEW j, row' = Claim(d, j) PROVE Held
  BY <1>1, <1>2, <1>7 DEF Claim, Row
<1>8. ASSUME NEW h \in Handlers, handler[h].pc = "ack",
             row' = Deliver(handler[h].dev, handler[h].item)
      PROVE  Held
  <2>1. <<handler[h].dev, handler[h].item>> \in held
    BY <1>1, <1>8 DEF Requested
  <2>2. CASE i = handler[h].item /\ Scoped(handler[h].dev, i)
    <3>1. row'[i].dev = row[i].dev /\ row[i].dev = handler[h].dev
      BY <1>1, <1>2, <1>8, <2>2 DEF Deliver, Scoped, Row
    <3>2. QED
      BY <1>1, <2>1, <2>2, <3>1
  <2>3. CASE ~(i = handler[h].item /\ Scoped(handler[h].dev, i))
    BY <1>1, <1>3, <1>8, <2>3 DEF Deliver
  <2>4. QED
    BY <2>2, <2>3
<1>9. ASSUME NEW j \in Items, row' = [row EXCEPT ![j] = NoRow("removed")] PROVE Held
  BY <1>1, <1>3, <1>4, <1>9
<1>10. ASSUME NEW d \in Devices,
              row' = [j \in Items |-> IF j \in Finished(d) THEN NoRow("removed") ELSE row[j]]
       PROVE  Held
  BY <1>3, <1>4, <1>10
<1>11. ASSUME NEW j \in Items, NEW d, NEW f,
              row' = [row EXCEPT ![j] = NewRow(d, f)]
       PROVE  Held
  <2>1. i # j
    BY <1>1, <1>11 DEF NewRow, NoRow
  <2>2. QED
    BY <1>1, <1>3, <1>11, <2>1
<1>12. QED
  BY <1>1, <1>3, <1>5, <1>6, <1>7, <1>8, <1>9, <1>10, <1>11 DEF Written

\* A row, a call or a request that is under way names a device, an item and a file.
LEMMA ReferencedStep == TypeOK /\ Referenced /\ [Next]_vars => Referenced'
<1> SUFFICES ASSUME TypeOK, Referenced, [Next]_vars PROVE Referenced'
  OBVIOUS
<1>1. ASSUME NEW i \in Items, row'[i].st \in Kept PROVE row'[i].dev \in Devices /\ row'[i].src \in Files
  <2>1. CASE row[i].st \in Kept
    <3>1. row[i].st # "unused" /\ row[i].dev \in Devices /\ row[i].src \in Files
      BY <2>1 DEF Kept, Referenced
    <3>2. QED
      BY <1>1, <3>1, RowsPersist
  <2>2. CASE row[i].st \notin Kept
    <3>1. PICK c \in Callers, f \in Files : add[c].pc = "adding" /\ row'[i] = NewRow(add[c].dev, f)
      BY <1>1, <2>2, RowsQueued
    <3>2. add[c].dev \in Devices
      BY <3>1 DEF Referenced
    <3>3. QED
      BY <3>1, <3>2 DEF NewRow, NoRow
  <2>3. QED
    BY <2>1, <2>2
<1>2. /\ worker'.pc \in {"open", "read", "record"} => worker'.item \in Items
      /\ worker'.pc = "open" => worker'.src \in Files
  <2>1. CASE worker' = worker
    BY <2>1 DEF Referenced
  <2>2. CASE WorkerNext
    BY <2>2 DEF WorkerNext, Sweeping, Pending, Referenced, Kept
  <2>3. CASE HashOpen
    <3>1. worker.item \in Items /\ worker \in WorkerType
      BY <2>3 DEF HashOpen, Referenced, TypeOK
    <3>2. CASE worker' = Sweeping
      BY <3>2 DEF Sweeping
    <3>3. CASE worker' = [worker EXCEPT !.pc = "read", !.fd = disk[worker.src],
                                        !.before = content[disk[worker.src]]]
      BY <3>1, <3>3 DEF WorkerType
    <3>4. QED
      BY <2>3, <3>2, <3>3 DEF HashOpen
  <2>4. CASE HashRead
    BY <2>4 DEF HashRead, Referenced, TypeOK, WorkerType
  <2>5. CASE WorkerWaits \/ WorkerWakes \/ HashRecord \/ WorkerLedgerError \/ Restart
    BY <2>5 DEF WorkerWaits, WorkerWakes, HashRecord, WorkerLedgerError, Restart, Sweeping, Waiting
  <2>6. QED
    BY <2>1, <2>2, <2>3, <2>4, <2>5, WorkerSteps DEF Worker
<1>3. ASSUME NEW c \in Callers
      PROVE  IF add'[c].pc = "idle" THEN add'[c].rows = {} ELSE add'[c].dev \in Devices
  <2>1. add \in [Callers -> AddType] /\ IdleAdd.pc = "idle" /\ IdleAdd.rows = {}
    BY IdleTyped DEF TypeOK
  <2>2. CASE add' = add \/ Restart
    BY <2>1, <2>2 DEF Referenced, Restart
  <2>3. ASSUME NEW g \in Callers, NEW d \in Devices, AddBegin(g, d)
        PROVE  IF add'[c].pc = "idle" THEN add'[c].rows = {} ELSE add'[c].dev \in Devices
    BY <2>1, <2>3 DEF AddBegin, Referenced
  <2>4. ASSUME NEW g \in Callers, NEW f \in Files, AddPath(g, f)
        PROVE  add'[c].pc = add[c].pc /\ add'[c].dev = add[c].dev /\ (c # g => add'[c] = add[c])
               /\ add[g].pc = "adding"
    BY <2>1, <2>4 DEF AddPath, AddType
  <2>5. ASSUME NEW g \in Callers, AddFails(g) \/ AddReturns(g)
        PROVE  IF add'[c].pc = "idle" THEN add'[c].rows = {} ELSE add'[c].dev \in Devices
    BY <2>1, <2>5 DEF AddFails, AddReturns, Referenced
  <2>6. QED
    BY <2>2, <2>3, <2>4, <2>5, AddSteps DEF Queueing, Referenced
<1>4. ASSUME NEW h \in Handlers
      PROVE  /\ handler'[h].pc # "idle" => handler'[h].dev \in Devices /\ handler'[h].item \in Items
             /\ handler'[h].pc = "open" => handler'[h].src \in Files
  <2> DEFINE Refers == /\ handler'[h].pc # "idle" => handler'[h].dev \in Devices /\ handler'[h].item \in Items
                       /\ handler'[h].pc = "open" => handler'[h].src \in Files
  <2>1. handler \in [Handlers -> HandlerType] /\ IdleHandler.pc = "idle"
    BY IdleTyped DEF TypeOK
  <2>2. CASE handler' = handler \/ Restart
    BY <2>1, <2>2 DEF Referenced, Restart
  <2>3. ASSUME NEW g \in Handlers, NEW d \in Devices, NEW i \in Items, FetchRead(g, d, i) PROVE Refers
    BY <2>1, <2>3 DEF FetchRead, Ready, OnOffer, Kept, Referenced
  <2>4. ASSUME NEW g \in Handlers, NEW d \in Devices, NEW i \in Items, AckRead(g, d, i) PROVE Refers
    BY <2>1, <2>4 DEF AckRead, IdleHandler, Referenced
  <2>5. ASSUME NEW g \in Handlers, FetchOpen(g) PROVE Refers
    <3>1. handler[g].pc = "open" /\ \A k \in Handlers : k # g => handler'[k] = handler[k]
      BY <2>1, <2>5 DEF FetchOpen
    <3>2. \/ handler'[g] = IdleHandler
          \/ /\ handler'[g].pc = "claim"
             /\ handler'[g].dev = handler[g].dev /\ handler'[g].item = handler[g].item
      <4>1. handler[g] \in HandlerType
        BY <2>1
      <4>2. \/ handler' = [handler EXCEPT ![g] = IdleHandler]
            \/ \E inode : handler' = [handler EXCEPT ![g] =
                 [handler[g] EXCEPT !.pc = "claim", !.fd = inode, !.src = None, !.stamp = 0]]
        BY <2>5 DEF FetchOpen
      <4>3. ASSUME NEW inode, handler' = [handler EXCEPT ![g] =
                 [handler[g] EXCEPT !.pc = "claim", !.fd = inode, !.src = None, !.stamp = 0]]
            PROVE  /\ handler'[g].pc = "claim"
                   /\ handler'[g].dev = handler[g].dev /\ handler'[g].item = handler[g].item
        BY <2>1, <4>1, <4>3 DEF HandlerType
      <4>4. ASSUME handler' = [handler EXCEPT ![g] = IdleHandler] PROVE handler'[g] = IdleHandler
        BY <2>1, <4>4
      <4>5. QED
        BY <4>2, <4>3, <4>4
    <3>3. QED
      BY <2>1, <3>1, <3>2 DEF Referenced
  <2>6. ASSUME NEW g \in Handlers, FetchClaim(g) PROVE Refers
    BY <2>1, <2>6 DEF FetchClaim, HandlerType, Referenced
  <2>7. ASSUME NEW g \in Handlers, FetchServe(g) \/ FetchAborts(g) \/ AckWrite(g) PROVE Refers
    BY <2>1, <2>7 DEF FetchServe, FetchAborts, AckWrite, Referenced
  <2>8. QED
    BY <2>2, <2>3, <2>4, <2>5, <2>6, <2>7, HandlerSteps DEF Serving
<1>5. QED
  BY <1>1, <1>2, <1>3, <1>4 DEF Referenced

\* A request is for an item of its own device, from the moment it is read to its end.
LEMMA RequestedStep == IInv /\ [Next]_vars => Requested'
<1> SUFFICES ASSUME IInv, [Next]_vars, NEW h \in Handlers, handler'[h].pc # "idle"
             PROVE  /\ row'[handler'[h].item].st # "unused"
                    /\ row'[handler'[h].item].st \in Kept
                         => row'[handler'[h].item].dev = handler'[h].dev
                    /\ handler'[h].pc = "open" => handler'[h].sha = handler'[h].stamp
                    /\ handler'[h].pc = "ack" => <<handler'[h].dev, handler'[h].item>> \in held'
  BY DEF Requested
<1>1. /\ TypeOK /\ Referenced /\ Requested /\ held \subseteq held'
      /\ handler \in [Handlers -> HandlerType] /\ IdleHandler.pc = "idle"
  BY HeldKept, IdleTyped DEF IInv, TypeOK
<1> DEFINE Goal == /\ row'[handler'[h].item].st # "unused"
                   /\ row'[handler'[h].item].st \in Kept
                        => row'[handler'[h].item].dev = handler'[h].dev
                   /\ handler'[h].pc = "open" => handler'[h].sha = handler'[h].stamp
                   /\ handler'[h].pc = "ack" => <<handler'[h].dev, handler'[h].item>> \in held'
<1>2. ASSUME handler[h].pc # "idle", handler'[h].dev = handler[h].dev, handler'[h].item = handler[h].item,
             handler'[h].pc = "open" => handler'[h] = handler[h],
             handler'[h].pc = "ack" => handler'[h] = handler[h]
      PROVE  Goal
  <2>1. /\ handler[h].item \in Items /\ row[handler[h].item].st # "unused"
        /\ row[handler[h].item].st \in Kept => row[handler[h].item].dev = handler[h].dev
        /\ handler[h].pc = "open" => handler[h].sha = handler[h].stamp
        /\ handler[h].pc = "ack" => <<handler[h].dev, handler[h].item>> \in held
    BY <1>1, <1>2 DEF Requested, Referenced
  <2>2. /\ row'[handler[h].item].st # "unused"
        /\ row'[handler[h].item].st \in Kept => /\ row[handler[h].item].st \in Kept
                                                /\ row'[handler[h].item].dev = row[handler[h].item].dev
    BY <1>1, <2>1, RowsPersist
  <2>3. QED
    BY <1>1, <1>2, <2>1, <2>2
<1>3. ASSUME handler'[h] = handler[h] PROVE Goal
  BY <1>2, <1>3
<1>4. ASSUME NEW g \in Handlers, NEW d \in Devices, NEW i \in Items, FetchRead(g, d, i) PROVE Goal
  <2>1. CASE g = h
    <3>1. row' = row /\ handler'[h].pc = "open" /\ handler'[h].dev = d /\ handler'[h].item = i
          /\ handler'[h].sha = row[i].sha /\ handler'[h].stamp = row[i].stamp
      BY <1>1, <1>4, <2>1 DEF FetchRead
    <3>2. row[i].st # "unused" /\ row[i].dev = d /\ row[i].sha = row[i].stamp
      BY <1>4 DEF FetchRead, Scoped, Kept, IInv, OfferIsVerifiable
    <3>3. QED
      BY <3>1, <3>2
  <2>2. CASE g # h
    BY <1>1, <1>3, <1>4, <2>2 DEF FetchRead
  <2>3. QED
    BY <2>1, <2>2
<1>5. ASSUME NEW g \in Handlers, NEW d \in Devices, NEW i \in Items, AckRead(g, d, i) PROVE Goal
  <2>1. CASE g = h
    <3>1. row' = row /\ held' = held /\ handler'[h].pc = "ack" /\ handler'[h].dev = d /\ handler'[h].item = i
      BY <1>1, <1>5, <2>1 DEF AckRead, IdleHandler
    <3>2. row[i].st # "unused" /\ row[i].dev = d /\ <<d, i>> \in held
      BY <1>5 DEF AckRead, Scoped, Kept
    <3>3. QED
      BY <3>1, <3>2
  <2>2. CASE g # h
    BY <1>1, <1>3, <1>5, <2>2 DEF AckRead
  <2>3. QED
    BY <2>1, <2>2
<1>6. ASSUME NEW g \in Handlers, FetchOpen(g) PROVE Goal
  <2>1. CASE handler'[h] = handler[h]
    BY <1>3, <2>1
  <2>2. CASE handler'[h] # handler[h]
    <3>1. handler[h].pc = "open" /\ handler'[h] = [handler[h] EXCEPT !.pc = "claim",
                                      !.fd = disk[handler[h].src], !.src = None, !.stamp = 0]
      BY <1>1, <1>6, <2>2 DEF FetchOpen
    <3>2. handler'[h].pc = "claim" /\ handler'[h].dev = handler[h].dev /\ handler'[h].item = handler[h].item
      BY <1>1, <3>1 DEF HandlerType
    <3>3. QED
      BY <1>2, <3>1, <3>2
  <2>3. QED
    BY <2>1, <2>2
<1>7. ASSUME NEW g \in Handlers, FetchClaim(g) PROVE Goal
  <2>1. CASE g = h
    <3>1. handler[h].pc = "claim" /\ handler'[h] = [handler[h] EXCEPT !.pc = "serve"]
      BY <1>1, <1>7, <2>1 DEF FetchClaim
    <3>2. handler'[h].pc = "serve" /\ handler'[h].dev = handler[h].dev /\ handler'[h].item = handler[h].item
      BY <1>1, <3>1 DEF HandlerType
    <3>3. QED
      BY <1>2, <3>1, <3>2
  <2>2. CASE g # h
    BY <1>1, <1>3, <1>7, <2>2 DEF FetchClaim
  <2>3. QED
    BY <2>1, <2>2
<1>8. ASSUME NEW g \in Handlers, FetchServe(g) \/ FetchAborts(g) \/ AckWrite(g) PROVE Goal
  BY <1>1, <1>3, <1>8 DEF FetchServe, FetchAborts, AckWrite
<1>9. ~Restart
  BY <1>1 DEF Restart
<1>10. QED
  BY <1>3, <1>4, <1>5, <1>6, <1>7, <1>8, <1>9, HandlerSteps DEF Serving

\* A pending row the worker does not know of has a wake-up coming, unless the call that
\* was to send it failed or the ledger refused the worker.
LEMMA NotifiedStep == IInv /\ [Next]_vars => Notified'
<1> SUFFICES ASSUME IInv, [Next]_vars, NEW i \in Items, row'[i].st = "pending",
                    worker'.pc \in {"drained", "wait"}, ~wake'
             PROVE  i \in stranded' \/ \E c \in Callers : i \in add'[c].rows
  BY DEF Notified
<1>1. TypeOK /\ Referenced /\ Notified /\ add \in [Callers -> AddType]
  BY DEF IInv, TypeOK
<1> DEFINE Known == i \in stranded' \/ \E c \in Callers : i \in add'[c].rows
<1>2. CASE row[i].st \notin Kept
  BY <1>1, <1>2, RowsQueued DEF Kept
<1>3. CASE row[i].st \in Kept
  <2>1. ASSUME row' = row PROVE row[i].st = "pending"
    BY <2>1
  <2>2. ASSUME worker' = worker, wake' = wake, row[i].st = "pending"
        PROVE  i \in stranded \/ \E c \in Callers : i \in add[c].rows
    BY <1>1, <2>2 DEF Notified
  <2>3. ASSUME NEW c \in Callers, NEW d \in Devices, AddBegin(c, d) PROVE Known
    <3>1. /\ worker' = worker /\ wake' = wake /\ row' = row /\ stranded' = stranded
          /\ add[c].rows = {} /\ \A g \in Callers \ {c} : add'[g] = add[g]
      BY <1>1, <2>3 DEF AddBegin, Referenced
    <3>2. QED
      BY <2>1, <2>2, <3>1
  <2>4. ASSUME NEW c \in Callers, NEW f \in Files, AddPath(c, f) PROVE Known
    <3>1. /\ worker' = worker /\ wake' = wake /\ stranded' = stranded
          /\ \A g \in Callers : add[g].rows \subseteq add'[g].rows
      BY <1>1, <2>4 DEF AddPath, AddType
    <3>2. row[i].st = "pending"
      BY <1>1, <1>3, <2>4 DEF AddPath, TypeOK, Kept
    <3>3. QED
      BY <2>2, <3>1, <3>2
  <2>5. ASSUME NEW c \in Callers, AddFails(c) PROVE Known
    <3>1. /\ worker' = worker /\ wake' = wake /\ row' = row
          /\ stranded' = stranded \union {j \in add[c].rows : row[j].st = "pending"}
          /\ \A g \in Callers \ {c} : add'[g] = add[g]
      BY <1>1, <2>5 DEF AddFails
    <3>2. QED
      BY <2>1, <2>2, <3>1
  <2>6. ASSUME NEW c \in Callers, AddReturns(c) PROVE FALSE
    BY <2>6 DEF AddReturns
  <2>7. CASE User
    <3>1. /\ worker' = worker /\ wake' = wake /\ stranded' = stranded /\ add' = add
          /\ row'[i] = row[i] \/ row'[i] = NoRow("removed")
      BY <1>1, <2>7 DEF User, Remove, Clear, Unpair, PairAgain, TypeOK
    <3>2. QED
      BY <2>2, <3>1 DEF NoRow
  <2>8. CASE WorkerNext
    BY <2>1, <2>8 DEF WorkerNext, Pending, Sweeping
  <2>9. CASE WorkerLedgerError
    BY <2>1, <2>9 DEF WorkerLedgerError, Pending
  <2>10. CASE WorkerWaits
    BY <1>1, <2>1, <2>10 DEF WorkerWaits, Notified
  <2>11. CASE WorkerWakes \/ HashRecord \/ Restart
    BY <2>11 DEF WorkerWakes, HashRecord, Restart, Sweeping
  <2>12. CASE HashOpen \/ HashRead
    <3>1. worker \in WorkerType
      BY <1>1 DEF TypeOK
    <3>2. CASE HashRead
      BY <3>1, <3>2 DEF HashRead, WorkerType
    <3>3. CASE HashOpen /\ worker' = Sweeping
      BY <3>3 DEF Sweeping
    <3>4. CASE worker' = [worker EXCEPT !.pc = "read", !.fd = disk[worker.src],
                                        !.before = content[disk[worker.src]]]
      BY <3>1, <3>4 DEF WorkerType
    <3>5. HashOpen => \/ worker' = Sweeping
                      \/ worker' = [worker EXCEPT !.pc = "read", !.fd = disk[worker.src],
                                                  !.before = content[disk[worker.src]]]
      BY DEF HashOpen
    <3>6. QED
      BY <2>12, <3>2, <3>3, <3>4, <3>5
  <2>13. CASE Serving
    <3>1. /\ worker' = worker /\ wake' = wake /\ stranded' = stranded /\ add' = add
      BY <2>13 DEF Serving, FetchOpen, FetchClaim, FetchServe, FetchAborts, AckWrite, FetchRead, AckRead
    <3>2. row[i].st = "pending"
      <4>1. row \in [Items -> Row]
        BY <1>1 DEF TypeOK
      <4>2. ASSUME NEW j, row' = Fail(j) PROVE row[i].st = "pending"
        BY <4>1, <4>2 DEF Fail, Row
      <4>3. ASSUME NEW d, NEW j, row' = Claim(d, j) PROVE row[i].st = "pending"
        BY <4>1, <4>3 DEF Claim, Row
      <4>4. ASSUME NEW d, NEW j, row' = Deliver(d, j) PROVE row[i].st = "pending"
        BY <4>1, <4>4 DEF Deliver, Row
      <4>5. \/ row' = row
            \/ \E j : row' = Fail(j)
            \/ \E d, j : row' = Claim(d, j)
            \/ \E d, j : row' = Deliver(d, j)
        BY <2>13 DEF Serving, FetchOpen, FetchClaim, FetchServe, FetchAborts, AckWrite, FetchRead, AckRead
      <4>6. QED
        BY <2>1, <4>2, <4>3, <4>4, <4>5
    <3>3. QED
      BY <2>2, <3>1, <3>2
  <2>14. CASE Disk \/ UNCHANGED vars
    <3>1. /\ worker' = worker /\ wake' = wake /\ stranded' = stranded /\ add' = add /\ row' = row
      BY <2>14 DEF Disk, WriteNew, WriteInPlace, Delete, vars
    <3>2. QED
      BY <2>1, <2>2, <3>1
  <2>15. QED
    BY <2>3, <2>4, <2>5, <2>6, <2>7, <2>8, <2>9, <2>10, <2>11, <2>12, <2>13, <2>14
    DEF Next, Worker, Queueing
<1>4. QED
  BY <1>2, <1>3

-----------------------------------------------------------------------------
(* The theorems.                                                           *)

\* Nothing has been queued, written or hashed yet.
LEMMA InitIInv == Init => IInv
<1> SUFFICES ASSUME Init PROVE IInv
  OBVIOUS
<1> USE IdleTyped, OutboxAssumption DEF Init
<1>1. 0 \in Versions
  BY DEF Versions
<1>2. NoRow("unused") \in Row /\ NoRow("unused").st = "unused" /\ NoRow("unused").sha = NoRow("unused").stamp
  BY NoRowTyped DEF NoRow
<1>3. TypeOK
  BY <1>1, <1>2 DEF TypeOK
<1>4. Referenced
  BY <1>2 DEF Referenced, Kept
<1>5. Clocked
  BY <1>1 DEF Clocked
<1>6. Hashed
  BY DEF Hashed
<1>7. OfferIsVerifiable /\ DeliveredIsHeld /\ Notified
  BY <1>2 DEF OfferIsVerifiable, DeliveredIsHeld, Notified, OnOffer
<1>8. Requested /\ Collected
  BY DEF Requested, Collected
<1>9. QED
  BY <1>3, <1>4, <1>5, <1>6, <1>7, <1>8 DEF IInv

\* The conjunction of the parts is inductive.
LEMMA InvStep == IInv /\ [Next]_vars => IInv'
  BY TypeStep, ReferencedStep, ClockedStep, HashedStep, VerifiableStep, RequestedStep,
     CollectedStep, DeliveredStep, NotifiedStep
  DEF IInv

\* Every reachable state of the outbox satisfies the inductive invariant.
THEOREM Invariance == Spec => []IInv
  BY InitIInv, InvStep, PTL DEF Spec

\* The variables of the outbox always hold values of their types.
THEOREM TypeCorrect == Spec => []TypeOK
<1>1. IInv => TypeOK
  BY DEF IInv
<1>2. QED
  BY <1>1, Invariance, PTL

\* A row is offered only with the digest of the version it records, however writes to
\* the file interleave with the two looks and the read of hashFile.
THEOREM OffersAreVerifiable == Spec => []OfferIsVerifiable
<1>1. IInv => OfferIsVerifiable
  BY DEF IInv
<1>2. QED
  BY <1>1, Invariance, PTL

\* No interleaving of downloads, refusals, acknowledgements and removals marks a row
\* delivered that its phone does not hold.
THEOREM DeliveriesAreHeld == Spec => []DeliveredIsHeld
<1>1. IInv => DeliveredIsHeld
  BY DEF IInv
<1>2. QED
  BY <1>1, Invariance, PTL

\* No phone collects what was queued for another, whichever ids its requests name.
THEOREM OwnersCollect == Spec => []OnlyTheOwnerCollects
<1>1. IInv => OnlyTheOwnerCollects
  BY DEF IInv, Collected, OnlyTheOwnerCollects
<1>2. QED
  BY <1>1, Invariance, PTL

\* The buffered channel of capacity one loses no wake-up, for any number of calls of Add.
THEOREM WakeUpsReachTheWorker == Spec => []NoLostWakeUp
<1>1. IInv => NoLostWakeUp
  BY DEF IInv, Notified, NoLostWakeUp
<1>2. QED
  BY <1>1, Invariance, PTL

\* What Open hands over are the bytes of the digest the row was offered with.
THEOREM ServedBytesMatch == Spec => ServedMatchesDigest
<1>1. ASSUME IInv, [Next]_vars, NEW h \in Handlers, handler[h].pc = "open", handler'[h].pc = "claim"
      PROVE  content[handler'[h].fd] = handler[h].sha
  <2>1. handler \in [Handlers -> HandlerType] /\ handler[h].sha = handler[h].stamp
    BY <1>1 DEF IInv, TypeOK, Requested
  <2>2. ASSUME NEW g \in Handlers, NEW d \in Devices, NEW i \in Items, FetchRead(g, d, i) \/ AckRead(g, d, i)
        PROVE  handler'[h] = handler[h]
    BY <1>1, <2>1, <2>2 DEF FetchRead, AckRead
  <2>3. ASSUME NEW g \in Handlers, FetchClaim(g) \/ FetchServe(g) \/ FetchAborts(g) \/ AckWrite(g)
        PROVE  handler'[h].pc # "claim"
    BY <1>1, <2>1, <2>3, IdleTyped DEF FetchClaim, FetchServe, FetchAborts, AckWrite
  <2>4. ASSUME NEW g \in Handlers, FetchOpen(g) PROVE content[handler'[h].fd] = handler[h].sha
    <3>1. g = h /\ SameFile(disk[handler[h].src], handler[h].stamp)
          /\ handler'[h] = [handler[h] EXCEPT !.pc = "claim", !.fd = disk[handler[h].src],
                                               !.src = None, !.stamp = 0]
      BY <1>1, <2>1, <2>4, IdleTyped DEF FetchOpen
    <3>2. handler'[h].fd = disk[handler[h].src]
      BY <2>1, <3>1 DEF HandlerType
    <3>3. QED
      BY <2>1, <3>1, <3>2 DEF SameFile
  <2>5. handler' # handler /\ ~Restart
    BY <1>1, IdleTyped DEF Restart
  <2>6. QED
    BY <1>1, <2>2, <2>3, <2>4, <2>5, HandlerSteps DEF Serving
<1>2. IInv /\ [Next]_vars =>
        [\A h \in Handlers : handler[h].pc = "open" /\ handler'[h].pc = "claim"
           => content[handler'[h].fd] = handler[h].sha]_vars
  BY <1>1
<1>3. QED
  BY <1>2, Invariance, PTL DEF Spec, ServedMatchesDigest

-----------------------------------------------------------------------------
(***************************************************************************)
(* The outbox implements the abstract offer.  The mapping needs four       *)
(* facts more than the invariants: what the worker has in hand is pending  *)
(* or gone, so that its failure spoils a pending item and no other; what a *)
(* request is for or a phone holds is past pending, so that no refusal or  *)
(* acknowledgement takes it from there; and a row that was never inserted  *)
(* has no digest to show.                                                  *)

Preparing ==
  worker.pc \in {"open", "read", "record"} => row[worker.item].st \in {"pending", "removed"}

Started == \A h \in Handlers : handler[h].pc # "idle" => row[handler[h].item].st # "pending"

Received == \A p \in held : row[p[2]].st # "pending"

Fresh == \A i \in Items : row[i].st = "unused" => row[i].sha = 0

OfferInv == IInv /\ Preparing /\ Started /\ Received /\ Fresh

\* No statement makes a row pending but the INSERT, and an id that was not used yet is
\* left alone until then.
LEMMA RowsAdvance ==
  ASSUME TypeOK, Referenced, [Next]_vars, NEW i \in Items
  PROVE  /\ row[i].st \notin {"unused", "pending"} => row'[i].st # "pending"
         /\ row'[i].st = "unused" => row'[i] = row[i]
<1> DEFINE Advances == /\ row[i].st \notin {"unused", "pending"} => row'[i].st # "pending"
                       /\ row'[i].st = "unused" => row'[i] = row[i]
<1>1. Written /\ row \in [Items -> Row] /\ row[i] \in Row
  BY RowsWritten DEF TypeOK
<1>2. ASSUME row'[i] = row[i] \/ row'[i] = NoRow("removed") PROVE Advances
  BY <1>2 DEF NoRow
<1>3. ASSUME NEW j \in Items, row' = Fail(j) PROVE Advances
  BY <1>1, <1>3 DEF Fail, Row, Kept
<1>4. ASSUME row' = RecordDigest(worker.item, worker.digest, content[worker.fd]) PROVE Advances
  BY <1>1, <1>4 DEF RecordDigest, Row
<1>5. ASSUME NEW d, NEW j, row' = Claim(d, j) PROVE Advances
  BY <1>1, <1>5 DEF Claim, Row
<1>6. ASSUME NEW d, NEW j, row' = Deliver(d, j) PROVE Advances
  BY <1>1, <1>6 DEF Deliver, Scoped, Row
<1>7. ASSUME NEW j \in Items, row' = [row EXCEPT ![j] = NoRow("removed")] PROVE Advances
  BY <1>1, <1>2, <1>7
<1>8. ASSUME NEW d \in Devices,
             row' = [j \in Items |-> IF j \in Finished(d) THEN NoRow("removed") ELSE row[j]]
      PROVE  Advances
  BY <1>2, <1>8
<1>9. ASSUME NEW j \in Items, NEW d, NEW f, row[j].st = "unused",
             row' = [row EXCEPT ![j] = NewRow(d, f)]
      PROVE  Advances
  <2>1. CASE i = j
    BY <1>1, <1>9, <2>1 DEF NewRow, NoRow
  <2>2. CASE i # j
    BY <1>1, <1>2, <1>9, <2>2
  <2>3. QED
    BY <2>1, <2>2
<1>10. QED
  BY <1>1, <1>2, <1>3, <1>4, <1>5, <1>6, <1>7, <1>8, <1>9 DEF Written


\* A request is made for a row that is past pending, or for one the phone holds, and
\* rows do not go back.
LEMMA StartedStep == IInv /\ Started /\ Received /\ [Next]_vars => Started'
<1> SUFFICES ASSUME IInv, Started, Received, [Next]_vars, NEW h \in Handlers, handler'[h].pc # "idle"
             PROVE  row'[handler'[h].item].st # "pending"
  BY DEF Started
<1>1. /\ TypeOK /\ Referenced /\ Requested
      /\ handler \in [Handlers -> HandlerType] /\ IdleHandler.pc = "idle"
  BY IdleTyped DEF IInv, TypeOK
<1> DEFINE Past == row'[handler'[h].item].st # "pending"
<1>2. ASSUME handler[h].pc # "idle", handler'[h].item = handler[h].item PROVE Past
  <2>1. handler[h].item \in Items /\ row[handler[h].item].st \notin {"unused", "pending"}
    BY <1>1, <1>2 DEF Requested, Referenced, Started
  <2>2. QED
    BY <1>1, <1>2, <2>1, RowsAdvance
<1>3. ASSUME handler'[h] = handler[h] PROVE Past
  BY <1>2, <1>3
<1>4. ASSUME NEW g \in Handlers, NEW d \in Devices, NEW i \in Items, FetchRead(g, d, i) PROVE Past
  <2>1. CASE g = h
    <3>1. row' = row /\ handler'[h].item = i
      BY <1>1, <1>4, <2>1 DEF FetchRead
    <3>2. QED
      BY <1>4, <3>1 DEF FetchRead, Ready, OnOffer
  <2>2. CASE g # h
    BY <1>1, <1>3, <1>4, <2>2 DEF FetchRead
  <2>3. QED
    BY <2>1, <2>2
<1>5. ASSUME NEW g \in Handlers, NEW d \in Devices, NEW i \in Items, AckRead(g, d, i) PROVE Past
  <2>1. CASE g = h
    <3>1. row' = row /\ handler'[h].item = i
      BY <1>1, <1>5, <2>1 DEF AckRead, IdleHandler
    <3>2. QED
      BY <1>5, <3>1 DEF AckRead, Received
  <2>2. CASE g # h
    BY <1>1, <1>3, <1>5, <2>2 DEF AckRead
  <2>3. QED
    BY <2>1, <2>2
<1>6. ASSUME NEW g \in Handlers, FetchOpen(g) PROVE Past
  <2>1. CASE handler'[h] = handler[h]
    BY <1>3, <2>1
  <2>2. CASE handler'[h] # handler[h]
    <3>1. handler[h].pc = "open" /\ handler'[h] = [handler[h] EXCEPT !.pc = "claim",
                                      !.fd = disk[handler[h].src], !.src = None, !.stamp = 0]
      BY <1>1, <1>6, <2>2 DEF FetchOpen
    <3>2. handler'[h].item = handler[h].item
      BY <1>1, <3>1 DEF HandlerType
    <3>3. QED
      BY <1>2, <3>1, <3>2
  <2>3. QED
    BY <2>1, <2>2
<1>7. ASSUME NEW g \in Handlers, FetchClaim(g) PROVE Past
  <2>1. CASE g = h
    <3>1. handler[h].pc = "claim" /\ handler'[h] = [handler[h] EXCEPT !.pc = "serve"]
      BY <1>1, <1>7, <2>1 DEF FetchClaim
    <3>2. handler'[h].item = handler[h].item
      BY <1>1, <3>1 DEF HandlerType
    <3>3. QED
      BY <1>2, <3>1, <3>2
  <2>2. CASE g # h
    BY <1>1, <1>3, <1>7, <2>2 DEF FetchClaim
  <2>3. QED
    BY <2>1, <2>2
<1>8. ASSUME NEW g \in Handlers, FetchServe(g) \/ FetchAborts(g) \/ AckWrite(g) PROVE Past
  BY <1>1, <1>3, <1>8 DEF FetchServe, FetchAborts, AckWrite
<1>9. ~Restart
  BY <1>1 DEF Restart
<1>10. QED
  BY <1>3, <1>4, <1>5, <1>6, <1>7, <1>8, <1>9, HandlerSteps DEF Serving

\* What a phone holds it got from a request.
LEMMA ReceivedStep == IInv /\ Started /\ Received /\ [Next]_vars => Received'
<1> SUFFICES ASSUME IInv, Started, Received, [Next]_vars, NEW p \in held'
             PROVE  row'[p[2]].st # "pending"
  BY DEF Received
<1>1. TypeOK /\ Referenced /\ Collected
  BY DEF IInv
<1>2. CASE p \in held
  <2>1. p \in Devices \X Items /\ row[p[2]].st \notin {"unused", "pending"}
    BY <1>1, <1>2 DEF TypeOK, Collected, Received
  <2>2. p[2] \in Items
    BY <2>1
  <2>3. QED
    BY <1>1, <2>1, <2>2, RowsAdvance
<1>3. ASSUME NEW h \in Handlers, FetchServe(h), p \notin held
      PROVE  row' = row /\ handler[h].pc # "idle" /\ p = <<handler[h].dev, handler[h].item>>
  BY <1>3 DEF FetchServe
<1>4. QED
  BY <1>2, <1>3, HeldGrows DEF Started

\* An id that is still unused is as it was.
LEMMA FreshStep == IInv /\ Fresh /\ [Next]_vars => Fresh'
<1> SUFFICES ASSUME IInv, Fresh, [Next]_vars, NEW i \in Items, row'[i].st = "unused"
             PROVE  row'[i].sha = 0
  BY DEF Fresh
<1> QED
  BY RowsAdvance DEF IInv, Fresh

\* Only the worker takes a row from pending to anything but removed, and it has one row
\* in hand at a time.
LEMMA PreparingStep == IInv /\ Started /\ Preparing /\ [Next]_vars => Preparing'
<1> SUFFICES ASSUME IInv, Started, Preparing, [Next]_vars,
                    worker'.pc \in {"open", "read", "record"}
             PROVE  row'[worker'.item].st \in {"pending", "removed"}
  BY DEF Preparing
<1>1. /\ TypeOK /\ Referenced /\ row \in [Items -> Row] /\ worker \in WorkerType
      /\ Sweeping.pc = "next" /\ Waiting.pc = "wait"
  BY IdleTyped DEF IInv, TypeOK
<1> DEFINE Prepares == row'[worker'.item].st \in {"pending", "removed"}
<1>2. ASSUME row' = row, worker'.item = worker.item, worker.pc \in {"open", "read", "record"}
      PROVE  Prepares
  BY <1>2 DEF Preparing
<1>3. CASE Worker \/ WorkerLedgerError \/ Restart
  <2>1. CASE WorkerNext
    <3>1. PICK i \in Pending : worker' = [Sweeping EXCEPT !.pc = "open", !.item = i, !.src = row[i].src]
      BY <2>1 DEF WorkerNext, Sweeping
    <3>2. row' = row /\ worker'.item = i
      BY <2>1, <3>1 DEF WorkerNext, Sweeping
    <3>3. QED
      BY <3>2 DEF Pending
  <2>2. CASE HashOpen
    <3>1. worker.pc = "open" /\ row' = row
          /\ worker' = [worker EXCEPT !.pc = "read", !.fd = disk[worker.src],
                                      !.before = content[disk[worker.src]]]
      BY <1>1, <2>2 DEF HashOpen
    <3>2. worker'.item = worker.item
      BY <1>1, <3>1 DEF WorkerType
    <3>3. QED
      BY <1>2, <3>1, <3>2
  <2>3. CASE HashRead
    <3>1. worker'.item = worker.item
      BY <1>1, <2>3 DEF HashRead, WorkerType
    <3>2. QED
      BY <1>2, <2>3, <3>1 DEF HashRead
  <2>4. ~(WorkerWaits \/ WorkerWakes \/ HashRecord \/ WorkerLedgerError \/ Restart)
    BY <1>1 DEF WorkerWaits, WorkerWakes, HashRecord, WorkerLedgerError, Restart, Sweeping
  <2>5. QED
    BY <1>3, <2>1, <2>2, <2>3, <2>4 DEF Worker
<1>4. CASE worker' = worker
  <2> DEFINE i == worker.item
  <2>1. i \in Items /\ row[i].st \in {"pending", "removed"} /\ worker.pc \in {"open", "read", "record"}
    BY <1>1, <1>4 DEF Preparing, Referenced
  <2>2. CASE row[i].st = "removed"
    <3>1. row'[i].st \notin Kept /\ row'[i].st # "unused"
      BY <1>1, <2>1, <2>2, RowsPersist DEF Kept
    <3>2. row'[i] \in Row
      BY <2>1, <1>1, TypeStep DEF TypeOK
    <3>3. QED
      BY <1>4, <3>1, <3>2 DEF Row
  <2>3. CASE row[i].st = "pending"
    <3>1. ASSUME row'[i] = row[i] \/ row'[i] = NoRow("removed") PROVE Prepares
      BY <1>4, <2>3, <3>1 DEF NoRow
    <3>2. ASSUME NEW h \in Handlers, handler[h].pc # "idle" PROVE handler[h].item # i
      BY <2>3, <3>2 DEF Started
    <3>3. ASSUME NEW h \in Handlers, FetchOpen(h) \/ FetchClaim(h) \/ AckWrite(h) PROVE row'[i] = row[i]
      <4>1. handler[h].item # i
        BY <3>2, <3>3 DEF FetchOpen, FetchClaim, AckWrite
      <4>2. \/ row' = row \/ row' = Fail(handler[h].item)
            \/ row' = Claim(handler[h].dev, handler[h].item)
            \/ row' = Deliver(handler[h].dev, handler[h].item)
        BY <3>3 DEF FetchOpen, FetchClaim, AckWrite
      <4>3. QED
        BY <1>1, <2>1, <4>1, <4>2 DEF Fail, Claim, Deliver
    <3>4. CASE Serving
      <4>1. ASSUME NEW h \in Handlers, NEW d \in Devices, NEW j \in Items,
                   FetchRead(h, d, j) \/ AckRead(h, d, j)
            PROVE  row' = row
        BY <4>1 DEF FetchRead, AckRead
      <4>2. ASSUME NEW h \in Handlers, FetchServe(h) \/ FetchAborts(h) PROVE row' = row
        BY <4>2 DEF FetchServe, FetchAborts
      <4>3. QED
        BY <3>1, <3>3, <3>4, <4>1, <4>2 DEF Serving
    <3>5. CASE User
      BY <1>1, <2>1, <3>1, <3>5 DEF User, Remove, Clear, Unpair, PairAgain
    <3>6. CASE Queueing
      <4>1. ASSUME NEW c \in Callers, NEW f \in Files, AddPath(c, f) PROVE row'[i] = row[i]
        BY <1>1, <2>3, <4>1 DEF AddPath
      <4>2. ASSUME NEW c \in Callers,
                   (\E d \in Devices : AddBegin(c, d)) \/ AddFails(c) \/ AddReturns(c)
            PROVE  row' = row
        BY <4>2 DEF AddBegin, AddFails, AddReturns
      <4>3. QED
        BY <3>1, <3>6, <4>1, <4>2 DEF Queueing
    <3>7. CASE Disk \/ UNCHANGED vars
      BY <3>1, <3>7 DEF Disk, WriteNew, WriteInPlace, Delete, vars
    <3>8. CASE Worker \/ WorkerLedgerError \/ Restart
      BY <1>3, <3>8
    <3>9. QED
      BY <3>4, <3>5, <3>6, <3>7, <3>8 DEF Next
  <2>4. QED
    BY <2>1, <2>2, <2>3
<1>5. QED
  BY <1>3, <1>4, WorkerSteps

-----------------------------------------------------------------------------
(* What the offer sees of the outbox: the expressions Promise puts for the *)
(* variables of Offer.                                                     *)

ShownSt     == [i \in Items |-> row[i].st]
ShownDev    == [i \in Items |-> row[i].dev]
ShownDigest == [i \in Items |-> IF row[i].sha = 0 THEN None ELSE row[i].sha]
Fetching    == {"open", "claim", "serve"}
Busy        == {<<handler[h].dev, handler[h].item>> : h \in {g \in Handlers : handler[g].pc \in Fetching}}

\* An UPDATE of the state alone shows nothing else.
LEMMA StateShown ==
  ASSUME row \in [Items -> Row], NEW i \in Items, NEW s, row' = [row EXCEPT ![i].st = s]
  PROVE  /\ ShownSt' = [ShownSt EXCEPT ![i] = s]
         /\ UNCHANGED <<ShownDev, ShownDigest>>
<1>1. ASSUME NEW j \in Items PROVE row'[j].dev = row[j].dev /\ row'[j].sha = row[j].sha
  BY <1>1 DEF Row
<1>2. ASSUME NEW j \in Items PROVE row'[j].st = IF j = i THEN s ELSE row[j].st
  BY <1>2 DEF Row
<1>3. UNCHANGED <<ShownDev, ShownDigest>>
  BY <1>1 DEF ShownDev, ShownDigest
<1>4. ShownSt' = [ShownSt EXCEPT ![i] = s]
  BY <1>2 DEF ShownSt
<1>5. QED
  BY <1>3, <1>4

\* Nothing the offer can see has changed.
Unseen == UNCHANGED <<ShownSt, ShownDev, ShownDigest, Busy, held>>

\* A step that writes no row shows none.
LEMMA RowsUnseen == row' = row => UNCHANGED <<ShownSt, ShownDev, ShownDigest>>
  BY DEF ShownSt, ShownDev, ShownDigest

\* A step that moves no request shows none.
LEMMA HandlersUnseen == handler' = handler => Busy' = Busy
  BY DEF Busy

\* Promise puts exactly these expressions for the variables of Offer.
LEMMA UnseenStutters == Unseen => UNCHANGED Promise!offerVars
  BY DEF Unseen, Promise!offerVars, ShownSt, ShownDev, ShownDigest, Busy, Fetching

\* A request that begins adds its pair.
LEMMA BusyBegins ==
  ASSUME handler \in [Handlers -> HandlerType], NEW h \in Handlers, handler[h].pc = "idle",
         NEW r, handler' = [handler EXCEPT ![h] = r]
  PROVE  Busy' = IF r.pc \in Fetching THEN Busy \union {<<r.dev, r.item>>} ELSE Busy
<1>1. \A g \in Handlers : handler'[g] = IF g = h THEN r ELSE handler[g]
  OBVIOUS
<1>2. handler[h].pc \notin Fetching
  BY DEF Fetching
<1>3. QED
  BY <1>1, <1>2 DEF Busy

\* A request that goes on keeps it.
LEMMA BusyGoesOn ==
  ASSUME handler \in [Handlers -> HandlerType], NEW h \in Handlers, handler[h].pc \in Fetching,
         NEW r, handler' = [handler EXCEPT ![h] = r],
         r.pc \in Fetching, r.dev = handler[h].dev, r.item = handler[h].item
  PROVE  Busy' = Busy
<1>1. \A g \in Handlers : handler'[g] = IF g = h THEN r ELSE handler[g]
  OBVIOUS
<1>2. QED
  BY <1>1 DEF Busy

\* A request that ends takes its pair away, unless another one is for the same.
LEMMA BusyEnds ==
  ASSUME handler \in [Handlers -> HandlerType], NEW h \in Handlers,
         handler' = [handler EXCEPT ![h] = IdleHandler]
  PROVE  Busy' \in {Busy, Busy \ {<<handler[h].dev, handler[h].item>>}}
<1> DEFINE p == <<handler[h].dev, handler[h].item>>
<1>1. \A g \in Handlers : handler'[g] = IF g = h THEN IdleHandler ELSE handler[g]
  OBVIOUS
<1>2. IdleHandler.pc \notin Fetching
  BY IdleTyped DEF Fetching
<1>3. Busy' \subseteq Busy /\ Busy \ {p} \subseteq Busy'
  BY <1>1, <1>2 DEF Busy
<1>4. QED
  BY <1>3

-----------------------------------------------------------------------------
(* The steps.                                                              *)

OfferStep == [Promise!Next]_(Promise!offerVars)

\* A step the offer cannot see is a step of it.
LEMMA UnseenSteps == Unseen => OfferStep
  BY UnseenStutters DEF OfferStep

\* An action of Offer is a step of it.
LEMMA OfferActs ==
  /\ \A i \in Items :
       /\ \A d \in Devices :
            Promise!Queue(i, d) \/ Promise!Serve(d, i) \/ Promise!Claim(d, i) \/ Promise!Abort(d, i)
            \/ Promise!Collect(d, i) \/ Promise!Refuse(d, i) \/ Promise!Acknowledge(d, i)
              => OfferStep
       /\ \A v \in 1..MaxVersion : Promise!Prepare(i, v) => OfferStep
       /\ Promise!Spoil(i) => OfferStep
  /\ \A S \in SUBSET Items : Promise!Drop(S) => OfferStep
  /\ Promise!Crash => OfferStep
<1>1. Promise!Next => OfferStep
  BY DEF OfferStep
<1>2. ASSUME NEW i \in Items, NEW d \in Devices,
            Promise!Queue(i, d) \/ Promise!Serve(d, i) \/ Promise!Claim(d, i) \/ Promise!Abort(d, i)
            \/ Promise!Collect(d, i) \/ Promise!Refuse(d, i) \/ Promise!Acknowledge(d, i)
      PROVE Promise!Next
  BY <1>2 DEF Promise!Next
<1>3. ASSUME NEW i \in Items, NEW v \in 1..MaxVersion, Promise!Prepare(i, v) PROVE Promise!Next
  BY <1>3 DEF Promise!Next
<1>4. ASSUME NEW i \in Items, Promise!Spoil(i) PROVE Promise!Next
  BY <1>4 DEF Promise!Next
<1>5. ASSUME NEW S \in SUBSET Items, Promise!Drop(S) PROVE Promise!Next
  BY <1>5 DEF Promise!Next
<1>6. Promise!Crash => Promise!Next
  BY DEF Promise!Next
<1>7. QED
  BY <1>1, <1>2, <1>3, <1>4, <1>5, <1>6

\* The INSERT of Add queues an item.
LEMMA AddPathQueues ==
  ASSUME OfferInv, NEW c \in Callers, NEW f \in Files, AddPath(c, f)
  PROVE  OfferStep
<1>1. PICK i \in Items : row[i].st = "unused" /\ row' = [row EXCEPT ![i] = NewRow(add[c].dev, f)]
  BY DEF AddPath
<1>2. row \in [Items -> Row] /\ add[c].dev \in Devices /\ row[i].sha = 0
  BY <1>1 DEF OfferInv, IInv, TypeOK, Referenced, AddPath, Fresh
<1>3. PICK d \in Devices : d = add[c].dev
  BY <1>2
<1>4. PICK r : r = NewRow(d, f)
  OBVIOUS
<1>5. r.st = "pending" /\ r.dev = d /\ None = IF r.sha = 0 THEN None ELSE r.sha
  BY <1>4 DEF NewRow, NoRow
<1>6. row' = [row EXCEPT ![i] = r]
  BY <1>1, <1>3, <1>4
<1>7. /\ ShownSt' = [ShownSt EXCEPT ![i] = "pending"]
      /\ ShownDev' = [ShownDev EXCEPT ![i] = d]
      /\ ShownDigest' = [ShownDigest EXCEPT ![i] = None]
  BY <1>2, <1>5, <1>6 DEF ShownSt, ShownDev, ShownDigest
<1>8. ShownSt[i] = "unused" /\ ShownDigest' = ShownDigest
  BY <1>1, <1>2, <1>7 DEF ShownSt, ShownDigest
<1>9. Busy' = Busy /\ held' = held
  BY HandlersUnseen DEF AddPath
<1>10. Promise!Queue(i, d)
  BY <1>7, <1>8, <1>9 DEF Promise!Queue, ShownSt, ShownDev, ShownDigest, Busy, Fetching
<1>11. QED
  BY <1>10, OfferActs

\* A file that cannot be hashed spoils its item, or it is gone already.
LEMMA FailSpoils ==
  ASSUME OfferInv, worker.pc \in {"open", "record"}, row' = Fail(worker.item),
         UNCHANGED <<handler, held>>
  PROVE  OfferStep
<1>1. PICK i \in Items : i = worker.item
  BY DEF OfferInv, IInv, Referenced
<1>2. row \in [Items -> Row] /\ row[i].st \in {"pending", "removed"}
  BY <1>1 DEF OfferInv, IInv, TypeOK, Preparing
<1>3. CASE row[i].st = "removed"
  BY <1>1, <1>3, RowsUnseen, HandlersUnseen, UnseenSteps DEF Fail, Kept, Unseen
<1>4. CASE row[i].st = "pending"
  <2>1. row' = [row EXCEPT ![i].st = "failed"]
    BY <1>1, <1>4 DEF Fail, Kept
  <2>2. ShownSt' = [ShownSt EXCEPT ![i] = "failed"] /\ UNCHANGED <<ShownDev, ShownDigest>>
    BY <1>2, <2>1, StateShown
  <2>3. ShownSt[i] = "pending" /\ Busy' = Busy /\ held' = held
    BY <1>4, HandlersUnseen DEF ShownSt
  <2>4. Promise!Spoil(i)
    BY <2>2, <2>3 DEF Promise!Spoil, ShownSt, ShownDev, ShownDigest, Busy, Fetching
  <2>5. QED
    BY <2>4, OfferActs
<1>5. QED
  BY <1>2, <1>3, <1>4

\* A file that is gone when it is to be hashed spoils its item.
LEMMA HashOpenSpoils ==
  ASSUME OfferInv, HashOpen
  PROVE  OfferStep
<1>1. CASE row' = Fail(worker.item)
  BY <1>1, FailSpoils DEF HashOpen
<1>2. CASE row' = row
  BY <1>2, RowsUnseen, HandlersUnseen, UnseenSteps DEF HashOpen, Unseen
<1>3. QED
  BY <1>1, <1>2 DEF HashOpen

\* A hash that is recorded prepares its item, with a digest.
LEMMA HashRecordPrepares ==
  ASSUME OfferInv, HashRecord
  PROVE  OfferStep
<1>1. PICK i \in Items : i = worker.item
  BY DEF OfferInv, IInv, Referenced, HashRecord
<1>2. /\ row \in [Items -> Row] /\ row[i].st \in {"pending", "removed"} /\ row[i] \in Row
      /\ UNCHANGED <<handler, held>>
  BY <1>1 DEF OfferInv, IInv, TypeOK, Preparing, HashRecord
<1>3. CASE ~Unchanged(worker)
  BY <1>2, <1>3, FailSpoils DEF HashRecord
<1>4. CASE Unchanged(worker) /\ row[i].st = "removed"
  BY <1>1, <1>2, <1>4, RowsUnseen, HandlersUnseen, UnseenSteps DEF HashRecord, RecordDigest, Unseen
<1>5. CASE Unchanged(worker) /\ row[i].st = "pending"
  <2>1. PICK v \in Versions, t \in Versions : v = worker.digest /\ t = content[worker.fd]
    BY DEF OfferInv, IInv, TypeOK, WorkerType
  <2>2. worker.before \in Nat /\ worker.before # 0 /\ worker.before <= v /\ v <= t /\ t = worker.before
    BY <1>5, <2>1 DEF OfferInv, IInv, TypeOK, WorkerType, Versions, Hashed, HashRecord, Unchanged
  <2>3. v \in 1..MaxVersion
    BY <2>1, <2>2, OutboxAssumption DEF Versions
  <2>4. PICK r : r = [row[i] EXCEPT !.st = "ready", !.sha = v, !.stamp = t]
    OBVIOUS
  <2>5. r.st = "ready" /\ r.dev = row[i].dev /\ r.sha = v
    BY <1>2, <2>4 DEF Row
  <2>6. row' = [row EXCEPT ![i] = r]
    BY <1>1, <1>2, <1>5, <2>1, <2>4 DEF HashRecord, RecordDigest
  <2>7. v # 0
    BY <2>3
  <2>8. \A j \in Items : row'[j] = IF j = i THEN r ELSE row[j]
    BY <1>2, <2>6
  <2>9. ShownSt' = [ShownSt EXCEPT ![i] = "ready"]
    BY <2>5, <2>8 DEF ShownSt
  <2>10. ShownDigest' = [ShownDigest EXCEPT ![i] = v]
    BY <2>5, <2>7, <2>8 DEF ShownDigest
  <2>11. ShownDev' = ShownDev
    BY <2>5, <2>8 DEF ShownDev
  <2>12. ShownSt[i] = "pending" /\ Busy' = Busy /\ held' = held
    BY <1>2, <1>5, HandlersUnseen DEF ShownSt
  <2>13. Promise!Prepare(i, v)
    BY <2>9, <2>10, <2>11, <2>12 DEF Promise!Prepare, ShownSt, ShownDev, ShownDigest, Busy, Fetching
  <2>14. QED
    BY <2>3, <2>13, OfferActs
<1>6. QED
  BY <1>2, <1>3, <1>4, <1>5

\* A request that reads a row on offer serves it.
LEMMA FetchReadServes ==
  ASSUME OfferInv, NEW h \in Handlers, NEW d \in Devices, NEW i \in Items, FetchRead(h, d, i)
  PROVE  OfferStep
<1>1. handler \in [Handlers -> HandlerType] /\ handler[h].pc = "idle" /\ row' = row /\ held' = held
  BY DEF OfferInv, IInv, TypeOK, FetchRead
<1>2. PICK r : r = [pc |-> "open", dev |-> d, item |-> i, src |-> row[i].src, sha |-> row[i].sha,
                    stamp |-> row[i].stamp, fd |-> 0]
  OBVIOUS
<1>3. handler' = [handler EXCEPT ![h] = r] /\ r.pc \in Fetching /\ r.dev = d /\ r.item = i
  BY <1>2 DEF FetchRead, Fetching
<1>4. Busy' = Busy \union {<<d, i>>}
  BY <1>1, <1>3, BusyBegins
<1>5. ShownSt[i] \in {"ready", "claimed"} /\ ShownDev[i] = d
  BY DEF FetchRead, Ready, OnOffer, Scoped, ShownSt, ShownDev
<1>6. UNCHANGED <<ShownSt, ShownDev, ShownDigest>>
  BY <1>1, RowsUnseen
<1>7. Promise!Serve(d, i)
  BY <1>1, <1>4, <1>5, <1>6
  DEF Promise!Serve, Promise!Servable, ShownSt, ShownDev, ShownDigest, Busy, Fetching
<1>8. QED
  BY <1>7, OfferActs

\* What a request under way stands for in the offer.
LEMMA Underway ==
  ASSUME OfferInv, NEW h \in Handlers, handler[h].pc \in Fetching
  PROVE  \E d \in Devices, i \in Items :
           /\ d = handler[h].dev /\ i = handler[h].item /\ <<d, i>> \in Busy
           /\ row[i].st \notin {"unused", "pending"}
           /\ row[i].st \in Kept => row[i].dev = d
<1>1. handler[h].pc # "idle"
  BY DEF Fetching
<1>2. handler[h].dev \in Devices /\ handler[h].item \in Items
  BY <1>1 DEF OfferInv, IInv, Referenced
<1>3. <<handler[h].dev, handler[h].item>> \in Busy
  BY DEF Busy
<1>4. QED
  BY <1>1, <1>2, <1>3 DEF OfferInv, IInv, Requested, Started

\* A request whose file is gone or changed is refused; one for a row that is gone ends.
LEMMA FetchOpenRefuses ==
  ASSUME OfferInv, NEW h \in Handlers, FetchOpen(h)
  PROVE  OfferStep
<1>1. /\ handler \in [Handlers -> HandlerType] /\ row \in [Items -> Row] /\ held' = held
      /\ handler[h].pc = "open"
  BY DEF OfferInv, IInv, TypeOK, FetchOpen
<1>2. handler[h].pc \in Fetching
  BY <1>1 DEF Fetching
<1>3. PICK d \in Devices, i \in Items :
        /\ d = handler[h].dev /\ i = handler[h].item /\ <<d, i>> \in Busy
        /\ row[i].st \notin {"unused", "pending"}
        /\ row[i].st \in Kept => row[i].dev = d
  BY <1>2, Underway
<1>4. CASE row' = row /\ handler' = [handler EXCEPT ![h] =
                 [handler[h] EXCEPT !.pc = "claim", !.fd = disk[handler[h].src], !.src = None, !.stamp = 0]]
  <2>1. PICK r : r = [handler[h] EXCEPT !.pc = "claim", !.fd = disk[handler[h].src],
                                        !.src = None, !.stamp = 0]
    OBVIOUS
  <2>2. r.pc \in Fetching /\ r.dev = handler[h].dev /\ r.item = handler[h].item
    BY <1>1, <2>1 DEF HandlerType, Fetching
  <2>3. handler' = [handler EXCEPT ![h] = r]
    BY <1>4, <2>1
  <2>4. Busy' = Busy
    BY <1>1, <1>2, <2>2, <2>3, BusyGoesOn
  <2>5. QED
    BY <1>1, <1>4, <2>4, RowsUnseen, UnseenSteps DEF Unseen
<1>5. CASE row' = Fail(i) /\ handler' = [handler EXCEPT ![h] = IdleHandler]
  <2>1. Busy' \in {Busy, Busy \ {<<d, i>>}}
    BY <1>1, <1>3, <1>5, BusyEnds
  <2>2. CASE row[i].st \notin Kept
    <3>1. UNCHANGED <<ShownSt, ShownDev, ShownDigest>>
      BY <1>5, <2>2, RowsUnseen DEF Fail
    <3>2. Promise!Abort(d, i)
      BY <1>1, <1>3, <2>1, <3>1
      DEF Promise!Abort, Promise!Ends, ShownSt, ShownDev, ShownDigest, Busy, Fetching
    <3>3. QED
      BY <3>2, OfferActs
  <2>3. CASE row[i].st \in Kept
    <3>1. row' = [row EXCEPT ![i].st = "failed"]
      BY <1>5, <2>3 DEF Fail
    <3>2. ShownSt' = [ShownSt EXCEPT ![i] = "failed"] /\ UNCHANGED <<ShownDev, ShownDigest>>
      BY <1>1, <3>1, StateShown
    <3>3. ShownSt[i] \in Promise!Present \ {"pending"}
      BY <1>3, <2>3 DEF Promise!Present, Kept, ShownSt
    <3>4. Promise!Refuse(d, i)
      BY <1>1, <1>3, <2>1, <3>2, <3>3
      DEF Promise!Refuse, Promise!Ends, ShownSt, ShownDev, ShownDigest, Busy, Fetching
    <3>5. QED
      BY <3>4, OfferActs
  <2>4. QED
    BY <2>2, <2>3
<1>6. QED
  BY <1>3, <1>4, <1>5 DEF FetchOpen

\* The UPDATE of Claim claims an item that is still ready; otherwise nothing is seen.
LEMMA FetchClaimClaims ==
  ASSUME OfferInv, NEW h \in Handlers, FetchClaim(h)
  PROVE  OfferStep
<1>1. /\ handler \in [Handlers -> HandlerType] /\ row \in [Items -> Row] /\ held' = held
      /\ handler[h].pc = "claim"
  BY DEF OfferInv, IInv, TypeOK, FetchClaim
<1>2. handler[h].pc \in Fetching
  BY <1>1 DEF Fetching
<1>3. PICK d \in Devices, i \in Items :
        d = handler[h].dev /\ i = handler[h].item /\ <<d, i>> \in Busy
  BY <1>2, Underway
<1>4. Busy' = Busy
  <2>1. PICK r : r = [handler[h] EXCEPT !.pc = "serve"]
    OBVIOUS
  <2>2. r.pc \in Fetching /\ r.dev = handler[h].dev /\ r.item = handler[h].item
    BY <1>1, <2>1 DEF HandlerType, Fetching
  <2>3. handler' = [handler EXCEPT ![h] = r]
    BY <2>1 DEF FetchClaim
  <2>4. QED
    BY <1>1, <1>2, <2>2, <2>3, BusyGoesOn
<1>5. CASE row' = row
  BY <1>1, <1>4, <1>5, RowsUnseen, UnseenSteps DEF Unseen
<1>6. CASE row' # row
  <2>1. row[i].st = "ready" /\ row' = [row EXCEPT ![i].st = "claimed"]
    BY <1>3, <1>6 DEF FetchClaim, Claim
  <2>2. ShownSt' = [ShownSt EXCEPT ![i] = "claimed"] /\ UNCHANGED <<ShownDev, ShownDigest>>
    BY <1>1, <2>1, StateShown
  <2>3. ShownSt[i] = "ready"
    BY <2>1 DEF ShownSt
  <2>4. Promise!Claim(d, i)
    BY <1>1, <1>3, <1>4, <2>2, <2>3
    DEF Promise!Claim, ShownSt, ShownDev, ShownDigest, Busy, Fetching
  <2>5. QED
    BY <2>4, OfferActs
<1>7. QED
  BY <1>5, <1>6

\* A body that arrives whole is collected; one that does not arrive is aborted.
LEMMA FetchEnds ==
  ASSUME OfferInv, NEW h \in Handlers, FetchServe(h) \/ FetchAborts(h)
  PROVE  OfferStep
<1>1. handler \in [Handlers -> HandlerType] /\ handler[h].pc \in Fetching /\ row' = row
      /\ handler' = [handler EXCEPT ![h] = IdleHandler]
  BY DEF OfferInv, IInv, TypeOK, FetchServe, FetchAborts, Fetching
<1>2. PICK d \in Devices, i \in Items :
        d = handler[h].dev /\ i = handler[h].item /\ <<d, i>> \in Busy
  BY <1>1, Underway
<1>3. Busy' \in {Busy, Busy \ {<<d, i>>}}
  BY <1>1, <1>2, BusyEnds
<1>4. UNCHANGED <<ShownSt, ShownDev, ShownDigest>>
  BY <1>1, RowsUnseen
<1>5. CASE held' = held
  <2>1. Promise!Abort(d, i)
    BY <1>2, <1>3, <1>4, <1>5
    DEF Promise!Abort, Promise!Ends, ShownSt, ShownDev, ShownDigest, Busy, Fetching
  <2>2. QED
    BY <2>1, OfferActs
<1>6. CASE held' = held \union {<<d, i>>}
  <2>1. Promise!Collect(d, i)
    BY <1>2, <1>3, <1>4, <1>6
    DEF Promise!Collect, Promise!Ends, ShownSt, ShownDev, ShownDigest, Busy, Fetching
  <2>2. QED
    BY <2>1, OfferActs
<1>7. QED
  BY <1>2, <1>5, <1>6 DEF FetchServe, FetchAborts

\* A request that acknowledges serves nothing.
LEMMA AckReadUnseen ==
  ASSUME OfferInv, NEW h \in Handlers, NEW d \in Devices, NEW i \in Items, AckRead(h, d, i)
  PROVE  OfferStep
<1>1. handler \in [Handlers -> HandlerType] /\ handler[h].pc = "idle" /\ row' = row /\ held' = held
  BY DEF OfferInv, IInv, TypeOK, AckRead
<1>2. PICK r : r = [IdleHandler EXCEPT !.pc = "ack", !.dev = d, !.item = i]
  OBVIOUS
<1>3. handler' = [handler EXCEPT ![h] = r] /\ r.pc \notin Fetching
  BY <1>2 DEF AckRead, Fetching, IdleHandler
<1>4. Busy' = Busy
  BY <1>1, <1>3, BusyBegins
<1>5. QED
  BY <1>1, <1>4, RowsUnseen, UnseenSteps DEF Unseen

\* What such a request writes is an acknowledgement by the phone that holds the item, or
\* nothing the offer sees.
LEMMA AckWriteAcknowledges ==
  ASSUME OfferInv, NEW h \in Handlers, AckWrite(h)
  PROVE  OfferStep
<1>1. /\ handler \in [Handlers -> HandlerType] /\ row \in [Items -> Row] /\ held' = held
      /\ handler[h].pc = "ack" /\ handler' = [handler EXCEPT ![h] = IdleHandler]
  BY DEF OfferInv, IInv, TypeOK, AckWrite
<1>2. PICK d \in Devices, i \in Items :
        /\ d = handler[h].dev /\ i = handler[h].item /\ <<d, i>> \in held
        /\ row[i].st \notin {"unused", "pending"}
  BY <1>1 DEF OfferInv, IInv, Referenced, Requested, Started
<1>3. Busy' = Busy
  <2>1. \A g \in Handlers : handler'[g] = IF g = h THEN IdleHandler ELSE handler[g]
    BY <1>1
  <2>2. IdleHandler.pc \notin Fetching /\ handler[h].pc \notin Fetching
    BY <1>1, IdleTyped DEF Fetching
  <2>3. QED
    BY <2>1, <2>2 DEF Busy
<1>4. CASE row' = row
  BY <1>1, <1>3, <1>4, RowsUnseen, UnseenSteps DEF Unseen
<1>5. CASE row' # row
  <2>1. Scoped(d, i) /\ row' = [row EXCEPT ![i].st = "delivered"]
    BY <1>2, <1>5 DEF AckWrite, Deliver
  <2>2. row[i].st # "delivered"
    BY <1>1, <1>5, <2>1 DEF Row
  <2>3. ShownSt' = [ShownSt EXCEPT ![i] = "delivered"] /\ UNCHANGED <<ShownDev, ShownDigest>>
    BY <1>1, <2>1, StateShown
  <2>4. ShownSt[i] \in {"ready", "claimed", "failed"} /\ ShownDev[i] = d
    BY <1>2, <2>1, <2>2 DEF Scoped, Kept, ShownSt, ShownDev
  <2>5. Promise!Acknowledge(d, i)
    BY <1>1, <1>2, <1>3, <2>3, <2>4
    DEF Promise!Acknowledge, Promise!Servable, ShownSt, ShownDev, ShownDigest, Busy, Fetching
  <2>6. QED
    BY <2>5, OfferActs
<1>6. QED
  BY <1>4, <1>5

\* The DELETEs of the user drop rows that are there.
LEMMA RowsDropped ==
  ASSUME row \in [Items -> Row], NEW S \in SUBSET Items, S # {}, \A i \in S : row[i].st \in Kept,
         row' = [i \in Items |-> IF i \in S THEN NoRow("removed") ELSE row[i]],
         UNCHANGED <<handler, held>>
  PROVE  OfferStep
<1>1. NoRow("removed").st = "removed" /\ NoRow("removed").dev = None /\ NoRow("removed").sha = 0
  BY DEF NoRow
<1>2. ShownSt' = [i \in Items |-> IF i \in S THEN "removed" ELSE ShownSt[i]]
  BY <1>1 DEF ShownSt
<1>3. ShownDev' = [i \in Items |-> IF i \in S THEN None ELSE ShownDev[i]]
  BY <1>1 DEF ShownDev
<1>4. ShownDigest' = [i \in Items |-> IF i \in S THEN None ELSE ShownDigest[i]]
  BY <1>1 DEF ShownDigest
<1>5. \A i \in S : ShownSt[i] \in Promise!Present
  BY DEF ShownSt, Promise!Present, Kept
<1>6. Busy' = Busy /\ held' = held
  BY HandlersUnseen
<1>7. Promise!Drop(S)
  BY <1>2, <1>3, <1>4, <1>5, <1>6 DEF Promise!Drop, ShownSt, ShownDev, ShownDigest, Busy, Fetching
<1>8. QED
  BY <1>7, OfferActs

\* What the user removes or clears is dropped; pairing shows nothing.
LEMMA UserDrops ==
  ASSUME OfferInv, User
  PROVE  OfferStep
<1>1. row \in [Items -> Row] /\ handler' = handler /\ held' = held
  BY DEF OfferInv, IInv, TypeOK, User, Remove, Clear, Unpair, PairAgain
<1>2. ASSUME NEW d \in Devices, NEW i \in Items, Remove(d, i) PROVE OfferStep
  <2>1. PICK S \in SUBSET Items : S = {i}
    OBVIOUS
  <2>2. row' = [j \in Items |-> IF j \in S THEN NoRow("removed") ELSE row[j]]
    BY <1>1, <1>2, <2>1 DEF Remove
  <2>3. S # {} /\ \A j \in S : row[j].st \in Kept
    BY <1>2, <2>1 DEF Remove, Scoped
  <2>4. QED
    BY <1>1, <2>2, <2>3, RowsDropped
<1>3. ASSUME NEW d \in Devices, Clear(d) PROVE OfferStep
  <2>1. PICK S \in SUBSET Items : S = Finished(d)
    BY DEF Finished
  <2>2. \A i \in S : row[i].st \in Kept
    BY <2>1 DEF Finished, Scoped
  <2>3. S # {} /\ row' = [i \in Items |-> IF i \in S THEN NoRow("removed") ELSE row[i]]
    BY <1>3, <2>1 DEF Clear
  <2>4. QED
    BY <1>1, <2>2, <2>3, RowsDropped
<1>4. ASSUME NEW d \in Devices, Unpair(d) \/ PairAgain(d) PROVE OfferStep
  <2>1. row' = row
    BY <1>4 DEF Unpair, PairAgain
  <2>2. QED
    BY <1>1, <2>1, RowsUnseen, HandlersUnseen, UnseenSteps DEF Unseen
<1>5. QED
  BY <1>2, <1>3, <1>4 DEF User

\* A restart ends every request at once.
LEMMA RestartCrashes ==
  ASSUME OfferInv, Restart
  PROVE  OfferStep
<1>1. row' = row /\ held' = held /\ \A h \in Handlers : handler'[h] = IdleHandler
  BY DEF Restart
<1>2. Busy' = {}
  BY <1>1, IdleTyped DEF Busy, Fetching
<1>3. UNCHANGED <<ShownSt, ShownDev, ShownDigest>>
  BY <1>1, RowsUnseen
<1>4. Promise!Crash
  BY <1>1, <1>2, <1>3 DEF Promise!Crash, ShownSt, ShownDev, ShownDigest, Busy, Fetching
<1>5. QED
  BY <1>4, OfferActs

\* Every step of the outbox is a step of the offer, or one it does not see.
LEMMA StepOffers == OfferInv /\ [Next]_vars => OfferStep
<1> SUFFICES ASSUME OfferInv, [Next]_vars PROVE OfferStep
  OBVIOUS
<1>1. ASSUME UNCHANGED <<row, handler, held>> PROVE OfferStep
  BY <1>1, RowsUnseen, HandlersUnseen, UnseenSteps DEF Unseen
<1>2. CASE Worker \/ WorkerLedgerError
  <2>1. CASE WorkerNext \/ WorkerWaits \/ WorkerWakes \/ HashRead \/ WorkerLedgerError
    BY <1>1, <2>1 DEF WorkerNext, WorkerWaits, WorkerWakes, HashRead, WorkerLedgerError
  <2>2. QED
    BY <1>2, <2>1, HashOpenSpoils, HashRecordPrepares DEF Worker
<1>3. CASE Queueing
  <2>1. ASSUME NEW c \in Callers, (\E d \in Devices : AddBegin(c, d)) \/ AddFails(c) \/ AddReturns(c)
        PROVE  OfferStep
    BY <1>1, <2>1 DEF AddBegin, AddFails, AddReturns
  <2>2. QED
    BY <1>3, <2>1, AddPathQueues DEF Queueing
<1>4. CASE Serving
  BY <1>4, FetchReadServes, AckReadUnseen, FetchOpenRefuses, FetchClaimClaims, FetchEnds,
     AckWriteAcknowledges
  DEF Serving
<1>5. CASE Disk \/ UNCHANGED vars
  BY <1>1, <1>5 DEF Disk, WriteNew, WriteInPlace, Delete, vars
<1>6. QED
  BY <1>2, <1>3, <1>4, <1>5, UserDrops, RestartCrashes DEF Next

\* Nothing is on offer yet, and the four facts hold of nothing.
LEMMA InitOffers == Init => OfferInv /\ Promise!Init
<1> SUFFICES ASSUME Init PROVE OfferInv /\ Promise!Init
  OBVIOUS
<1>1. NoRow("unused").st = "unused" /\ NoRow("unused").dev = None /\ NoRow("unused").sha = 0
  BY DEF NoRow
<1>2. Preparing /\ Started /\ Received /\ Fresh
  BY <1>1, IdleTyped DEF Init, Preparing, Started, Received, Fresh
<1>3. ShownSt = [i \in Items |-> "unused"] /\ ShownDev = [i \in Items |-> None]
      /\ ShownDigest = [i \in Items |-> None]
  BY <1>1 DEF Init, ShownSt, ShownDev, ShownDigest
<1>4. Busy = {} /\ held = {}
  BY IdleTyped DEF Init, Busy, Fetching
<1>5. Promise!Init
  BY <1>3, <1>4 DEF Promise!Init, ShownSt, ShownDev, ShownDigest, Busy, Fetching
<1>6. QED
  BY <1>2, <1>5, InitIInv DEF OfferInv

\* The outbox implements Offer: whatever the disk, the worker and the requests do, a
\* phone sees items that get one digest, are collected by their own device with the
\* bytes of that digest, and are retired by its acknowledgement (core/outbox).
THEOREM OutboxKeepsItsPromise == Spec => ImplementsOffer
<1>1. OfferInv /\ [Next]_vars => OfferInv'
  BY InvStep, PreparingStep, StartedStep, ReceivedStep, FreshStep DEF OfferInv
<1>2. OfferInv /\ [Next]_vars => [Promise!Next]_(Promise!offerVars)
  BY StepOffers DEF OfferStep
<1>3. QED
  BY <1>1, <1>2, InitOffers, PTL DEF Spec, ImplementsOffer, Promise!Spec
=============================================================================
