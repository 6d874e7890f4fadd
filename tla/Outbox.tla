------------------------------- MODULE Outbox -------------------------------
(***************************************************************************)
(* The receiver's outbox: files a computer offers to a paired phone        *)
(* (core/outbox, and the handlers of core/receiver/outbox.go).             *)
(*                                                                         *)
(* A row of the ledger points at a file that stays where it is on disk.    *)
(* A worker hashes pending rows, HTTP handlers serve and acknowledge rows  *)
(* that are on offer, and the user queues and removes rows.  All of them   *)
(* run concurrently, and each SQL statement and each look at the disk is a *)
(* step of its own.                                                        *)
(*                                                                         *)
(* Contents are versions: a write gives a file a version no file ever had. *)
(* A version stands for the (size, mtime) pair a stat returns and for the  *)
(* SHA-256 of the bytes.  Paths name inodes, so that a descriptor that is  *)
(* already open sees a write made in place and not a replacement.          *)
(***************************************************************************)
EXTENDS Naturals, FiniteSets

CONSTANTS
  Devices,     \* phones that may be paired
  Files,       \* absolute paths on the receiver's disk
  Handlers,    \* goroutines serving requests of phones
  Callers,     \* goroutines calling Add (control socket, window)
  None,        \* no device, no file
  MaxItems,    \* bound: rows ever inserted
  MaxVersion   \* bound: writes to the disk, the initial ones included

ASSUME OutboxAssumption ==
  /\ MaxItems \in Nat
  /\ MaxVersion \in Nat
  /\ None \notin Devices \union Files

VARIABLES
  row,        \* the outbox table: one record per item id
  disk,       \* path -> inode, 0 when nothing is there
  content,    \* inode -> version of its bytes
  clock,      \* versions and inodes handed out so far
  paired,     \* devices whose row in the ledger is not revoked
  worker,     \* the goroutine in Run
  wake,       \* the buffered channel of capacity one
  add,        \* one Add call per caller
  handler,    \* one request per handler
  held,       \* <<device, item>>: the bytes reached the phone intact
  stranded    \* history: pending rows nothing is going to wake the worker for

vars == <<row, disk, content, clock, paired, worker, wake, add, handler, held, stranded>>
diskVars == <<disk, content, clock>>

-----------------------------------------------------------------------------
(* Rows.  Ids are random and never reused; they are numbered here in the   *)
(* order of queued_at, which is the order every listing uses.              *)

Items    == 1..MaxItems
Versions == 0..MaxVersion

OnOffer == {"ready", "claimed"}
Kept    == {"pending", "ready", "claimed", "delivered", "failed"}

Row == [st: Kept \union {"unused", "removed"}, dev: Devices \union {None},
        src: Files \union {None}, sha: Versions, stamp: Versions]

\* No row: never inserted, or deleted.
NoRow(s) == [st |-> s, dev |-> None, src |-> None, sha |-> 0, stamp |-> 0]

\* INSERT INTO outbox: a row as Add leaves it.
NewRow(d, f) == [NoRow("pending") EXCEPT !.dev = d, !.src = f]

\* Mutant of Scoped: the lookup is by id alone.
ScopedById(d, i) == row[i].st \in Kept

\* SELECT ... WHERE id = ? AND device_id = ?  finds the row.
Scoped(d, i) == row[i].st \in Kept /\ row[i].dev = d

\* Item.Ready: what a phone may be offered.
Ready(i) == row[i].st \in OnOffer /\ row[i].sha # 0

\* The rows the worker has still to hash.
Pending == {i \in Items : row[i].st = "pending"}

\* Mutant of Fail: only a row on offer can fail.
FailOffered(i) == IF row[i].st \in OnOffer THEN [row EXCEPT ![i].st = "failed"] ELSE row

\* UPDATE outbox SET state = 'failed' WHERE id = ?
Fail(i) == IF row[i].st \in Kept THEN [row EXCEPT ![i].st = "failed"] ELSE row

\* UPDATE outbox SET sha256, source_mtime, state = 'ready' WHERE id = ? AND state = 'pending'
RecordDigest(i, digest, mtime) ==
  IF row[i].st = "pending"
  THEN [row EXCEPT ![i].st = "ready", ![i].sha = digest, ![i].stamp = mtime]
  ELSE row

\* Mutants of Claim: one that takes the hand-over for a delivery, and one without the
\* condition on the state.
ClaimDelivers(d, i) ==
  IF row[i].st = "ready" /\ row[i].dev = d
  THEN [row EXCEPT ![i].st = "delivered"] ELSE row

ClaimAnyState(d, i) ==
  IF Scoped(d, i) THEN [row EXCEPT ![i].st = "claimed"] ELSE row

\* UPDATE outbox SET state = 'claimed' WHERE id = ? AND device_id = ? AND state = 'ready'
Claim(d, i) ==
  IF row[i].st = "ready" /\ row[i].dev = d
  THEN [row EXCEPT ![i].st = "claimed"] ELSE row

\* UPDATE outbox SET state = 'delivered' WHERE id = ? AND device_id = ?
Deliver(d, i) ==
  IF Scoped(d, i) THEN [row EXCEPT ![i].st = "delivered"] ELSE row

-----------------------------------------------------------------------------
IdleAdd     == [pc |-> "idle", dev |-> None, rows |-> {}]
IdleHandler == [pc |-> "idle", dev |-> None, item |-> 0, src |-> None,
                sha |-> 0, stamp |-> 0, fd |-> 0]
Sweeping    == [pc |-> "next", item |-> 0, src |-> None, fd |-> 0, before |-> 0, digest |-> 0]
Waiting     == [Sweeping EXCEPT !.pc = "wait"]

WorkerType == [pc: {"next", "drained", "wait", "open", "read", "record"},
               item: Items \union {0}, src: Files \union {None},
               fd: Versions, before: Versions, digest: Versions]
AddType == [pc: {"idle", "adding"}, dev: Devices \union {None}, rows: SUBSET Items]
HandlerType == [pc: {"idle", "open", "claim", "serve", "ack"},
                dev: Devices \union {None}, item: Items \union {0},
                src: Files \union {None}, sha: Versions, stamp: Versions, fd: Versions]

TypeOK ==
  /\ row \in [Items -> Row]
  /\ disk \in [Files -> Versions]
  /\ content \in [Versions -> Versions]
  /\ clock \in Versions
  /\ paired \subseteq Devices
  /\ worker \in WorkerType
  /\ wake \in BOOLEAN
  /\ add \in [Callers -> AddType]
  /\ handler \in [Handlers -> HandlerType]
  /\ held \subseteq Devices \X Items
  /\ stranded \subseteq Items

\* An empty disk (WriteNew creates the files), everyone paired, and the worker on
\* the sweep it makes at startup.
Init ==
  /\ row = [i \in Items |-> NoRow("unused")]
  /\ disk = [f \in Files |-> 0]
  /\ content = [v \in Versions |-> 0]
  /\ clock = 0
  /\ paired = Devices
  /\ worker = Sweeping
  /\ wake = FALSE
  /\ add = [c \in Callers |-> IdleAdd]
  /\ handler = [h \in Handlers |-> IdleHandler]
  /\ held = {}
  /\ stranded = {}

-----------------------------------------------------------------------------
(* Add: rows are inserted one path at a time, and the worker is told once, *)
(* after the last of them.                                                 *)

AddBegin(c, d) ==
  /\ add[c].pc = "idle"
  /\ d \in paired
  /\ add' = [add EXCEPT ![c] = [pc |-> "adding", dev |-> d, rows |-> {}]]
  /\ UNCHANGED <<row, diskVars, paired, worker, wake, handler, held, stranded>>

\* The path names a regular file: INSERT INTO outbox.
AddPath(c, f) ==
  /\ add[c].pc = "adding"
  /\ disk[f] # 0
  /\ \E i \in Items :
       /\ row[i].st = "unused"
       /\ \A j \in Items : row[j].st = "unused" => i <= j
       /\ row' = [row EXCEPT ![i] = NewRow(add[c].dev, f)]
       /\ add' = [add EXCEPT ![c].rows = @ \union {i}]
  /\ UNCHANGED <<diskVars, paired, worker, wake, handler, held, stranded>>

\* A path that is missing, a folder or refused by the ledger ends the call:
\* the rows inserted so far stay and the worker is not told.
AddFails(c) ==
  /\ add[c].pc = "adding"
  /\ stranded' = stranded \union {i \in add[c].rows : row[i].st = "pending"}
  /\ add' = [add EXCEPT ![c] = IdleAdd]
  /\ UNCHANGED <<row, diskVars, paired, worker, wake, handler, held>>

\* Mutant of AddReturns: the channel has no buffer, so that a send nobody waits for is lost.
AddReturnsUnbuffered(c) ==
  /\ add[c].pc = "adding"
  /\ add[c].rows # {}
  /\ wake' = (worker.pc = "wait")
  /\ add' = [add EXCEPT ![c] = IdleAdd]
  /\ UNCHANGED <<row, diskVars, paired, worker, handler, held, stranded>>

\* notify: a send that does not block.
AddReturns(c) ==
  /\ add[c].pc = "adding"
  /\ add[c].rows # {}
  /\ wake' = TRUE
  /\ add' = [add EXCEPT ![c] = IdleAdd]
  /\ UNCHANGED <<row, diskVars, paired, worker, handler, held, stranded>>

-----------------------------------------------------------------------------
(* Run, HashPending, hash and hashFile.                                    *)

\* nextPending takes the oldest row, or HashPending returns.
WorkerNext ==
  /\ worker.pc = "next"
  /\ \/ /\ Pending = {}
        /\ worker' = [Sweeping EXCEPT !.pc = "drained"]
     \/ \E i \in Pending :
          /\ \A j \in Pending : i <= j
          /\ worker' = [Sweeping EXCEPT !.pc = "open", !.item = i, !.src = row[i].src]
  /\ UNCHANGED <<row, diskVars, paired, wake, add, handler, held, stranded>>

\* The ledger refuses a statement: HashPending returns the error, Run logs it and waits.
WorkerLedgerError ==
  /\ worker.pc \in {"next", "record"}
  /\ worker' = [Sweeping EXCEPT !.pc = "drained"]
  /\ stranded' = stranded \union Pending
  /\ UNCHANGED <<row, diskVars, paired, wake, add, handler, held>>

\* Run reaches its select.  A wake-up sent since the query is in the buffer.
WorkerWaits ==
  /\ worker.pc = "drained"
  /\ worker' = Waiting
  /\ UNCHANGED <<row, diskVars, paired, wake, add, handler, held, stranded>>

WorkerWakes ==
  /\ worker.pc = "wait"
  /\ wake
  /\ wake' = FALSE
  /\ worker' = Sweeping
  /\ stranded' = {}
  /\ UNCHANGED <<row, diskVars, paired, add, handler, held>>

\* os.Open and the first Stat, on the path nextPending returned with the row.
HashOpen ==
  /\ worker.pc = "open"
  /\ LET inode == disk[worker.src] IN
       IF inode = 0
       THEN worker' = Sweeping /\ row' = Fail(worker.item)
       ELSE /\ worker' = [worker EXCEPT !.pc = "read", !.fd = inode,
                                        !.before = content[inode]]
            /\ row' = row
  /\ UNCHANGED <<diskVars, paired, wake, add, handler, held, stranded>>

HashRead ==
  /\ worker.pc = "read"
  /\ worker' = [worker EXCEPT !.pc = "record", !.digest = content[worker.fd]]
  /\ UNCHANGED <<row, diskVars, paired, wake, add, handler, held, stranded>>

\* Mutant of Unchanged: there is no second Stat.
NoSecondStat(w) == TRUE

\* The file is as it was when it was opened: the second Stat.
Unchanged(w) == content[w.fd] = w.before

HashRecord ==
  /\ worker.pc = "record"
  /\ row' = IF Unchanged(worker)
            THEN RecordDigest(worker.item, worker.digest, content[worker.fd])
            ELSE Fail(worker.item)
  /\ worker' = Sweeping
  /\ UNCHANGED <<diskVars, paired, wake, add, handler, held, stranded>>

-----------------------------------------------------------------------------
(* GET /v1/outbox/{id}: Open, Claim, ServeContent.  A request the scope or *)
(* the state of the row refuses (404, 409) changes nothing.                *)

FetchRead(h, d, i) ==
  /\ handler[h].pc = "idle"
  /\ d \in paired
  /\ Scoped(d, i)
  /\ Ready(i)
  /\ handler' = [handler EXCEPT ![h] = [pc |-> "open", dev |-> d, item |-> i,
                    src |-> row[i].src, sha |-> row[i].sha, stamp |-> row[i].stamp, fd |-> 0]]
  /\ UNCHANGED <<row, diskVars, paired, worker, wake, add, held, stranded>>

\* Mutant of SameFile: the file is not looked at before it is served.
AnyFile(inode, stamp) == TRUE

\* The size and mtime on disk are those the hash was taken at.
SameFile(inode, stamp) == content[inode] = stamp

\* os.Open and Stat: a file that is gone or changed fails the row (410).
FetchOpen(h) ==
  /\ handler[h].pc = "open"
  /\ LET inode == disk[handler[h].src] IN
       IF inode # 0 /\ SameFile(inode, handler[h].stamp)
       THEN /\ handler' = [handler EXCEPT ![h] =
                            [@ EXCEPT !.pc = "claim", !.fd = inode, !.src = None, !.stamp = 0]]
            /\ row' = row
       ELSE /\ handler' = [handler EXCEPT ![h] = IdleHandler]
            /\ row' = Fail(handler[h].item)
  /\ UNCHANGED <<diskVars, paired, worker, wake, add, held, stranded>>

\* Claim; an error of the ledger is logged and the bytes are served all the same.
FetchClaim(h) ==
  /\ handler[h].pc = "claim"
  /\ \/ row' = Claim(handler[h].dev, handler[h].item)
     \/ row' = row
  /\ handler' = [handler EXCEPT ![h].pc = "serve"]
  /\ UNCHANGED <<diskVars, paired, worker, wake, add, held, stranded>>

\* The whole body arrives.  The phone keeps it only if it has the digest offered.
FetchServe(h) ==
  /\ handler[h].pc = "serve"
  /\ held' = IF content[handler[h].fd] = handler[h].sha
             THEN held \union {<<handler[h].dev, handler[h].item>>} ELSE held
  /\ handler' = [handler EXCEPT ![h] = IdleHandler]
  /\ UNCHANGED <<row, diskVars, paired, worker, wake, add, stranded>>

\* The connection drops, or the disk is briefly away: nothing is recorded.
FetchAborts(h) ==
  /\ handler[h].pc \in {"open", "serve"}
  /\ handler' = [handler EXCEPT ![h] = IdleHandler]
  /\ UNCHANGED <<row, diskVars, paired, worker, wake, add, held, stranded>>

-----------------------------------------------------------------------------
(* DELETE /v1/outbox/{id}.  A phone acknowledges what it holds, as often   *)
(* as it likes; a row that is gone or already delivered changes nothing.   *)

AckRead(h, d, i) ==
  /\ handler[h].pc = "idle"
  /\ d \in paired
  /\ <<d, i>> \in held
  /\ Scoped(d, i)
  /\ row[i].st # "delivered"
  /\ handler' = [handler EXCEPT ![h] = [IdleHandler EXCEPT !.pc = "ack", !.dev = d, !.item = i]]
  /\ UNCHANGED <<row, diskVars, paired, worker, wake, add, held, stranded>>

AckWrite(h) ==
  /\ handler[h].pc = "ack"
  /\ row' = Deliver(handler[h].dev, handler[h].item)
  /\ handler' = [handler EXCEPT ![h] = IdleHandler]
  /\ UNCHANGED <<diskVars, paired, worker, wake, add, held, stranded>>

-----------------------------------------------------------------------------
(* The user at the computer.                                               *)

Remove(d, i) ==
  /\ Scoped(d, i)
  /\ row' = [row EXCEPT ![i] = NoRow("removed")]
  /\ UNCHANGED <<diskVars, paired, worker, wake, add, handler, held, stranded>>

Finished(d) == {i \in Items : Scoped(d, i) /\ row[i].st \in {"delivered", "failed"}}

Clear(d) ==
  /\ Finished(d) # {}
  /\ row' = [i \in Items |-> IF i \in Finished(d) THEN NoRow("removed") ELSE row[i]]
  /\ UNCHANGED <<diskVars, paired, worker, wake, add, handler, held, stranded>>

\* Pairing and unpairing, as the outbox sees them.
Unpair(d) ==
  /\ d \in paired
  /\ paired' = paired \ {d}
  /\ UNCHANGED <<row, diskVars, worker, wake, add, handler, held, stranded>>

PairAgain(d) ==
  /\ d \notin paired
  /\ paired' = paired \union {d}
  /\ UNCHANGED <<row, diskVars, worker, wake, add, handler, held, stranded>>

\* A file is created, or replaced by a new one of the same name.
WriteNew(f) ==
  /\ clock < MaxVersion
  /\ clock' = clock + 1
  /\ disk' = [disk EXCEPT ![f] = clock + 1]
  /\ content' = [content EXCEPT ![clock + 1] = clock + 1]
  /\ UNCHANGED <<row, paired, worker, wake, add, handler, held, stranded>>

WriteInPlace(f) ==
  /\ clock < MaxVersion
  /\ disk[f] # 0
  /\ clock' = clock + 1
  /\ content' = [content EXCEPT ![disk[f]] = clock + 1]
  /\ UNCHANGED <<row, disk, paired, worker, wake, add, handler, held, stranded>>

Delete(f) ==
  /\ disk[f] # 0
  /\ disk' = [disk EXCEPT ![f] = 0]
  /\ UNCHANGED <<row, content, clock, paired, worker, wake, add, handler, held, stranded>>

\* The receiver stops, at any point, and is started again: the ledger and the disk
\* survive, and the worker sweeps once.
Restart ==
  /\ worker' = Sweeping
  /\ wake' = FALSE
  /\ add' = [c \in Callers |-> IdleAdd]
  /\ handler' = [h \in Handlers |-> IdleHandler]
  /\ stranded' = {}
  /\ UNCHANGED <<row, diskVars, paired, held>>

-----------------------------------------------------------------------------
Worker == WorkerNext \/ WorkerWaits \/ WorkerWakes \/ HashOpen \/ HashRead \/ HashRecord

Queueing == \E c \in Callers :
  \/ \E d \in Devices : AddBegin(c, d)
  \/ \E f \in Files : AddPath(c, f)
  \/ AddFails(c)
  \/ AddReturns(c)

Serving == \E h \in Handlers :
  \/ \E d \in Devices, i \in Items : FetchRead(h, d, i) \/ AckRead(h, d, i)
  \/ FetchOpen(h)
  \/ FetchClaim(h)
  \/ FetchServe(h)
  \/ FetchAborts(h)
  \/ AckWrite(h)

User == \E d \in Devices :
  \/ \E i \in Items : Remove(d, i)
  \/ Clear(d)
  \/ Unpair(d)
  \/ PairAgain(d)

Disk == \E f \in Files : WriteNew(f) \/ WriteInPlace(f) \/ Delete(f)

Next == Worker \/ WorkerLedgerError \/ Queueing \/ Serving \/ User \/ Disk \/ Restart

Spec == Init /\ [][Next]_vars

\* The goroutine in Run is scheduled as long as the receiver runs.
FairSpec == Spec /\ WF_vars(Worker)

-----------------------------------------------------------------------------
(* The outbox implements the abstract offer.  A request is being served    *)
(* from the moment its row was read.                                       *)

Promise == INSTANCE Offer WITH
  Items   <- Items,
  Digests <- 1..MaxVersion,
  st      <- [i \in Items |-> row[i].st],
  dev     <- [i \in Items |-> row[i].dev],
  digest  <- [i \in Items |-> IF row[i].sha = 0 THEN None ELSE row[i].sha],
  serving <- {<<handler[h].dev, handler[h].item>> :
                h \in {g \in Handlers : handler[g].pc \in {"open", "claim", "serve"}}},
  held    <- held

ImplementsOffer == Promise!Spec

-----------------------------------------------------------------------------
(* What the outbox promises.                                               *)

\* Every row on offer carries the digest of the version whose size and mtime it
\* records: a phone can verify what it downloads, and Open can tell that the file
\* is still the one that was hashed (outbox.go, hashFile and hash).
OfferIsVerifiable ==
  \A i \in Items :
    /\ row[i].sha = row[i].stamp
    /\ row[i].st \in OnOffer => row[i].sha # 0

\* A row is marked delivered only when its device holds the bytes it was offered:
\* serving them, however often, is not delivery (outbox.go, StateDelivered).
DeliveredIsHeld ==
  \A i \in Items : row[i].st = "delivered" => <<row[i].dev, i>> \in held

\* No phone ever collects a row queued for another, although every request names
\* its row by an id it may have from anywhere (query.go, Item).
OnlyTheOwnerCollects ==
  \A p \in held : row[p[2]].st \in Kept => row[p[2]].dev = p[1]

\* While the worker waits, a pending row belongs to a call that has still to end,
\* or a wake-up is buffered, or the call that queued it failed or the ledger did
\* (outbox.go, Run and notify).
NoLostWakeUp ==
  \A i \in Items :
    row[i].st = "pending" /\ worker.pc = "wait" /\ ~wake
      => i \in stranded \/ \E c \in Callers : i \in add[c].rows

\* At the moment Open hands a file over, its bytes are those the row it read was
\* hashed from, whatever happened to the file and to the row in between.
ServedMatchesDigest ==
  [][\A h \in Handlers :
       handler[h].pc = "open" /\ handler'[h].pc = "claim"
         => content[handler'[h].fd] = handler[h].sha]_vars

\* A row whose wake-up was not lost leaves pending: it is hashed, it fails or it is
\* removed, provided the receiver is not restarted for ever (outbox.go, Run).
EventuallyPrepared ==
  <>[][~Restart]_vars =>
    \A i \in Items :
      row[i].st = "pending" ~> \/ row[i].st # "pending"
                               \/ i \in stranded
                               \/ \E c \in Callers : i \in add[c].rows
=============================================================================
