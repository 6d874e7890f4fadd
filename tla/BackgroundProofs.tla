--------------------------- MODULE BackgroundProofs ---------------------------
(***************************************************************************)
(* A file is recorded as sent, with the receiver's path, only when the     *)
(* receiver holds it, and a staged copy has an owner until the app is      *)
(* killed: proofs for any number of files, chunks, requests, callers,      *)
(* attempts and faults of every kind.                                      *)
(*                                                                         *)
(* The path travels from the answer of a request to the session's task,    *)
(* the job, what recordArrivals has read and the ledger.  It stays the     *)
(* path of the right file because the upload a job names is one that was   *)
(* created for it, and a slot is not used again before its request ended.  *)
(*                                                                         *)
(* What is stored is what was sent as long as no two requests may write to *)
(* one upload, and the phone sees to that when a file is started with      *)
(* nothing of an earlier transfer left, by one call at a time.             *)
(***************************************************************************)
EXTENDS Background, TLAPS

(***************************************************************************)
(* The inductive invariant.                                                *)

Working == {"open", "copy", "hash", "error", "digest", "commit", "tidy"}

UploadSet  == [asset: Assets \union {None}, declared: BOOLEAN, info: BOOLEAN, bin: Places, data: Chunks]
HasherSet  == [in: BOOLEAN, offset: 0..Size, sum: Chunks]
RequestSet == [pc: {"idle", "get"} \union Working \union Answers, up: 0..MaxUploads, off: 0..Size,
               n: 0..Size, hashing: BOOLEAN, cut: BOOLEAN, digest: Chunks]
FileSet    == [asset: Assets, up: Uploads, digest: Chunks]

ReceiverTyped ==
  /\ up \in [Uploads -> UploadSet]
  /\ hasher \in [Uploads -> HasherSet]
  /\ req \in [Tasks -> RequestSet]
  /\ files \subseteq FileSet
  /\ faults \in 0..MaxFaults

\* A request that was let in is for an upload there is, and stays within the file.
Serving ==
  /\ \A t \in Tasks :
       /\ req[t].pc \in Working => req[t].up \in Uploads /\ up[req[t].up].asset \in Assets
       /\ req[t].off + req[t].n <= Size
       /\ req[t].pc = "hash" => req[t].n > 0
  /\ \A u \in Uploads : up[u].info => up[u].asset \in Assets

JobSet   == [st: {"none", "pending", "running", "done", "failed"}, loc: 0..MaxUploads,
             attempts: 0..MaxAttempts, path: BOOLEAN, fresh: BOOLEAN]
TaskSet  == [st: {"free", "live", "ended"}, job: Assets \union {None}, status: {"path", "nopath", "bad"}]
BatchSet == [pc: {"idle", "staged", "made", "refused"}, job: Assets \union {None}, up: 0..MaxUploads]
CallSet  == [pc: {"idle", "list", "next", "head", "at", "create", "enqueue"},
             kind: {"reconcile", "retry"}, live: SUBSET Assets, left: SUBSET Assets,
             jobs: [Assets -> JobSet], job: Assets \union {None}, off: 0..Size]
RecSet   == [pc: {"idle", "recording"}, left: SUBSET (Assets \X BOOLEAN)]

PhoneTyped ==
  /\ job \in [Assets -> JobSet]
  /\ staged \subseteq Assets
  /\ task \in [Tasks -> TaskSet]
  /\ batch \in BatchSet
  /\ caller \in [Callers -> CallSet]
  /\ rec \in RecSet
  /\ sent \in [Assets -> {"no", "path", "nopath"}]
  /\ batches \in 0..MaxBatches

\* Who is at work has a file to work on, and a call that restarts a job may try once more.
Busy ==
  /\ \A t \in Tasks : task[t].st # "free" => task[t].job \in Assets
  /\ batch.pc # "idle" => batch.job \in Assets
  /\ \A r \in Callers :
       /\ caller[r].pc \in {"head", "at", "create", "enqueue"} => caller[r].job \in Assets
       /\ caller[r].pc \in {"head", "at", "create"} => ~GivenUp(caller[r].jobs[caller[r].job])

\* An upload that is named for a file was created for it.
For(u, j) == u # 0 => u \in Uploads /\ up[u].asset = j

Named ==
  /\ \A j \in Assets : For(job[j].loc, j)
  /\ \A r \in Callers, j \in Assets : For(caller[r].jobs[j].loc, j) /\ ~caller[r].jobs[j].path
  /\ batch.pc = "made" => For(batch.up, batch.job)
  /\ \A t \in Tasks : task[t].st = "live" => For(req[t].up, task[t].job)

Has(j) == \E f \in files : f.asset = j

\* Wherever the path of a file is, the receiver holds the file.
Vouched ==
  /\ \A t \in Tasks :
       /\ req[t].pc = "tidy" => Has(up[req[t].up].asset)
       /\ req[t].pc = "stored" /\ task[t].st = "live" => Has(task[t].job)
       /\ task[t].status = "path" => Has(task[t].job)
  /\ \A j \in Assets : job[j].path => Has(j)
  /\ \A e \in rec.left : e[2] => Has(e[1])
  /\ PathIsHeld

\* The copy of a job that was written down goes with the job.
Attached == batch.pc = "made" /\ batch.job \in staged => job[batch.job].st # "none"

BackgroundInv == ReceiverTyped /\ Serving /\ PhoneTyped /\ Busy /\ Named /\ Vouched /\ Attached

USE DEF receiver, phone, vars

-----------------------------------------------------------------------------
(* The receiver.                                                           *)

\* What nothing happened to yet.
LEMMA Nothing ==
  /\ NoUpload \in UploadSet /\ NoUpload.asset = None /\ NoHasher \in HasherSet
  /\ NoRequest \in RequestSet /\ NoRequest.pc = "idle" /\ NoRequest.up = 0
  /\ NoRequest.off = 0 /\ NoRequest.n = 0 /\ ~NoRequest.cut
<1>1. <<>> \in Chunks
  BY DEF Chunks
<1>2. 0 \in 0..Size /\ 0 \in 0..MaxUploads
  BY UploadAssumption
<1>3. QED
  BY <1>1, <1>2 DEF NoUpload, NoHasher, NoRequest, UploadSet, HasherSet, RequestSet, Places

\* An answer, or the end of a request nobody waits for.
LEMMA Replies ==
  ASSUME ReceiverTyped, NEW t \in Tasks, NEW answer \in Answers, Reply(t, answer)
  PROVE  /\ req' \in [Tasks -> RequestSet]
         /\ \A s \in Tasks \ {t} : req'[s] = req[s]
         /\ req'[t].pc \in {"idle", answer} /\ req'[t].up = 0 /\ req'[t].off = 0 /\ req'[t].n = 0
<1>1. PICK r : r = IF req[t].cut THEN NoRequest ELSE [NoRequest EXCEPT !.pc = answer]
  OBVIOUS
<1>2. r \in RequestSet /\ r.pc \in {"idle", answer} /\ r.up = 0 /\ r.off = 0 /\ r.n = 0
  BY <1>1, Nothing DEF RequestSet
<1>3. req' = [req EXCEPT ![t] = r]
  BY <1>1 DEF Reply
<1>4. QED
  BY <1>2, <1>3 DEF ReceiverTyped

\* A request that goes on: the place it comes to, and what it carries.
GoesOn(t, pc, n) ==
  /\ req' \in [Tasks -> RequestSet]
  /\ \A s \in Tasks \ {t} : req'[s] = req[s]
  /\ req'[t].pc = pc /\ req'[t].up = req[t].up /\ req'[t].off = req[t].off /\ req'[t].n = n

\* The ways requests go on.
LEMMA Going ==
  ASSUME ReceiverTyped, NEW t \in Tasks, NEW pc \in Working
  PROVE  /\ Goes(t, pc) => GoesOn(t, pc, req[t].n)
         /\ \A h \in BOOLEAN :
              req' = [req EXCEPT ![t].pc = pc, ![t].hashing = h] => GoesOn(t, pc, req[t].n)
         /\ \A d \in Chunks :
              req' = [req EXCEPT ![t].pc = pc, ![t].digest = d] => GoesOn(t, pc, req[t].n)
         /\ \A n \in 0..Size :
              req' = [req EXCEPT ![t].n = n, ![t].pc = pc] => GoesOn(t, pc, n)
<1>1. req \in [Tasks -> RequestSet] /\ req[t] \in RequestSet
  BY DEF ReceiverTyped
<1>2. ASSUME NEW r \in RequestSet, req' = [req EXCEPT ![t] = r], r.pc = pc, r.up = req[t].up, r.off = req[t].off
      PROVE  GoesOn(t, pc, r.n)
  BY <1>1, <1>2 DEF GoesOn
<1>3. ASSUME Goes(t, pc) PROVE GoesOn(t, pc, req[t].n)
  <2>1. PICK r : r = [req[t] EXCEPT !.pc = pc]
    OBVIOUS
  <2>2. r \in RequestSet /\ r.pc = pc /\ r.up = req[t].up /\ r.off = req[t].off /\ r.n = req[t].n
    BY <1>1, <2>1 DEF RequestSet
  <2>3. req' = [req EXCEPT ![t] = r]
    BY <1>3, <2>1 DEF Goes
  <2>4. GoesOn(t, pc, r.n)
    BY <1>2, <2>2, <2>3
  <2>5. QED
    BY <2>2, <2>4
<1>4. ASSUME NEW h \in BOOLEAN, req' = [req EXCEPT ![t].pc = pc, ![t].hashing = h] PROVE GoesOn(t, pc, req[t].n)
  <2>1. PICK r : r = [req[t] EXCEPT !.pc = pc, !.hashing = h]
    OBVIOUS
  <2>2. r \in RequestSet /\ r.pc = pc /\ r.up = req[t].up /\ r.off = req[t].off /\ r.n = req[t].n
    BY <1>1, <2>1 DEF RequestSet
  <2>3. req' = [req EXCEPT ![t] = r]
    BY <1>4, <2>1
  <2>4. GoesOn(t, pc, r.n)
    BY <1>2, <2>2, <2>3
  <2>5. QED
    BY <2>2, <2>4
<1>5. ASSUME NEW d \in Chunks, req' = [req EXCEPT ![t].pc = pc, ![t].digest = d] PROVE GoesOn(t, pc, req[t].n)
  <2>1. PICK r : r = [req[t] EXCEPT !.pc = pc, !.digest = d]
    OBVIOUS
  <2>2. r \in RequestSet /\ r.pc = pc /\ r.up = req[t].up /\ r.off = req[t].off /\ r.n = req[t].n
    BY <1>1, <2>1 DEF RequestSet
  <2>3. req' = [req EXCEPT ![t] = r]
    BY <1>5, <2>1
  <2>4. GoesOn(t, pc, r.n)
    BY <1>2, <2>2, <2>3
  <2>5. QED
    BY <2>2, <2>4
<1>6. ASSUME NEW n \in 0..Size, req' = [req EXCEPT ![t].n = n, ![t].pc = pc] PROVE GoesOn(t, pc, n)
  <2>1. PICK r : r = [req[t] EXCEPT !.n = n, !.pc = pc]
    OBVIOUS
  <2>2. r \in RequestSet /\ r.pc = pc /\ r.up = req[t].up /\ r.off = req[t].off /\ r.n = n
    BY <1>1, <2>1 DEF RequestSet
  <2>3. req' = [req EXCEPT ![t] = r]
    BY <1>6, <2>1
  <2>4. GoesOn(t, pc, r.n)
    BY <1>2, <2>2, <2>3
  <2>5. QED
    BY <2>2, <2>4
<1>7. QED
  BY <1>3, <1>4, <1>5, <1>6

\* Uploads stay the file's they were created for, and what is held stays held.
Grows ==
  /\ \A u \in Uploads : up[u].asset \in Assets => up'[u].asset = up[u].asset
  /\ files \subseteq files'

\* A step of a request.
Served(t) ==
  /\ req[t].pc \in Working \union {"get"}
  /\ \A s \in Tasks \ {t} : req'[s] = req[s]
  /\ \A u \in Uploads : up'[u].asset = up[u].asset
  /\ files \subseteq files'
  /\ \/ /\ req'[t].pc \in Working /\ req'[t].up = req[t].up
        /\ req'[t].pc = "tidy" => \E f \in files' : f.asset = up[req[t].up].asset
     \/ req'[t].pc \in {"idle", "nothing", "refused"} /\ req'[t].up = 0
     \/ req[t].pc = "tidy" /\ req'[t].pc \in {"idle", "stored"} /\ req'[t].up = 0

\* The uploads after a step of a request: none is another's, and none is new.
Uploaded ==
  /\ up' \in [Uploads -> UploadSet]
  /\ \A u \in Uploads : up'[u].asset = up[u].asset /\ (up'[u].info => up[u].info)

\* Changing fields of an upload, other than whose it is.
LEMMA Uploading ==
  ASSUME ReceiverTyped, NEW u \in Uploads
  PROVE  /\ \A b \in Places : up' = [up EXCEPT ![u].info = FALSE, ![u].bin = b] => Uploaded
         /\ up' = [up EXCEPT ![u].info = FALSE] => Uploaded
         /\ \A b \in Places : up' = [up EXCEPT ![u].bin = b] => Uploaded
         /\ \A d \in Chunks : up' = [up EXCEPT ![u].data = d] => Uploaded
<1>1. up[u] \in UploadSet /\ up \in [Uploads -> UploadSet]
  BY DEF ReceiverTyped
<1>2. ASSUME NEW r \in UploadSet, up' = [up EXCEPT ![u] = r], r.asset = up[u].asset, r.info => up[u].info
      PROVE  Uploaded
  BY <1>1, <1>2 DEF Uploaded
<1>3. ASSUME NEW b \in Places
      PROVE  /\ [up[u] EXCEPT !.info = FALSE, !.bin = b] \in UploadSet
             /\ [up[u] EXCEPT !.info = FALSE, !.bin = b].asset = up[u].asset
             /\ ~[up[u] EXCEPT !.info = FALSE, !.bin = b].info
             /\ [up[u] EXCEPT !.bin = b] \in UploadSet
             /\ [up[u] EXCEPT !.bin = b].asset = up[u].asset
             /\ [up[u] EXCEPT !.bin = b].info = up[u].info
  BY <1>1 DEF UploadSet
<1>4. /\ [up[u] EXCEPT !.info = FALSE] \in UploadSet
      /\ [up[u] EXCEPT !.info = FALSE].asset = up[u].asset
      /\ ~[up[u] EXCEPT !.info = FALSE].info
  BY <1>1 DEF UploadSet
<1>5. ASSUME NEW d \in Chunks
      PROVE  /\ [up[u] EXCEPT !.data = d] \in UploadSet
             /\ [up[u] EXCEPT !.data = d].asset = up[u].asset
             /\ [up[u] EXCEPT !.data = d].info = up[u].info
  BY <1>1 DEF UploadSet
<1>6. QED
  BY <1>2, <1>3, <1>4, <1>5

\* One more chunk.
LEMMA Appending ==
  ASSUME NEW s \in Chunks, NEW i \in 1..Size
  PROVE  Append(s, i) \in Chunks
<1>1. ASSUME NEW S, NEW q \in Seq(S), NEW e \in S PROVE Append(q, e) \in Seq(S)
  OBVIOUS
<1>2. QED
  BY <1>1 DEF Chunks

\* Changing fields of a hasher.
LEMMA Hashing ==
  ASSUME ReceiverTyped, NEW u \in Uploads
  PROVE  /\ hasher' = [hasher EXCEPT ![u].in = FALSE] => hasher' \in [Uploads -> HasherSet]
         /\ \A n \in 0..Size : hasher' = [hasher EXCEPT ![u].offset = n] => hasher' \in [Uploads -> HasherSet]
         /\ \A d \in Chunks : hasher' = [hasher EXCEPT ![u].sum = d] => hasher' \in [Uploads -> HasherSet]
BY DEF ReceiverTyped, HasherSet

\* What a step of a request leaves behind.
Good(t) == ReceiverTyped' /\ Serving' /\ Served(t)

\* The rest of the receiver after a step of a request.
Around ==
  /\ Uploaded
  /\ hasher' \in [Uploads -> HasherSet]
  /\ files' \subseteq FileSet /\ files \subseteq files'
  /\ faults' \in 0..MaxFaults

\* A request that is answered, or ends.
LEMMA Answered ==
  ASSUME ReceiverTyped, Serving, Around, NEW t \in Tasks, req[t].pc \in Working \union {"get"},
         NEW answer \in Answers, answer = "stored" => req[t].pc = "tidy", Reply(t, answer)
  PROVE  Good(t)
<1>1. /\ req' \in [Tasks -> RequestSet]
      /\ \A s \in Tasks \ {t} : req'[s] = req[s]
      /\ req'[t].pc \in {"idle", answer} /\ req'[t].up = 0 /\ req'[t].off = 0 /\ req'[t].n = 0
  BY Replies
<1>2. Served(t)
  BY <1>1 DEF Served, Around, Uploaded, Answers
<1>3. Serving'
  <2>1. 0 + 0 <= Size
    BY UploadAssumption
  <2>2. req'[t].pc \notin Working
    BY <1>1 DEF Answers, Working
  <2>3. ASSUME NEW s \in Tasks
        PROVE  /\ req'[s].pc \in Working => req'[s].up \in Uploads /\ up'[req'[s].up].asset \in Assets
               /\ req'[s].off + req'[s].n <= Size
               /\ req'[s].pc = "hash" => req'[s].n > 0
    <3>1. CASE s = t
      BY <1>1, <2>1, <2>2, <3>1 DEF Working
    <3>2. CASE s # t
      BY <1>1, <3>2 DEF Serving, Around, Uploaded
    <3>3. QED
      BY <3>1, <3>2
  <2>4. QED
    BY <2>3 DEF Serving, Around, Uploaded
<1>4. QED
  BY <1>1, <1>2, <1>3 DEF Good, ReceiverTyped, Around, Uploaded

\* A request that goes on.
LEMMA WentOn ==
  ASSUME ReceiverTyped, Serving, Around, NEW t \in Tasks, req[t].pc \in Working \union {"get"},
         NEW pc \in Working, NEW n \in 0..Size, GoesOn(t, pc, n),
         req[t].up \in Uploads, up[req[t].up].asset \in Assets,
         req[t].off + n <= Size, pc = "hash" => n > 0,
         pc = "tidy" => \E f \in files' : f.asset = up[req[t].up].asset
  PROVE  Good(t)
<1>1. Served(t)
  BY DEF Served, Around, Uploaded, GoesOn
<1>2. Serving'
  BY DEF Serving, Around, Uploaded, GoesOn
<1>3. QED
  BY <1>1, <1>2 DEF Good, ReceiverTyped, Around, Uploaded, GoesOn

\* Every step of a request keeps the types, and goes on, ends or answers.
LEMMA Handling ==
  ASSUME ReceiverTyped, Serving, NEW t \in Tasks, Handle(t) \/ ShortWrite(t)
  PROVE  Good(t)
<1>1. /\ req[t] \in RequestSet /\ up \in [Uploads -> UploadSet] /\ hasher \in [Uploads -> HasherSet]
      /\ files \subseteq FileSet /\ faults \in 0..MaxFaults
      /\ req[t].n \in 0..Size /\ req[t].off \in 0..Size /\ Size \in Nat \ {0}
      /\ req[t].off + req[t].n <= Size
      /\ req[t].pc \in Working =>
           /\ req[t].up \in Uploads /\ up[req[t].up].asset \in Assets
           /\ up[req[t].up] \in UploadSet /\ hasher[req[t].up] \in HasherSet
  BY UploadAssumption DEF ReceiverTyped, Serving, RequestSet
<1>2. {"open", "copy", "hash", "error", "digest", "commit", "tidy"} \subseteq Working
  BY DEF Working
<1>3. {"stored", "nothing", "refused"} \subseteq Answers
  BY DEF Answers
<1>4. ASSUME NEW pc \in Working, Goes(t, pc), Around, req[t].pc \in Working \union {"get"},
             req[t].up \in Uploads, up[req[t].up].asset \in Assets, pc # "hash",
             pc = "tidy" => \E f \in files' : f.asset = up[req[t].up].asset
      PROVE  Good(t)
  <2>1. GoesOn(t, pc, req[t].n)
    BY <1>4, Going
  <2>2. QED
    BY <1>1, <1>4, <2>1, WentOn
<1>5. UNCHANGED <<up, hasher, files, faults>> => Around
  BY <1>1 DEF Around, Uploaded
<1>6. CASE Get(t)
  <2>1. Around /\ req[t].pc \in Working \union {"get"}
    BY <1>5, <1>6 DEF Get
  <2>2. CASE Reply(t, "refused") \/ Reply(t, "nothing")
    BY <1>3, <2>1, <2>2, Answered
  <2>3. CASE Known(req[t].up) /\ Goes(t, "open")
    <3>1. req[t].up \in Uploads /\ up[req[t].up].info
      BY <2>3 DEF Known
    <3>2. up[req[t].up].asset \in Assets
      BY <3>1 DEF Serving
    <3>3. QED
      BY <1>2, <1>4, <2>1, <2>3, <3>1, <3>2
  <2>4. QED
    BY <1>6, <2>2, <2>3 DEF Get
<1>7. CASE Open(t)
  <2>1. req[t].pc = "open" /\ req[t].up \in Uploads /\ up[req[t].up].asset \in Assets /\ req[t].pc \in Working
    BY <1>1, <1>2, <1>7 DEF Open
  <2>2. CASE Reply(t, "refused") /\ hasher' = hasher
    <3>1. Around
      BY <1>5, <1>7, <2>2 DEF Open
    <3>2. QED
      BY <1>3, <2>1, <2>2, <3>1, Answered
  <2>3. CASE ~(Reply(t, "refused") /\ hasher' = hasher)
    <3>1. PICK h \in HasherSet :
            /\ hasher' = [hasher EXCEPT ![req[t].up] = h]
            /\ req' = [req EXCEPT ![t].pc = "copy", ![t].hashing = h.in]
      <4>1. HasherFor(req[t].up, req[t].off) \in HasherSet
        BY <1>1, <2>1, Nothing DEF HasherFor, HasherSet
      <4>2. QED
        BY <1>7, <2>3, <4>1 DEF Open
    <3>2. GoesOn(t, "copy", req[t].n)
      <4>1. PICK b \in BOOLEAN : b = h.in
        BY <3>1 DEF HasherSet
      <4>2. req' = [req EXCEPT ![t].pc = "copy", ![t].hashing = b]
        BY <3>1, <4>1
      <4>3. QED
        BY <1>2, <4>2, Going
    <3>3. Around
      BY <1>1, <1>7, <3>1 DEF Open, Around, Uploaded
    <3>4. QED
      BY <1>1, <1>2, <2>1, <3>2, <3>3, WentOn
  <2>4. QED
    BY <2>2, <2>3
\* A chunk lands in the file; n counts it.
<1>8. ASSUME Sending(t), Land(t), NEW pc \in {"hash", "copy", "error"},
             req' = [req EXCEPT ![t].n = @ + 1, ![t].pc = pc],
             UNCHANGED <<hasher, files>>, faults' \in 0..MaxFaults
      PROVE  Good(t)
  <2>1. /\ req[t].up \in Uploads /\ up[req[t].up].asset \in Assets /\ req[t].pc \in Working
        /\ req[t].off + req[t].n < Size /\ up[req[t].up].data \in Chunks
    BY <1>1, <1>2, <1>8 DEF Sending, UploadSet
  <2>2. PICK n : n = req[t].n + 1
    OBVIOUS
  <2>3. n \in 0..Size /\ n > 0 /\ req[t].off + n <= Size
    BY <1>1, <2>1, <2>2
  <2>4. req' = [req EXCEPT ![t].n = n, ![t].pc = pc]
    BY <1>8, <2>2
  <2>5. GoesOn(t, pc, n)
    BY <1>2, <2>3, <2>4, Going
  <2>6. PICK d \in Chunks : up' = [up EXCEPT ![req[t].up].data = d]
    <3>1. Body(t) \in 1..Size
      BY <1>1, <2>1 DEF Body
    <3>2. PICK u \in Uploads : u = req[t].up
      BY <2>1
    <3>3. PICK d : d = IF Len(up[u].data) < 2 * Size THEN Append(up[u].data, Body(t)) ELSE up[u].data
      OBVIOUS
    <3>4. d \in Chunks
      BY <2>1, <3>1, <3>2, <3>3, Appending
    <3>5. up' = [up EXCEPT ![u].data = d]
      BY <1>8, <3>2, <3>3 DEF Land
    <3>6. QED
      BY <3>2, <3>4, <3>5
  <2>7. Around
    BY <1>1, <1>8, <2>1, <2>6, Uploading DEF Around
  <2>8. QED
    BY <1>2, <2>1, <2>3, <2>5, <2>7, WentOn
<1>9. CASE Write(t)
  <2>1. faults' \in 0..MaxFaults
    BY <1>1, <1>9, UploadAssumption DEF Write, Fault
  <2>2. QED
    BY <1>8, <1>9, <2>1 DEF Write
<1>10. CASE ShortWrite(t)
  <2>1. faults' \in 0..MaxFaults
    BY <1>1, <1>10, UploadAssumption DEF ShortWrite, Fault
  <2>2. QED
    BY <1>8, <1>10, <2>1 DEF ShortWrite
<1>11. CASE Hash(t)
  <2>1. req[t].pc = "hash" /\ req[t].n > 0 /\ req[t].up \in Uploads /\ up[req[t].up].asset \in Assets /\ req[t].pc \in Working
    BY <1>1, <1>2, <1>11 DEF Hash, Serving
  <2>2. PICK u \in Uploads : u = req[t].up
    BY <2>1
  <2>3. hasher[u].sum \in Chunks /\ req[t].off + req[t].n \in 1..Size
    BY <1>1, <2>1, <2>2 DEF HasherSet
  <2>4. PICK d : d = IF Len(hasher[u].sum) < 2 * Size THEN Append(hasher[u].sum, req[t].off + req[t].n)
                     ELSE hasher[u].sum
    OBVIOUS
  <2>5. d \in Chunks
    BY <2>3, <2>4, Appending
  <2>6. hasher' = [hasher EXCEPT ![u].sum = d] /\ Goes(t, "copy") /\ UNCHANGED <<up, files, faults>>
    BY <1>11, <2>2, <2>4 DEF Hash
  <2>7. Around
    BY <1>1, <2>2, <2>5, <2>6, Hashing DEF Around, Uploaded
  <2>8. QED
    BY <1>2, <1>4, <2>1, <2>6, <2>7
\* advanceHasher moves a hasher to an offset within the file.
<1>12. ASSUME req[t].pc \in Working, hasher' = Advanced(t) PROVE hasher' \in [Uploads -> HasherSet]
  <2>1. PICK n \in 0..Size : n = req[t].off + req[t].n
    BY <1>1
  <2>2. hasher' = [hasher EXCEPT ![req[t].up].offset = n] \/ hasher' = hasher
    BY <1>12, <2>1 DEF Advanced
  <2>3. QED
    BY <1>1, <1>12, <2>2, Hashing
<1>13. CASE EndOfBody(t) \/ WriteFailed(t)
  <2>1. req[t].pc \in Working /\ req[t].up \in Uploads /\ up[req[t].up].asset \in Assets
    BY <1>1, <1>2, <1>13 DEF EndOfBody, WriteFailed
  <2>2. Around
    BY <1>1, <1>12, <1>13, <2>1 DEF EndOfBody, WriteFailed, Around, Uploaded
  <2>3. Reply(t, "refused") \/ Goes(t, "digest")
    BY <1>13 DEF EndOfBody, WriteFailed
  <2>4. QED
    BY <1>2, <1>3, <1>4, <2>1, <2>2, <2>3, Answered
<1>14. CASE Digest(t)
  <2>1. PICK u \in Uploads : u = req[t].up /\ up[u].asset \in Assets /\ req[t].pc \in Working
    BY <1>1, <1>2, <1>14 DEF Digest
  <2>2. PICK d \in Chunks : d = IF Taken(u) THEN hasher[u].sum ELSE up[u].data
    BY <1>1, <2>1 DEF HasherSet, UploadSet
  <2>3. hasher' \in [Uploads -> HasherSet] /\ UNCHANGED <<files, faults>>
    BY <1>14, <2>1, Hashing DEF Digest
  <2>4. CASE Mismatch(u, d)
    <3>1. PICK b : b = IF up[u].bin = "incoming" THEN "gone" ELSE up[u].bin
      OBVIOUS
    <3>2. b \in Places
      BY <1>1, <2>1, <3>1 DEF UploadSet, Places
    <3>3. Reply(t, "refused") /\ up' = [up EXCEPT ![u].info = FALSE, ![u].bin = b]
      BY <1>14, <2>1, <2>2, <2>4, <3>1 DEF Digest
    <3>4. Around
      BY <1>1, <2>3, <3>2, <3>3, Uploading DEF Around
    <3>5. QED
      BY <1>3, <2>1, <3>3, <3>4, Answered
  <2>5. CASE ~Mismatch(u, d)
    <3>1. req' = [req EXCEPT ![t].pc = "commit", ![t].digest = d] /\ up' = up
      BY <1>14, <2>1, <2>2, <2>5 DEF Digest
    <3>2. GoesOn(t, "commit", req[t].n)
      BY <1>2, <2>2, <3>1, Going
    <3>3. Around
      BY <1>1, <2>3, <3>1 DEF Around, Uploaded
    <3>4. QED
      BY <1>1, <1>2, <2>1, <3>2, <3>3, WentOn
  <2>6. QED
    BY <2>4, <2>5
<1>15. CASE Commit(t)
  <2>1. PICK u \in Uploads : u = req[t].up /\ up[u].asset \in Assets /\ req[t].pc \in Working /\ up[u] \in UploadSet
    BY <1>1, <1>2, <1>15 DEF Commit
  <2>2. Goes(t, "tidy") /\ UNCHANGED <<hasher, faults>>
    BY <1>15 DEF Commit
  <2>3. CASE /\ Held(up[u].asset, req[t].digest)
             /\ up' = [up EXCEPT ![u].bin = IF @ = "incoming" THEN "gone" ELSE @]
             /\ files' = files
    <3>1. PICK b : b = IF up[u].bin = "incoming" THEN "gone" ELSE up[u].bin
      OBVIOUS
    <3>2. b \in Places /\ up' = [up EXCEPT ![u].bin = b]
      BY <2>1, <2>3, <3>1 DEF UploadSet, Places
    <3>3. Around
      BY <1>1, <2>2, <2>3, <3>2, Uploading DEF Around
    <3>4. QED
      BY <1>2, <1>4, <2>1, <2>2, <2>3, <3>3 DEF Held
  <2>4. CASE /\ up' = [up EXCEPT ![u].bin = "stored"]
             /\ files' = files \union {[asset |-> up[u].asset, up |-> u, digest |-> req[t].digest]}
    <3>1. PICK f : f = [asset |-> up[u].asset, up |-> u, digest |-> req[t].digest]
      OBVIOUS
    <3>2. f \in FileSet /\ f.asset = up[u].asset /\ f \in files'
      BY <1>1, <2>1, <2>4, <3>1 DEF FileSet, RequestSet
    <3>3. files' = files \union {f}
      BY <2>4, <3>1
    <3>4. Uploaded
      BY <2>4, Uploading DEF Places
    <3>5. Around
      BY <1>1, <2>2, <3>2, <3>3, <3>4 DEF Around
    <3>6. QED
      BY <1>2, <1>4, <2>1, <2>2, <3>2, <3>5
  <2>5. QED
    BY <1>15, <2>1, <2>3, <2>4 DEF Commit
<1>16. CASE FinishFails(t)
  <2>1. req[t].pc \in Working /\ req[t].up \in Uploads
    BY <1>1, <1>2, <1>16 DEF FinishFails
  <2>2. Around /\ Reply(t, "refused")
    BY <1>1, <1>16, <2>1, Hashing DEF FinishFails, Around, Uploaded
  <2>3. QED
    BY <1>3, <2>1, <2>2, Answered
<1>17. CASE Tidy(t)
  <2>1. req[t].pc = "tidy" /\ req[t].pc \in Working /\ req[t].up \in Uploads /\ Reply(t, "stored")
    BY <1>1, <1>2, <1>17 DEF Tidy
  <2>2. Around
    BY <1>1, <1>17, <2>1, Hashing, Uploading DEF Tidy, Around
  <2>3. QED
    BY <1>3, <2>1, <2>2, Answered
<1>18. QED
  BY <1>6, <1>7, <1>9, <1>10, <1>11, <1>13, <1>14, <1>15, <1>16, <1>17 DEF Handle

-----------------------------------------------------------------------------
(* Steps of the receiver, as the phone sees them.                          *)

\* A request that was lost, was answered, or goes on.
Settled ==
  \A t \in Tasks :
    \/ req'[t] = req[t]
    \/ /\ req'[t].up = req[t].up /\ req'[t].pc # "stored"
       /\ req'[t].pc = "tidy" => req[t].pc \in Working /\ \E f \in files' : f.asset = up[req[t].up].asset
    \/ req'[t].up = 0 /\ req'[t].pc \notin {"stored", "tidy"}
    \/ req[t].pc = "tidy" /\ req'[t].up = 0 /\ req'[t].pc \in {"idle", "stored"}

\* Files are held as ever, and no path goes to another file.
LEMMA VouchedBeside ==
  ASSUME BackgroundInv, Grows, Settled, UNCHANGED phone
  PROVE  Named' /\ Vouched'
<1> USE DEF For, Has
<1>1. Named /\ Vouched /\ Busy /\ ReceiverTyped /\ Serving /\ PhoneTyped
  BY DEF BackgroundInv
<1>2. /\ \A u \in Uploads : up[u].asset \in Assets => up'[u].asset = up[u].asset
      /\ \A j : (\E f \in files : f.asset = j) => \E f \in files' : f.asset = j
  BY DEF Grows
<1>3. ASSUME NEW t \in Tasks, task[t].st = "live", req'[t].up # 0
      PROVE  req'[t].up \in Uploads /\ up'[req'[t].up].asset = task[t].job
  <2>1. task[t].job \in Assets /\ (req[t].up # 0 => req[t].up \in Uploads /\ up[req[t].up].asset = task[t].job)
    BY <1>1, <1>3 DEF Busy, Named
  <2>2. req'[t].up = req[t].up
    BY <1>3 DEF Settled
  <2>3. QED
    BY <1>2, <1>3, <2>1, <2>2
<1>4. Named'
  <2>1. ASSUME NEW j \in Assets PROVE For(job[j].loc, j)'
    BY <1>1, <1>2 DEF Named
  <2>2. ASSUME NEW r \in Callers, NEW j \in Assets PROVE (For(caller[r].jobs[j].loc, j) /\ ~caller[r].jobs[j].path)'
    BY <1>1, <1>2 DEF Named
  <2>3. (batch.pc = "made" => For(batch.up, batch.job))'
    BY <1>1, <1>2 DEF Named, Busy
  <2>4. ASSUME NEW t \in Tasks PROVE (task[t].st = "live" => For(req[t].up, task[t].job))'
    BY <1>3
  <2>5. QED
    BY <2>1, <2>2, <2>3, <2>4 DEF Named
<1>5. ASSUME NEW t \in Tasks
      PROVE  /\ (req[t].pc = "tidy" => Has(up[req[t].up].asset))'
             /\ (req[t].pc = "stored" /\ task[t].st = "live" => Has(task[t].job))'
             /\ (task[t].status = "path" => Has(task[t].job))'
  <2>1. (task[t].status = "path" => Has(task[t].job))'
    BY <1>1, <1>2 DEF Vouched
  <2>2. CASE req'[t] = req[t]
    <3>1. req[t].pc = "tidy" => up'[req[t].up].asset = up[req[t].up].asset
      BY <1>1 DEF Serving, Grows, Working
    <3>2. req[t].pc = "tidy" => \E f \in files' : f.asset = up'[req'[t].up].asset
      BY SMTT(30), <1>1, <1>2, <2>2, <3>1 DEF Vouched
    <3>3. req[t].pc = "stored" /\ task[t].st = "live" => \E f \in files' : f.asset = task[t].job
      BY <1>1, <1>2 DEF Vouched
    <3>4. QED
      BY <2>1, <2>2, <3>2, <3>3
  <2>3. CASE /\ req'[t].up = req[t].up /\ req'[t].pc # "stored"
             /\ req'[t].pc = "tidy" => req[t].pc \in Working /\ \E f \in files' : f.asset = up[req[t].up].asset
    <3>1. req[t].pc \in Working => up'[req[t].up].asset = up[req[t].up].asset
      BY <1>1 DEF Serving, Grows
    <3>2. req'[t].pc = "tidy" => \E f \in files' : f.asset = up'[req'[t].up].asset
      BY <2>3, <3>1
    <3>3. QED
      BY <2>1, <2>3, <3>2
  <2>4. CASE req'[t].up = 0 /\ req'[t].pc \notin {"stored", "tidy"}
    BY <2>1, <2>4
  <2>5. CASE req[t].pc = "tidy" /\ req'[t].up = 0 /\ req'[t].pc \in {"idle", "stored"}
    <3>1. req[t].up # 0 /\ \E f \in files : f.asset = up[req[t].up].asset
      BY <1>1, <2>5, UploadAssumption DEF Vouched, Serving, Working, Uploads
    <3>2. task[t].st = "live" => up[req[t].up].asset = task[t].job
      BY <1>1, <3>1 DEF Named
    <3>3. QED
      BY <1>2, <2>1, <2>5, <3>1, <3>2
  <2>6. QED
    BY <2>2, <2>3, <2>4, <2>5 DEF Settled
<1>6. Vouched'
  <2>1. ASSUME NEW j \in Assets PROVE (job[j].path => Has(j))'
    BY <1>1, <1>2 DEF Vouched
  <2>2. ASSUME NEW e \in rec'.left PROVE e[2] => Has(e[1])'
    BY <1>1, <1>2, <2>2 DEF Vouched
  <2>3. PathIsHeld'
    BY <1>1, <1>2 DEF Vouched, PathIsHeld
  <2>4. QED
    BY <1>5, <2>1, <2>2, <2>3 DEF Vouched
<1>7. QED
  BY <1>4, <1>6

\* A step of the receiver alone keeps the invariant.
LEMMA ReceiverStep ==
  ASSUME BackgroundInv, UNCHANGED phone,
         \/ \E t \in Tasks : Handle(t) \/ ShortWrite(t)
         \/ Kill
         \/ \E u \in Uploads : Sweep(u)
  PROVE  BackgroundInv'
<1>1. ReceiverTyped /\ Serving
  BY DEF BackgroundInv
<1>2. ReceiverTyped' /\ Serving' /\ Grows /\ Settled
  <2>1. ASSUME NEW t \in Tasks, Handle(t) \/ ShortWrite(t) PROVE ReceiverTyped' /\ Serving' /\ Grows /\ Settled
    <3>1. ReceiverTyped' /\ Serving' /\ Served(t)
      BY <1>1, <2>1, Handling DEF Good
    <3>2. Grows
      BY <3>1 DEF Served, Grows
    <3>3. Settled
      <4>1. req[t].pc = "get" => req'[t].pc # "tidy"
        <5>1. ASSUME req[t].pc = "get" PROVE Get(t)
          BY <2>1, <5>1 DEF Handle, ShortWrite, Get, Open, Write, Hash, EndOfBody, WriteFailed, Digest, Commit,
             FinishFails, Tidy, Sending
        <5>2. ASSUME req[t].pc = "get", Goes(t, "open") PROVE req'[t].pc # "tidy"
          BY <1>1, <5>2, Going DEF GoesOn, Working
        <5>3. ASSUME NEW answer \in {"refused", "nothing"}, Reply(t, answer) PROVE req'[t].pc # "tidy"
          BY <1>1, <5>3, Replies DEF Answers
        <5>4. QED
          BY <5>1, <5>2, <5>3 DEF Get
      <4>2. QED
        BY <3>1, <4>1 DEF Served, Settled, Working
    <3>4. QED
      BY <3>1, <3>2, <3>3
  <2>2. CASE Kill
    <3>1. faults' \in 0..MaxFaults /\ UNCHANGED <<up, files>> /\ hasher' \in [Uploads -> HasherSet]
      BY <1>1, <2>2, Nothing, UploadAssumption DEF Kill, Fault, ReceiverTyped
    <3>2. ASSUME NEW t \in Tasks
          PROVE  \/ req'[t] = req[t]
                 \/ /\ req'[t] \in RequestSet /\ req'[t].pc \in {"idle", "refused"} /\ req'[t].up = 0
                    /\ req'[t].off = 0 /\ req'[t].n = 0
      <4>1. PICK r : r = [NoRequest EXCEPT !.pc = "refused"]
        OBVIOUS
      <4>2. r \in RequestSet /\ r.pc = "refused" /\ r.up = 0 /\ r.off = 0 /\ r.n = 0
        BY <4>1, Nothing DEF RequestSet, Answers
      <4>3. req'[t] \in {req[t], NoRequest, r}
        BY <2>2, <4>1 DEF Kill
      <4>4. QED
        BY <4>2, <4>3, Nothing
    <3>3. DOMAIN req' = Tasks /\ req' = [t \in Tasks |-> req'[t]]
      BY <2>2 DEF Kill
    <3>4. req' \in [Tasks -> RequestSet]
      BY <1>1, <3>2, <3>3 DEF ReceiverTyped
    <3>5. ReceiverTyped'
      BY <1>1, <3>1, <3>4 DEF ReceiverTyped
    <3>6. Serving'
      BY <1>1, <3>1, <3>2, UploadAssumption DEF Serving, Working
    <3>7. Grows /\ Settled
      BY <3>1, <3>2 DEF Grows, Settled
    <3>8. QED
      BY <3>5, <3>6, <3>7
  <2>3. ASSUME NEW u \in Uploads, Sweep(u) PROVE ReceiverTyped' /\ Serving' /\ Grows /\ Settled
    <3>1. faults' \in 0..MaxFaults /\ UNCHANGED <<files, req>>
      BY <1>1, <2>3, UploadAssumption DEF Sweep, Fault, ReceiverTyped
    <3>2. hasher' \in [Uploads -> HasherSet]
      BY <1>1, <2>3, Hashing DEF Sweep, ReceiverTyped
    <3>3. Uploaded
      BY <1>1, <2>3, Uploading DEF Sweep, Places
    <3>4. ReceiverTyped' /\ Serving'
      BY <1>1, <3>1, <3>2, <3>3 DEF ReceiverTyped, Serving, Uploaded
    <3>5. QED
      BY <3>1, <3>3, <3>4 DEF Grows, Settled, Uploaded
  <2>4. QED
    BY <2>1, <2>2, <2>3
<1>3. Named' /\ Vouched'
  BY <1>2, VouchedBeside
<1>4. QED
  BY <1>2, <1>3 DEF BackgroundInv, PhoneTyped, Busy, Attached, GivenUp

-----------------------------------------------------------------------------
(* The invariant by the variable it constrains.                            *)

JobsFine ==
  /\ job \in [Assets -> JobSet]
  /\ \A j \in Assets : For(job[j].loc, j) /\ (job[j].path => Has(j))

TasksFine ==
  /\ task \in [Tasks -> TaskSet]
  /\ \A t \in Tasks :
       /\ task[t].st # "free" => task[t].job \in Assets
       /\ task[t].st = "live" => For(req[t].up, task[t].job)
       /\ req[t].pc = "tidy" => Has(up[req[t].up].asset)
       /\ req[t].pc = "stored" /\ task[t].st = "live" => Has(task[t].job)
       /\ task[t].status = "path" => Has(task[t].job)

\* What a call of reconcile or retryFailed has read.
CallFine(c) ==
  /\ c \in CallSet
  /\ c.pc \in {"head", "at", "create", "enqueue"} => c.job \in Assets
  /\ c.pc \in {"head", "at", "create"} => ~GivenUp(c.jobs[c.job])
  /\ \A j \in Assets : For(c.jobs[j].loc, j) /\ ~c.jobs[j].path

CallsFine ==
  /\ caller \in [Callers -> CallSet]
  /\ \A r \in Callers : CallFine(caller[r])

BatchFine ==
  /\ batch \in BatchSet
  /\ batch.pc # "idle" => batch.job \in Assets
  /\ batch.pc = "made" => For(batch.up, batch.job)

RestFine ==
  /\ rec \in RecSet /\ \A e \in rec.left : e[2] => Has(e[1])
  /\ sent \in [Assets -> {"no", "path", "nopath"}] /\ PathIsHeld
  /\ staged \subseteq Assets /\ batches \in 0..MaxBatches

Fine ==
  /\ ReceiverTyped /\ Serving /\ JobsFine /\ TasksFine /\ CallsFine /\ BatchFine /\ RestFine /\ Attached

\* The parts make up the invariant.
LEMMA Parts == BackgroundInv <=> Fine
<1> USE DEF Fine, BackgroundInv, PhoneTyped, Busy, Named, Vouched,
            JobsFine, TasksFine, CallsFine, CallFine, BatchFine, RestFine
<1>1. BackgroundInv => Fine
  OBVIOUS
<1>2. Fine => BackgroundInv
  OBVIOUS
<1>3. QED
  BY <1>1, <1>2

\* After a step, too.
LEMMA PartsAfter == Fine' => BackgroundInv'
BY Parts, PTL

\* Uploads that were made for files stay theirs, and what is held stays held.
LEMMA Lasting ==
  ASSUME Grows
  PROVE  /\ \A u, j : j \in Assets /\ (u # 0 => u \in Uploads /\ up[u].asset = j)
                       => (u # 0 => u \in Uploads /\ up'[u].asset = j)
         /\ \A j : (\E f \in files : f.asset = j) => \E f \in files' : f.asset = j
BY DEF Grows

\* A part whose variable a step leaves alone.
LEMMA PartsKept ==
  ASSUME Fine, Grows
  PROVE  /\ UNCHANGED job => JobsFine'
         /\ UNCHANGED <<task, req>> => TasksFine'
         /\ UNCHANGED caller => CallsFine'
         /\ UNCHANGED batch => BatchFine'
         /\ UNCHANGED <<rec, sent, staged, batches>> => RestFine'
<1> USE DEF For, Has
<1>1. ASSUME UNCHANGED job PROVE JobsFine'
  BY <1>1, Lasting DEF Fine, JobsFine
<1>2. ASSUME UNCHANGED <<task, req>> PROVE TasksFine'
  <2>1. ASSUME NEW t \in Tasks, req[t].pc = "tidy" PROVE up'[req[t].up].asset = up[req[t].up].asset
    BY <2>1 DEF Grows, Fine, Serving, Working
  <2>2. ASSUME NEW t \in Tasks
        PROVE  /\ task[t].st # "free" => task[t].job \in Assets
               /\ (task[t].st = "live" => For(req[t].up, task[t].job))'
               /\ req[t].pc = "stored" /\ task[t].st = "live" => Has(task[t].job)'
               /\ task[t].status = "path" => Has(task[t].job)'
    BY <1>2, Lasting DEF Fine, TasksFine
  <2>3. ASSUME NEW t \in Tasks, req[t].pc = "tidy" PROVE \E f \in files' : f.asset = up'[req[t].up].asset
    BY <2>1, <2>3, Lasting DEF Fine, TasksFine
  <2>4. task' \in [Tasks -> TaskSet] /\ task' = task /\ req' = req
    BY <1>2 DEF Fine, TasksFine
  <2>5. QED
    BY <2>2, <2>3, <2>4 DEF TasksFine
<1>3. ASSUME UNCHANGED caller PROVE CallsFine'
  BY <1>3, Lasting DEF Fine, CallsFine, CallFine, GivenUp
<1>4. ASSUME UNCHANGED batch PROVE BatchFine'
  BY <1>4, Lasting DEF Fine, BatchFine
<1>5. ASSUME UNCHANGED <<rec, sent, staged, batches>> PROVE RestFine'
  BY <1>5, Lasting DEF Fine, RestFine, PathIsHeld
<1>6. QED
  BY <1>1, <1>2, <1>3, <1>4, <1>5

\* One job is written.
LEMMA JobWritten ==
  ASSUME Fine, Grows, NEW j \in Assets, NEW x \in JobSet, For(x.loc, j)', x.path => Has(j)',
         job' = [job EXCEPT ![j] = x]
  PROVE  JobsFine'
BY Lasting DEF Fine, JobsFine, For, Has

\* store.update writes a job that is there, or nothing.
LEMMA Updating ==
  ASSUME Fine, Grows, NEW j \in Assets, NEW x \in JobSet, For(x.loc, j)', x.path => Has(j)',
         x.st = "none" => job[j].st = "none", Update(j, x)
  PROVE  /\ JobsFine' /\ DOMAIN job' = Assets
         /\ \A k \in Assets : job'[k].st = "none" <=> job[k].st = "none"
<1>1. PICK y : y = IF job[j].st = "none" THEN job[j] ELSE [x EXCEPT !.fresh = Unfinished(x)]
  OBVIOUS
<1>2. job' = [job EXCEPT ![j] = y]
  BY <1>1 DEF Update
<1>3. CASE job[j].st = "none"
  <2>1. job' = job
    BY <1>1, <1>2, <1>3 DEF Fine, JobsFine
  <2>2. QED
    BY <2>1, PartsKept DEF Fine, JobsFine
<1>4. CASE job[j].st # "none"
  <2>0. PICK f \in BOOLEAN : f = Unfinished(x)
    <3>1. Unfinished(x) \in BOOLEAN
      BY DEF Unfinished
    <3>2. QED
      BY <3>1
  <2>1. y = [x EXCEPT !.fresh = f]
    BY <1>1, <1>4, <2>0
  <2>2. y \in JobSet /\ y.loc = x.loc /\ y.path = x.path /\ y.st # "none"
    BY <1>4, <2>1 DEF JobSet
  <2>3. For(y.loc, j)' /\ (y.path => Has(j)')
    BY <2>2 DEF For
  <2>4. JobsFine'
    BY <1>2, <2>2, <2>3, JobWritten
  <2>5. QED
    BY <1>2, <1>4, <2>2, <2>4 DEF Fine, JobsFine
<1>5. QED
  BY <1>3, <1>4

\* One call goes on.
LEMMA CallGoesOn ==
  ASSUME Fine, Grows, NEW r \in Callers, NEW c, CallFine(c)', caller' = [caller EXCEPT ![r] = c]
  PROVE  CallsFine'
<1>1. c \in CallSet
  BY DEF CallFine
<1>2. \A q \in Callers : caller'[q] = IF q = r THEN c ELSE caller[q]
  BY DEF Fine, CallsFine
<1>3. caller' \in [Callers -> CallSet]
  BY <1>1 DEF Fine, CallsFine
<1>4. ASSUME NEW q \in Callers, q # r PROVE CallFine(caller[q])'
  BY <1>2, <1>4, Lasting DEF Fine, CallsFine, CallFine, GivenUp, For
<1>5. ASSUME NEW q \in Callers, q = r PROVE CallFine(caller[q])'
  <2>1. caller'[q] = c
    BY <1>2, <1>5
  <2>2. QED
    BY <2>1 DEF CallFine, GivenUp, For
<1>6. QED
  BY <1>3, <1>4, <1>5 DEF CallsFine

\* A request and its task may be where they are.
SlotFine(x, q) ==
  /\ x \in TaskSet /\ q \in RequestSet
  /\ x.st # "free" => x.job \in Assets
  /\ x.st = "live" => For(q.up, x.job)
  /\ q.pc = "tidy" => Has(up[q.up].asset)
  /\ q.pc = "stored" /\ x.st = "live" => Has(x.job)
  /\ x.status = "path" => Has(x.job)
  /\ q.pc \in Working => q.up \in Uploads /\ up[q.up].asset \in Assets
  /\ q.off + q.n <= Size
  /\ q.pc = "hash" => q.n > 0

\* The slots are fine, one by one.
LEMMA Slots ==
  ASSUME Fine, NEW t \in Tasks
  PROVE  SlotFine(task[t], req[t])
BY DEF Fine, TasksFine, Serving, ReceiverTyped, SlotFine

\* Slots are written.
LEMMA SlotsWritten ==
  ASSUME Fine, UNCHANGED <<up, hasher, files, faults>>,
         task' \in [Tasks -> TaskSet], req' \in [Tasks -> RequestSet],
         \A t \in Tasks : SlotFine(task'[t], req'[t])
  PROVE  ReceiverTyped' /\ Serving' /\ TasksFine'
<1>1. ReceiverTyped'
  BY DEF Fine, ReceiverTyped
<1>2. Serving'
  BY DEF Fine, Serving, SlotFine
<1>3. TasksFine'
  BY DEF TasksFine, SlotFine, For, Has
<1>4. QED
  BY <1>1, <1>2, <1>3

\* One slot is written.
LEMMA SlotWritten ==
  ASSUME Fine, UNCHANGED <<up, hasher, files, faults>>,
         NEW t \in Tasks, NEW x, NEW q, SlotFine(x, q),
         task' = [task EXCEPT ![t] = x], req' = [req EXCEPT ![t] = q]
  PROVE  ReceiverTyped' /\ Serving' /\ TasksFine'
<1>1. task \in [Tasks -> TaskSet] /\ req \in [Tasks -> RequestSet] /\ x \in TaskSet /\ q \in RequestSet
  BY DEF Fine, TasksFine, ReceiverTyped, SlotFine
<1>2. task' \in [Tasks -> TaskSet] /\ req' \in [Tasks -> RequestSet]
  BY <1>1
<1>3. ASSUME NEW s \in Tasks PROVE SlotFine(task'[s], req'[s])
  <2>1. CASE s = t
    <3>1. task'[s] = x /\ req'[s] = q
      BY <1>1, <2>1
    <3>2. QED
      BY <3>1
  <2>2. CASE s # t
    <3>1. task'[s] = task[s] /\ req'[s] = req[s]
      BY <1>1, <2>2
    <3>2. QED
      BY <3>1, Slots
  <2>3. QED
    BY <2>1, <2>2
<1>4. QED
  BY <1>2, <1>3, SlotsWritten

\* The tasks and requests of a slot nobody uses, and of one whose request was given up.
LEMMA SlotEnds ==
  ASSUME Fine, NEW t \in Tasks, task[t].st # "free"
  PROVE  /\ SlotFine(NoTask, req[t])
         /\ SlotFine([task[t] EXCEPT !.st = "ended"], Abort(t))
<1>1. SlotFine(task[t], req[t])
  BY Slots
<1>2. NoTask \in TaskSet /\ NoTask.st = "free" /\ NoTask.status = "bad"
  BY DEF NoTask, TaskSet
<1>3. SlotFine(NoTask, req[t])
  BY <1>1, <1>2 DEF SlotFine
<1>4. PICK x : x = [task[t] EXCEPT !.st = "ended"]
  OBVIOUS
<1>5. x \in TaskSet /\ x.st = "ended" /\ x.job = task[t].job /\ x.status = task[t].status
  BY <1>1, <1>4 DEF SlotFine, TaskSet
<1>6. SlotFine(x, NoRequest)
  BY <1>1, <1>5, Nothing, UploadAssumption DEF SlotFine, Working
<1>7. PICK q : q = [req[t] EXCEPT !.cut = TRUE]
  OBVIOUS
<1>8. q \in RequestSet /\ q.pc = req[t].pc /\ q.up = req[t].up /\ q.off = req[t].off /\ q.n = req[t].n
  BY <1>1, <1>7 DEF SlotFine, RequestSet
<1>9. SlotFine(x, q)
  BY <1>1, <1>5, <1>8 DEF SlotFine
<1>10. Abort(t) \in {NoRequest, q}
  BY <1>7 DEF Abort
<1>11. QED
  BY <1>3, <1>4, <1>6, <1>9, <1>10

\* The system takes a task for an upload of the file.
LEMMA Enqueuing ==
  ASSUME Fine, UNCHANGED <<up, hasher, files, faults>>,
         NEW j \in Assets, NEW loc \in 0..MaxUploads, NEW off \in 0..Size, For(loc, j),
         Enqueue(j, [loc |-> loc, off |-> off])
  PROVE  ReceiverTyped' /\ Serving' /\ TasksFine'
<1>1. PICK t \in Tasks :
        /\ Free(t)
        /\ IF j \in staged
           THEN task' = [task EXCEPT ![t] = [st |-> "live", job |-> j, status |-> "bad"]]
                /\ Arrive(t, loc, off)
           ELSE task' = [task EXCEPT ![t] = [st |-> "ended", job |-> j, status |-> "bad"]]
                /\ req' = req
  BY DEF Enqueue
<1>2. CASE j \in staged
  <2>1. PICK x : x = [st |-> "live", job |-> j, status |-> "bad"]
    OBVIOUS
  <2>2. PICK q : q = [NoRequest EXCEPT !.pc = "get", !.up = loc, !.off = off]
    OBVIOUS
  <2>3. x \in TaskSet /\ x.st = "live" /\ x.job = j /\ x.status = "bad"
    BY <2>1 DEF TaskSet
  <2>4. q \in RequestSet /\ q.pc = "get" /\ q.up = loc /\ q.off = off /\ q.n = 0
    BY <2>2, Nothing DEF RequestSet
  <2>5. SlotFine(x, q)
    BY <2>3, <2>4, UploadAssumption DEF SlotFine, Working
  <2>6. task' = [task EXCEPT ![t] = x] /\ req' = [req EXCEPT ![t] = q]
    BY <1>1, <1>2, <2>1, <2>2 DEF Arrive
  <2>7. QED
    BY <2>5, <2>6, SlotWritten
<1>3. CASE j \notin staged
  <2>1. PICK x : x = [st |-> "ended", job |-> j, status |-> "bad"]
    OBVIOUS
  <2>2. x \in TaskSet /\ x.st = "ended" /\ x.job = j /\ x.status = "bad"
    BY <2>1 DEF TaskSet
  <2>3. SlotFine(x, req[t])
    BY <2>2, Slots DEF SlotFine
  <2>4. task' = [task EXCEPT ![t] = x] /\ req' = [req EXCEPT ![t] = req[t]]
    BY <1>1, <1>3, <2>1 DEF Fine, ReceiverTyped
  <2>5. QED
    BY <2>3, <2>4, SlotWritten
<1>4. QED
  BY <1>2, <1>3

\* An upload that is created is the file's; no other is touched.
LEMMA Creating ==
  ASSUME Fine, NEW u \in Uploads, NEW j \in Assets, NEW d \in BOOLEAN,
         NewId(u), NewUpload(u, j, d), UNCHANGED <<hasher, files, req, faults>>
  PROVE  ReceiverTyped' /\ Serving' /\ Grows /\ For(u, j)'
<1>1. PICK x : x = [asset |-> j, declared |-> d, info |-> TRUE, bin |-> "incoming", data |-> <<>>]
  OBVIOUS
<1>2. x \in UploadSet /\ x.asset = j
  <2>1. <<>> \in Chunks
    BY DEF Chunks
  <2>2. QED
    BY <1>1, <2>1 DEF UploadSet, Places
<1>3. up' = [up EXCEPT ![u] = x] /\ up \in [Uploads -> UploadSet]
  BY <1>1 DEF NewUpload, Fine, ReceiverTyped
<1>4. up[u].asset \notin Assets
  BY Nothing, UploadAssumption DEF NewId
<1>5. ReceiverTyped'
  BY <1>2, <1>3 DEF Fine, ReceiverTyped
<1>6. Grows
  BY <1>3, <1>4 DEF Grows
<1>7. Serving'
  BY <1>2, <1>3, <1>6 DEF Fine, Serving, Grows
<1>8. QED
  BY <1>2, <1>3, <1>5, <1>6, <1>7 DEF For

\* What was not yet started is fine.
LEMMA Empty ==
  /\ NoJob \in JobSet /\ NoJob.st = "none" /\ NoJob.loc = 0 /\ ~NoJob.path /\ NoJob.attempts = 0
  /\ NoBatch \in BatchSet /\ NoBatch.pc = "idle" /\ NoBatch.job = None
  /\ NoRec \in RecSet /\ NoRec.pc = "idle" /\ NoRec.left = {}
  /\ NoTask \in TaskSet /\ NoTask.st = "free" /\ NoTask.status = "bad"
  /\ NoCall \in CallSet /\ NoCall.pc = "idle" /\ NoCall.job = None /\ NoCall.jobs = [j \in Assets |-> NoJob]
<1>1. 0 \in 0..MaxUploads /\ 0 \in 0..MaxAttempts /\ 0 \in 0..Size
  BY UploadAssumption, BackgroundAssumption
<1>2. NoJob \in JobSet /\ NoJob.st = "none" /\ NoJob.loc = 0 /\ ~NoJob.path /\ NoJob.attempts = 0
  BY <1>1 DEF NoJob, JobSet
<1>3. NoCall \in CallSet /\ NoCall.pc = "idle" /\ NoCall.job = None /\ NoCall.jobs = [j \in Assets |-> NoJob]
  <2>1. [j \in Assets |-> NoJob] \in [Assets -> JobSet]
    BY <1>2
  <2>2. QED
    BY <1>1, <2>1 DEF NoCall, CallSet
<1>4. QED
  BY <1>1, <1>2, <1>3 DEF NoBatch, BatchSet, NoRec, RecSet, NoTask, TaskSet

\* A step that leaves uploads, files and requests alone.
LEMMA ReceiverKept ==
  ASSUME Fine, UNCHANGED receiver
  PROVE  ReceiverTyped' /\ Serving' /\ Grows
BY DEF Fine, ReceiverTyped, Serving, Grows

\* What a step may do to the copies, when the app is not killed.
Owns == \A j \in staged' : Owned(j)' \/ (j \in staged /\ ~Owned(j))

\* A step that makes no copy, and drops no job whose copy stays.
LEMMA CopiesKept ==
  ASSUME Fine, UNCHANGED batch, staged' \subseteq staged,
         \A k \in staged' : job[k].st # "none" => job'[k].st # "none"
  PROVE  Attached' /\ Owns
BY DEF Fine, Attached, Owns, Owned

-----------------------------------------------------------------------------
(* Steps of the phone.                                                     *)

\* startBackgroundTransfer.
LEMMA BatchSteps ==
  ASSUME Fine, (\E j \in Assets : Stage(j)) \/ (\E u \in Uploads : Start(u)) \/ Started \/ StartFails \/ Discard
  PROVE  Fine' /\ Owns
<1>1. /\ job \in [Assets -> JobSet] /\ batch \in BatchSet /\ staged \subseteq Assets
      /\ batch.pc # "idle" => batch.job \in Assets
      /\ batch.pc = "made" => For(batch.up, batch.job)
  BY DEF Fine, JobsFine, BatchFine, RestFine
<1>2. ASSUME NEW j \in Assets, Stage(j) PROVE Fine' /\ Owns
  <2>1. PICK b : b = [pc |-> "staged", job |-> j, up |-> 0]
    OBVIOUS
  <2>2. b \in BatchSet /\ b.pc = "staged" /\ b.job = j
    BY <2>1, UploadAssumption DEF BatchSet
  <2>3. batch' = b /\ UNCHANGED <<receiver, job, task, caller, rec, sent>>
    BY <1>2, <2>1 DEF Stage
  <2>4. ReceiverTyped' /\ Serving' /\ Grows /\ JobsFine' /\ TasksFine' /\ CallsFine'
    BY <2>3, ReceiverKept, PartsKept
  <2>5. BatchFine' /\ Attached'
    BY <2>2, <2>3 DEF BatchFine, Attached
  <2>6. RestFine'
    BY <1>2, <2>3, BackgroundAssumption DEF Stage, Fine, RestFine, PathIsHeld, Has
  <2>7. Owns
    BY <1>1, <1>2, <2>2, <2>3, Empty, UploadAssumption DEF Stage, Owns, Owned
  <2>8. QED
    BY <2>4, <2>5, <2>6, <2>7 DEF Fine
<1>3. ASSUME NEW u \in Uploads, Start(u) PROVE Fine' /\ Owns
  <2>1. PICK j \in Assets : j = batch.job
    BY <1>1, <1>3 DEF Start
  <2>2. PICK d \in BOOLEAN : NewUpload(u, j, d)
    BY <1>3, <2>1, BackgroundAssumption DEF Start
  <2>3. UNCHANGED <<hasher, files, req, faults, staged, task, caller, rec, sent, batches>> /\ NewId(u)
    BY <1>3 DEF Start
  <2>4. ReceiverTyped' /\ Serving' /\ Grows /\ For(u, j)'
    BY <2>2, <2>3, Creating
  <2>5. TasksFine' /\ CallsFine' /\ RestFine'
    BY <2>3, <2>4, PartsKept
  <2>6. PICK x : x = [st |-> "pending", loc |-> u, attempts |-> 1, path |-> FALSE, fresh |-> TRUE]
    OBVIOUS
  <2>7. x \in JobSet /\ x.st = "pending" /\ x.loc = u /\ ~x.path
    BY <2>6, BackgroundAssumption, UploadAssumption DEF JobSet, Uploads
  <2>8. job' = [job EXCEPT ![j] = x]
    BY <1>3, <2>1, <2>6 DEF Start
  <2>9. For(x.loc, j)'
    BY <2>4, <2>7 DEF For
  <2>10. JobsFine'
    BY <2>4, <2>7, <2>8, <2>9, JobWritten
  <2>11. PICK b : b = [batch EXCEPT !.pc = "made", !.up = u]
    OBVIOUS
  <2>12. b \in BatchSet /\ b.pc = "made" /\ b.up = u /\ b.job = j
    <3>1. u \in 0..MaxUploads
      BY UploadAssumption DEF Uploads
    <3>2. QED
      BY <1>1, <2>1, <2>11, <3>1 DEF BatchSet
  <2>13. batch' = b
    BY <1>3, <2>11 DEF Start
  <2>14. BatchFine'
    BY <2>4, <2>12, <2>13 DEF BatchFine, For
  <2>15. Attached'
    BY <1>1, <2>7, <2>8, <2>12, <2>13 DEF Attached
  <2>16. Owns
    BY <1>1, <2>1, <2>3, <2>7, <2>8, <2>12, <2>13 DEF Owns, Owned
  <2>17. QED
    BY <2>4, <2>5, <2>10, <2>14, <2>15, <2>16 DEF Fine
<1>4. CASE Started
  <2>1. PICK j \in Assets : j = batch.job
    BY <1>1, <1>4 DEF Started
  <2>2. PICK loc \in 0..MaxUploads : loc = batch.up
    BY <1>1 DEF BatchSet
  <2>3. For(loc, j)
    BY <1>1, <1>4, <2>1, <2>2 DEF Started
  <2>4. UNCHANGED <<up, hasher, files, faults, staged, caller, rec, sent, batches>> /\ batch' = NoBatch
    BY <1>4 DEF Started
  <2>5. PICK off \in 0..Size : off = 0
    BY UploadAssumption
  <2>6. Enqueue(j, [loc |-> loc, off |-> off])
    BY <1>4, <2>1, <2>2, <2>5 DEF Started
  <2>7. ReceiverTyped' /\ Serving' /\ TasksFine'
    BY <2>3, <2>4, <2>6, Enqueuing
  <2>8. Grows
    BY <2>4 DEF Grows
  <2>9. PICK x : x = [job[j] EXCEPT !.st = "running"]
    OBVIOUS
  <2>10. x \in JobSet /\ x.st = "running" /\ x.loc = job[j].loc /\ x.path = job[j].path
    BY <1>1, <2>9 DEF JobSet
  <2>11. Update(j, x)
    BY <1>4, <2>1, <2>9 DEF Started
  <2>12. For(x.loc, j)' /\ (x.path => Has(j)')
    BY <2>4, <2>10 DEF Fine, JobsFine, For, Has
  <2>13. JobsFine' /\ \A k \in Assets : job'[k].st = "none" <=> job[k].st = "none"
    BY <2>8, <2>10, <2>11, <2>12, Updating
  <2>14. CallsFine' /\ RestFine'
    BY <2>4, <2>8, PartsKept
  <2>15. BatchFine' /\ Attached'
    BY <2>4, Empty DEF BatchFine, Attached
  <2>16. Owns
    <3>1. j \in staged => job[j].st # "none"
      BY <1>4, <2>1 DEF Started, Fine, Attached
    <3>2. QED
      BY <1>1, <2>1, <2>4, <2>13, <3>1 DEF Owns, Owned
  <2>17. QED
    BY <2>7, <2>13, <2>14, <2>15, <2>16 DEF Fine
<1>5. CASE StartFails
  <2>1. PICK j \in Assets : j = batch.job
    BY <1>1, <1>5 DEF StartFails
  <2>2. UNCHANGED <<receiver, staged, task, caller, rec, sent, batches>>
    BY <1>5 DEF StartFails
  <2>3. ReceiverTyped' /\ Serving' /\ Grows /\ TasksFine' /\ CallsFine' /\ RestFine'
    BY <2>2, ReceiverKept, PartsKept
  <2>4. PICK x : x = [st |-> "failed", loc |-> 0, attempts |-> 1, path |-> FALSE, fresh |-> FALSE]
    OBVIOUS
  <2>5. x \in JobSet /\ x.loc = 0 /\ ~x.path
    BY <2>4, BackgroundAssumption, UploadAssumption DEF JobSet
  <2>6. job' = [job EXCEPT ![j] = x]
    BY <1>5, <2>1, <2>4 DEF StartFails
  <2>7. For(x.loc, j)'
    BY <2>5 DEF For
  <2>8. JobsFine'
    BY <2>3, <2>5, <2>6, <2>7, JobWritten
  <2>9. PICK b : b = [batch EXCEPT !.pc = "refused"]
    OBVIOUS
  <2>10. b \in BatchSet /\ b.pc = "refused" /\ b.job = j
    BY <1>1, <2>1, <2>9 DEF BatchSet
  <2>11. batch' = b
    BY <1>5, <2>9 DEF StartFails
  <2>12. BatchFine' /\ Attached'
    BY <2>10, <2>11 DEF BatchFine, Attached
  <2>13. Owns
    BY <1>1, <2>1, <2>2, <2>6, <2>10, <2>11 DEF Owns, Owned
  <2>14. QED
    BY <2>3, <2>8, <2>12, <2>13 DEF Fine
<1>6. CASE Discard
  <2>1. UNCHANGED <<receiver, job, task, caller, rec, sent, batches>> /\ batch' = NoBatch /\ staged' \subseteq staged
    BY <1>6 DEF Discard
  <2>2. ReceiverTyped' /\ Serving' /\ Grows /\ JobsFine' /\ TasksFine' /\ CallsFine'
    BY <2>1, ReceiverKept, PartsKept
  <2>3. BatchFine' /\ Attached'
    BY <2>1, Empty DEF BatchFine, Attached
  <2>4. RestFine'
    BY <2>1 DEF Fine, RestFine, PathIsHeld, Has
  <2>5. Owns
    BY <1>6, <2>1, Empty DEF Discard, Owns, Owned
  <2>6. QED
    BY <2>2, <2>3, <2>4, <2>5 DEF Fine
<1>7. QED
  BY <1>2, <1>3, <1>4, <1>5, <1>6

\* finish, and what it does to the copies.
LEMMA Finishing ==
  ASSUME Fine, Grows, UNCHANGED <<rec, sent, batches, batch>>, NEW j \in Assets,
         NEW st \in {"failed", "done"}, NEW path \in BOOLEAN, path => Has(j)', Finish(j, st, path)
  PROVE  JobsFine' /\ RestFine' /\ Attached' /\ Owns
<1>1. job[j] \in JobSet /\ For(job[j].loc, j)
  BY DEF Fine, JobsFine
<1>2. PICK p \in BOOLEAN : p = (st = "done" /\ path)
  <2>1. (st = "done" /\ path) \in BOOLEAN
    OBVIOUS
  <2>2. QED
    BY <2>1
<1>3. PICK x : x = [job[j] EXCEPT !.st = st, !.path = p]
  OBVIOUS
<1>4. x \in JobSet /\ x.st = st /\ x.loc = job[j].loc /\ x.path = p
  BY <1>1, <1>3 DEF JobSet
<1>5. Update(j, x)
  BY <1>2, <1>3 DEF Finish
<1>6. For(x.loc, j)'
  BY <1>1, <1>4, Lasting DEF For
<1>7. x.path => Has(j)'
  BY <1>2, <1>4
<1>8. JobsFine' /\ \A k \in Assets : job'[k].st = "none" <=> job[k].st = "none"
  BY <1>4, <1>5, <1>6, <1>7, Updating
<1>9. staged' \subseteq staged
  BY DEF Finish
<1>10. RestFine'
  BY <1>9, Lasting DEF Fine, RestFine, PathIsHeld, Has
<1>11. Attached' /\ Owns
  BY <1>8, <1>9, CopiesKept DEF Fine, RestFine
<1>12. QED
  BY <1>8, <1>10, <1>11

\* The background session.
LEMMA SessionSteps ==
  ASSUME Fine, NEW t \in Tasks, TaskAnswered(t) \/ TaskFails(t) \/ Report(t)
  PROVE  Fine' /\ Owns
<1>1. SlotFine(task[t], req[t])
  BY Slots
<1>2. ASSUME UNCHANGED <<up, hasher, files, faults, job, staged, batch, caller, rec, sent, batches>>,
             NEW x, NEW q, SlotFine(x, q), task' = [task EXCEPT ![t] = x], req' = [req EXCEPT ![t] = q]
      PROVE  Fine' /\ Owns
  <2>1. ReceiverTyped' /\ Serving' /\ TasksFine'
    BY <1>2, SlotWritten
  <2>2. Grows
    BY <1>2 DEF Grows
  <2>3. JobsFine' /\ CallsFine' /\ BatchFine' /\ RestFine'
    BY <1>2, <2>2, PartsKept
  <2>4. Attached' /\ Owns
    BY <1>2, CopiesKept
  <2>5. QED
    BY <2>1, <2>3, <2>4 DEF Fine
<1>3. CASE TaskAnswered(t)
  <2>1. PICK s : s = CASE req[t].pc = "stored" -> "path" [] req[t].pc = "nothing" -> "nopath" [] OTHER -> "bad"
    OBVIOUS
  <2>2. s \in {"path", "nopath", "bad"} /\ (s = "path" => req[t].pc = "stored")
    BY <2>1
  <2>3. PICK x : x = [task[t] EXCEPT !.st = "ended", !.status = s]
    OBVIOUS
  <2>4. x \in TaskSet /\ x.st = "ended" /\ x.job = task[t].job /\ x.status = s
    BY <1>1, <2>2, <2>3 DEF SlotFine, TaskSet
  <2>5. SlotFine(x, NoRequest)
    BY <1>1, <1>3, <2>2, <2>4, Nothing, UploadAssumption DEF TaskAnswered, SlotFine, Working
  <2>6. task' = [task EXCEPT ![t] = x] /\ req' = [req EXCEPT ![t] = NoRequest]
    BY <1>3, <2>1, <2>3 DEF TaskAnswered
  <2>7. UNCHANGED <<up, hasher, files, faults, job, staged, batch, caller, rec, sent, batches>>
    BY <1>3 DEF TaskAnswered
  <2>8. QED
    BY <1>2, <2>5, <2>6, <2>7
<1>4. CASE TaskFails(t)
  <2>1. SlotFine([task[t] EXCEPT !.st = "ended"], Abort(t))
    BY <1>4, SlotEnds DEF TaskFails
  <2>2. task' = [task EXCEPT ![t] = [task[t] EXCEPT !.st = "ended"]] /\ req' = [req EXCEPT ![t] = Abort(t)]
    BY <1>4 DEF TaskFails
  <2>3. UNCHANGED <<up, hasher, files, faults, job, staged, batch, caller, rec, sent, batches>>
    BY <1>4 DEF TaskFails
  <2>4. QED
    BY <1>2, <2>1, <2>2, <2>3
<1>5. CASE Report(t)
  <2>1. PICK j \in Assets : j = task[t].job
    BY <1>1, <1>5 DEF Report, SlotFine
  <2>2. PICK st \in {"failed", "done"} : st = IF task[t].status = "bad" THEN "failed" ELSE "done"
    OBVIOUS
  <2>3. PICK p \in BOOLEAN : p = (task[t].status = "path")
    OBVIOUS
  <2>4. UNCHANGED <<up, hasher, files, faults, req, batch, caller, rec, sent, batches>>
    BY <1>5 DEF Report
  <2>5. Finish(j, st, p)
    BY <1>5, <2>1, <2>2, <2>3 DEF Report
  <2>6. p => Has(j)'
    BY <1>1, <2>1, <2>3, <2>4 DEF SlotFine, Has
  <2>7. Grows
    BY <2>4 DEF Grows
  <2>8. JobsFine' /\ RestFine' /\ Attached' /\ Owns
    BY <2>4, <2>5, <2>6, <2>7, Finishing
  <2>9. task' = [task EXCEPT ![t] = NoTask] /\ req' = [req EXCEPT ![t] = req[t]]
    BY <1>5, <2>4 DEF Report, Fine, ReceiverTyped
  <2>10. SlotFine(NoTask, req[t])
    BY <1>5, SlotEnds DEF Report
  <2>11. ReceiverTyped' /\ Serving' /\ TasksFine'
    BY <2>4, <2>9, <2>10, SlotWritten
  <2>12. CallsFine' /\ BatchFine'
    BY <2>4, <2>7, PartsKept
  <2>13. QED
    BY <2>8, <2>11, <2>12 DEF Fine
<1>6. QED
  BY <1>3, <1>4, <1>5

\* The user cancels everything.
LEMMA Cancelling ==
  ASSUME Fine, Cancel
  PROVE  Fine' /\ Owns
<1>1. UNCHANGED <<up, hasher, files, batch, caller, rec, sent, batches>> /\ faults' \in 0..MaxFaults
  BY UploadAssumption DEF Cancel, Fault, Fine, ReceiverTyped
<1>2. ASSUME NEW t \in Tasks PROVE SlotFine(task'[t], req'[t])
  <2>1. task'[t] = IF task[t].st = "live" THEN [task[t] EXCEPT !.st = "ended"] ELSE task[t]
    BY DEF Cancel
  <2>2. req'[t] = IF task[t].st = "live" THEN Abort(t) ELSE req[t]
    BY DEF Cancel
  <2>3. QED
    BY <2>1, <2>2, Slots, SlotEnds
<1>3. task' \in [Tasks -> TaskSet] /\ req' \in [Tasks -> RequestSet]
  <2>1. task' = [t \in Tasks |-> task'[t]] /\ req' = [t \in Tasks |-> req'[t]]
    BY DEF Cancel
  <2>2. \A t \in Tasks : task'[t] \in TaskSet /\ req'[t] \in RequestSet
    BY <1>2 DEF SlotFine
  <2>3. QED
    BY <2>1, <2>2
<1>4. ReceiverTyped' /\ Serving' /\ TasksFine'
  <2>1. ReceiverTyped'
    BY <1>1, <1>3 DEF Fine, ReceiverTyped
  <2>2. Serving'
    BY <1>1, <1>2 DEF Fine, Serving, SlotFine
  <2>3. TasksFine'
    BY <1>1, <1>2, <1>3 DEF TasksFine, SlotFine, For, Has
  <2>4. QED
    BY <2>1, <2>2, <2>3
<1>5. Grows
  BY <1>1 DEF Grows
<1>6. job' = [j \in Assets |-> NoJob] /\ staged' = {j \in staged : job[j].st = "none"}
  BY DEF Cancel
<1>7. JobsFine'
  BY <1>6, Empty DEF JobsFine, For
<1>8. CallsFine' /\ BatchFine'
  BY <1>1, <1>5, PartsKept
<1>9. RestFine'
  BY <1>1, <1>6, Lasting DEF Fine, RestFine, PathIsHeld, Has
<1>10. Attached' /\ Owns
  BY <1>1, <1>6, CopiesKept
<1>11. QED
  BY <1>4, <1>7, <1>8, <1>9, <1>10 DEF Fine

\* The app is killed.
LEMMA Killing ==
  ASSUME Fine, AppKill
  PROVE  Fine'
<1>1. UNCHANGED <<up, hasher, files, req, job, staged, task, sent, batches>> /\ faults' \in 0..MaxFaults
  BY UploadAssumption DEF AppKill, Fault, Fine, ReceiverTyped
<1>2. batch' = NoBatch /\ caller' = [r \in Callers |-> NoCall] /\ rec' = NoRec
  BY DEF AppKill
<1>3. ReceiverTyped' /\ Serving' /\ Grows
  BY <1>1 DEF Fine, ReceiverTyped, Serving, Grows
<1>4. JobsFine' /\ TasksFine'
  BY <1>1, <1>3, PartsKept
<1>5. CallFine(NoCall)'
  BY Empty DEF CallFine, For
<1>6. CallsFine'
  <2>1. caller' \in [Callers -> CallSet]
    BY <1>2, Empty
  <2>2. ASSUME NEW r \in Callers PROVE CallFine(caller[r])'
    <3>1. caller'[r] = NoCall
      BY <1>2
    <3>2. QED
      BY <1>5, <3>1 DEF CallFine, For, GivenUp
  <2>3. QED
    BY <2>1, <2>2 DEF CallsFine
<1>7. BatchFine' /\ Attached'
  BY <1>2, Empty DEF BatchFine, Attached
<1>8. RestFine'
  BY <1>1, <1>2, Empty DEF Fine, RestFine, PathIsHeld, Has
<1>9. QED
  BY <1>3, <1>4, <1>6, <1>7, <1>8 DEF Fine

\* A job is old enough to be looked at.
LEMMA Settling ==
  ASSUME Fine, NEW j \in Assets, Settle(j)
  PROVE  Fine' /\ Owns
<1>1. UNCHANGED <<up, hasher, files, req, faults, staged, task, batch, caller, rec, sent, batches>>
  BY DEF Settle
<1>2. ReceiverTyped' /\ Serving' /\ Grows
  BY <1>1, ReceiverKept
<1>3. TasksFine' /\ CallsFine' /\ BatchFine' /\ RestFine'
  BY <1>1, <1>2, PartsKept
<1>4. job \in [Assets -> JobSet] /\ job[j] \in JobSet
  BY DEF Fine, JobsFine
<1>5. PICK x : x = [job[j] EXCEPT !.fresh = FALSE]
  OBVIOUS
<1>6. x \in JobSet /\ x.st = job[j].st /\ x.loc = job[j].loc /\ x.path = job[j].path
  BY <1>4, <1>5 DEF JobSet
<1>7. job' = [job EXCEPT ![j] = x]
  BY <1>5 DEF Settle
<1>8. For(x.loc, j)' /\ (x.path => Has(j)')
  BY <1>1, <1>6 DEF Fine, JobsFine, For, Has
<1>9. JobsFine'
  BY <1>2, <1>6, <1>7, <1>8, JobWritten
<1>10. \A k \in Assets : job'[k].st = job[k].st
  BY <1>4, <1>6, <1>7
<1>11. Attached' /\ Owns
  BY <1>1, <1>10, CopiesKept DEF Fine, RestFine
<1>12. QED
  BY <1>2, <1>3, <1>9, <1>11 DEF Fine

\* recordArrivals.
LEMMA RecordSteps ==
  ASSUME Fine, Collect \/ Record \/ Clear
  PROVE  Fine' /\ Owns
<1>1. UNCHANGED <<up, hasher, files, req, faults, task, batch, caller, batches>>
  BY DEF Collect, Record, Clear
<1>2. ReceiverTyped' /\ Serving' /\ Grows
  BY <1>1, ReceiverKept
<1>3. TasksFine' /\ CallsFine' /\ BatchFine'
  BY <1>1, <1>2, PartsKept
<1>4. /\ rec \in RecSet /\ \A e \in rec.left : e[2] => Has(e[1])
      /\ sent \in [Assets -> {"no", "path", "nopath"}] /\ PathIsHeld /\ staged \subseteq Assets
      /\ job \in [Assets -> JobSet] /\ \A j \in Assets : job[j].path => Has(j)
  BY DEF Fine, RestFine, JobsFine
<1>5. CASE Collect
  <2>1. UNCHANGED <<job, staged, sent>>
    BY <1>5 DEF Collect
  <2>2. PICK x : x = [pc |-> "recording", left |-> {<<j, job[j].path>> : j \in Landed}]
    OBVIOUS
  <2>3. \A e \in x.left : e \in Assets \X BOOLEAN /\ (e[2] => Has(e[1]))
    BY <1>4, <2>2 DEF Landed, JobSet
  <2>4. x \in RecSet /\ rec' = x
    BY <1>5, <2>2, <2>3 DEF RecSet, Collect
  <2>5. RestFine'
    BY <1>1, <1>4, <2>1, <2>3, <2>4, Lasting DEF Fine, RestFine, PathIsHeld, Has
  <2>6. JobsFine'
    BY <1>2, <2>1, PartsKept
  <2>7. Attached' /\ Owns
    BY <1>1, <2>1, CopiesKept
  <2>8. QED
    BY <1>2, <1>3, <2>5, <2>6, <2>7 DEF Fine
<1>6. CASE Record
  <2>1. UNCHANGED <<job, staged>>
    BY <1>6 DEF Record
  <2>2. PICK e \in rec.left :
          /\ sent' = [sent EXCEPT ![e[1]] = IF e[2] THEN "path" ELSE "nopath"]
          /\ rec' = [rec EXCEPT !.left = @ \ {e}]
    BY <1>6 DEF Record
  <2>3. rec.left \subseteq Assets \X BOOLEAN
    BY <1>4 DEF RecSet
  <2>4. rec' \in RecSet /\ rec'.left \subseteq rec.left
    BY <1>4, <2>2 DEF RecSet
  <2>5. PICK k \in Assets : k = e[1]
    BY <2>3
  <2>6. PICK v \in {"path", "nopath"} : v = (IF e[2] THEN "path" ELSE "nopath")
    OBVIOUS
  <2>7. sent' = [sent EXCEPT ![k] = v] /\ (v = "path" => Has(k))
    BY <1>4, <2>2, <2>5, <2>6
  <2>8. sent' \in [Assets -> {"no", "path", "nopath"}] /\ PathIsHeld'
    BY <1>1, <1>4, <2>7 DEF PathIsHeld, Has
  <2>9. \A i \in rec'.left : i[2] => Has(i[1])'
    BY <1>1, <1>4, <2>4 DEF Has
  <2>10. RestFine'
    BY <1>1, <1>4, <2>1, <2>4, <2>8, <2>9 DEF Fine, RestFine
  <2>11. JobsFine'
    BY <1>2, <2>1, PartsKept
  <2>12. Attached' /\ Owns
    BY <1>1, <2>1, CopiesKept
  <2>13. QED
    BY <1>2, <1>3, <2>10, <2>11, <2>12 DEF Fine
<1>7. CASE Clear
  <2>1. /\ job' = [j \in Assets |-> IF j \in Landed THEN NoJob ELSE job[j]]
        /\ staged' = staged \ Landed /\ rec' = NoRec /\ UNCHANGED sent
    BY <1>7 DEF Clear
  <2>2. JobsFine'
    <3>1. job' \in [Assets -> JobSet]
      BY <1>4, <2>1, Empty
    <3>2. ASSUME NEW j \in Assets PROVE For(job[j].loc, j)' /\ (job[j].path => Has(j))'
      <4>1. job'[j] \in {NoJob, job[j]}
        BY <2>1
      <4>2. QED
        BY <1>1, <4>1, Empty DEF Fine, JobsFine, For, Has
    <3>3. QED
      BY <3>1, <3>2 DEF JobsFine
  <2>3. RestFine'
    BY <1>1, <1>4, <2>1, Empty DEF Fine, RestFine, PathIsHeld, Has
  <2>4. Attached' /\ Owns
    BY <1>1, <1>4, <2>1, CopiesKept
  <2>5. QED
    BY <1>2, <1>3, <2>2, <2>3, <2>4 DEF Fine
<1>8. QED
  BY <1>5, <1>6, <1>7

-----------------------------------------------------------------------------
(* reconcile and retryFailed.                                              *)

\* A call after which only callers, jobs and copies may differ.
LEMMA CallEnds ==
  ASSUME Fine, ReceiverTyped', Serving', Grows, TasksFine', JobsFine', CallsFine',
         UNCHANGED <<batch, rec, sent, batches>>, staged' \subseteq staged,
         \A k \in staged' : job[k].st # "none" => job'[k].st # "none"
  PROVE  Fine' /\ Owns
<1>1. BatchFine'
  BY PartsKept
<1>2. RestFine'
  BY Lasting DEF Fine, RestFine, PathIsHeld, Has
<1>3. Attached' /\ Owns
  BY CopiesKept
<1>4. QED
  BY <1>1, <1>2, <1>3 DEF Fine

\* restart returns.
LEMMA Leaving ==
  ASSUME Fine, Grows, NEW r \in Callers, caller[r].job \in Assets, Leave(r)
  PROVE  CallsFine'
<1>1. CallFine(caller[r]) /\ caller[r] \in CallSet
  BY DEF Fine, CallsFine
<1>2. PICK j \in Assets : j = caller[r].job
  OBVIOUS
<1>3. PICK c : c = [caller[r] EXCEPT !.pc = "next", !.job = None, !.off = 0, !.jobs[j] = NoJob]
  OBVIOUS
<1>4. 0 \in 0..Size
  BY UploadAssumption
<1>5. c \in CallSet /\ c.pc = "next" /\ c.jobs = [caller[r].jobs EXCEPT ![j] = NoJob]
  BY <1>1, <1>3, <1>4, Empty DEF CallSet
<1>6. ASSUME NEW k \in Assets PROVE For(c.jobs[k].loc, k)' /\ ~c.jobs[k].path
  <2>1. c.jobs[k] \in {NoJob, caller[r].jobs[k]}
    BY <1>1, <1>5 DEF CallSet
  <2>2. QED
    BY <1>1, <2>1, Empty, Lasting DEF CallFine, For
<1>7. CallFine(c)'
  BY <1>5, <1>6 DEF CallFine
<1>8. caller' = [caller EXCEPT ![r] = c]
  BY <1>2, <1>3 DEF Leave, Step
<1>9. QED
  BY <1>7, <1>8, CallGoesOn

\* A job that is tried once more.
LEMMA Trying ==
  ASSUME Fine, Grows, NEW r \in Callers, caller[r].pc \in {"at", "create"}, NEW j \in Assets, j = caller[r].job,
         NEW loc \in 0..MaxUploads, NEW off \in 0..Size, For(loc, j)', Again(r, loc, off)
  PROVE  JobsFine' /\ CallsFine' /\ \A k \in Assets : job[k].st # "none" => job'[k].st # "none"
<1>1. /\ CallFine(caller[r]) /\ caller[r] \in CallSet
      /\ caller[r].jobs \in [Assets -> JobSet] /\ caller[r].jobs[j] \in JobSet /\ ~caller[r].jobs[j].path
      /\ ~GivenUp(caller[r].jobs[j])
  BY DEF Fine, CallsFine, CallFine, CallSet
<1>2. PICK m : m = caller[r].jobs[j]
  OBVIOUS
<1>3. m \in JobSet /\ ~m.path /\ m.attempts + 1 \in 0..MaxAttempts
  BY <1>1, <1>2, BackgroundAssumption DEF JobSet, GivenUp
<1>4. PICK x : x = [m EXCEPT !.st = "pending", !.loc = loc, !.attempts = m.attempts + 1, !.fresh = TRUE]
  OBVIOUS
<1>5. x \in JobSet /\ x.st = "pending" /\ x.loc = loc /\ ~x.path
  BY <1>3, <1>4 DEF JobSet
<1>6. job' = [job EXCEPT ![j] = x]
  BY <1>2, <1>4 DEF Again, Tried, Mine
<1>7. JobsFine'
  <2>1. For(x.loc, j)' /\ (x.path => Has(j)')
    BY <1>5
  <2>2. QED
    BY <1>5, <1>6, <2>1, JobWritten
<1>8. PICK y : y = [m EXCEPT !.loc = loc]
  OBVIOUS
<1>9. y \in JobSet /\ y.loc = loc /\ ~y.path
  BY <1>3, <1>8 DEF JobSet
<1>10. PICK c : c = [caller[r] EXCEPT !.pc = "enqueue", !.off = off, !.jobs[j] = y]
  OBVIOUS
<1>11. c \in CallSet /\ c.pc = "enqueue" /\ c.job = j /\ c.jobs = [caller[r].jobs EXCEPT ![j] = y]
  BY <1>1, <1>9, <1>10 DEF CallSet
<1>12. ASSUME NEW k \in Assets PROVE For(c.jobs[k].loc, k)' /\ ~c.jobs[k].path
  <2>1. CASE k = j
    <3>1. c.jobs[k] = y
      BY <1>1, <1>11, <2>1
    <3>2. QED
      BY <1>9, <2>1, <3>1
  <2>2. CASE k # j
    <3>1. c.jobs[k] = caller[r].jobs[k]
      BY <1>1, <1>11, <2>2
    <3>2. QED
      BY <1>1, <3>1, Lasting DEF CallFine, For
  <2>3. QED
    BY <2>1, <2>2
<1>13. CallFine(c)'
  BY <1>11, <1>12 DEF CallFine
<1>14. caller' = [caller EXCEPT ![r] = c]
  BY <1>2, <1>8, <1>10 DEF Again, Step
<1>15. CallsFine'
  BY <1>13, <1>14, CallGoesOn
<1>16. \A k \in Assets : job[k].st # "none" => job'[k].st # "none"
  BY <1>5, <1>6 DEF Fine, JobsFine
<1>17. QED
  BY <1>7, <1>15, <1>16

\* The calls read the tasks, the jobs and the receiver, and drop what was given up.
LEMMA ReadingSteps ==
  ASSUME Fine, NEW r \in Callers,
         (\E kind \in {"reconcile", "retry"} : Ask(r, kind)) \/ List(r) \/ TakeNext(r) \/ AskOffset(r)
  PROVE  Fine' /\ Owns
<1>1. /\ CallFine(caller[r]) /\ caller[r] \in CallSet
      /\ job \in [Assets -> JobSet] /\ \A j \in Assets : For(job[j].loc, j)
      /\ staged \subseteq Assets
  BY DEF Fine, CallsFine, JobsFine, RestFine
<1>2. UNCHANGED <<up, hasher, files, req, faults, task, batch, rec, sent, batches>>
  BY DEF Ask, List, TakeNext, AskOffset
<1>3. ReceiverTyped' /\ Serving' /\ Grows
  BY <1>2, ReceiverKept
<1>4. TasksFine'
  BY <1>2, <1>3, PartsKept
<1>5. ASSUME NEW c, CallFine(c), caller' = [caller EXCEPT ![r] = c] PROVE CallsFine'
  <2>1. CallFine(c)'
    BY <1>2, <1>5 DEF CallFine, For, GivenUp
  <2>2. QED
    BY <1>3, <1>5, <2>1, CallGoesOn
<1>6. ASSUME UNCHANGED <<job, staged>>, NEW c, CallFine(c), caller' = [caller EXCEPT ![r] = c] PROVE Fine' /\ Owns
  <2>1. CallsFine'
    BY <1>5, <1>6
  <2>2. JobsFine'
    BY <1>3, <1>6, PartsKept
  <2>3. QED
    BY <1>2, <1>3, <1>4, <1>6, <2>1, <2>2, CallEnds
<1>7. ASSUME NEW kind \in {"reconcile", "retry"}, Ask(r, kind) PROVE Fine' /\ Owns
  <2>1. PICK c : c = [NoCall EXCEPT !.pc = "list", !.kind = kind, !.live = {j \in Assets : Live(j)}]
    OBVIOUS
  <2>2. c \in CallSet /\ c.pc = "list" /\ c.jobs = [j \in Assets |-> NoJob]
    BY <2>1, Empty DEF CallSet
  <2>3. CallFine(c)
    BY <2>2, Empty DEF CallFine, For
  <2>4. QED
    BY <1>6, <1>7, <2>1, <2>3 DEF Ask, Step
<1>8. CASE List(r)
  <2>1. PICK m : m = [j \in Assets |-> IF Lost(caller[r], j) THEN Kept(job[j]) ELSE NoJob]
    OBVIOUS
  <2>2. ASSUME NEW j \in Assets PROVE m[j] \in JobSet /\ For(m[j].loc, j) /\ ~m[j].path
    <3>1. PICK x : x = [NoJob EXCEPT !.loc = job[j].loc, !.attempts = job[j].attempts]
      OBVIOUS
    <3>2. x \in JobSet /\ x.loc = job[j].loc /\ ~x.path
      BY <1>1, <3>1, Empty DEF JobSet
    <3>3. m[j] \in {x, NoJob}
      BY <2>1, <3>1 DEF Kept
    <3>4. QED
      BY <1>1, <3>2, <3>3, Empty DEF For
  <2>3. m \in [Assets -> JobSet]
    BY <2>1, <2>2
  <2>4. PICK l : l = {j \in Assets : Lost(caller[r], j)}
    OBVIOUS
  <2>5. PICK c : c = [caller[r] EXCEPT !.pc = "next", !.live = {}, !.jobs = m, !.left = l]
    OBVIOUS
  <2>6. c \in CallSet /\ c.pc = "next" /\ c.jobs = m
    BY <1>1, <2>3, <2>4, <2>5 DEF CallSet
  <2>7. CallFine(c)
    BY <2>2, <2>6 DEF CallFine
  <2>8. caller' = [caller EXCEPT ![r] = c] /\ UNCHANGED <<job, staged>>
    BY <1>8, <2>1, <2>4, <2>5 DEF List, Step
  <2>9. QED
    BY <1>6, <2>7, <2>8
<1>9. CASE TakeNext(r)
  <2>1. CASE caller[r].left = {}
    <3>1. CallFine(NoCall)
      BY Empty DEF CallFine, For
    <3>2. caller' = [caller EXCEPT ![r] = NoCall] /\ UNCHANGED <<job, staged>>
      BY <1>9, <2>1 DEF TakeNext, Step
    <3>3. QED
      BY <1>6, <3>1, <3>2
  <2>2. ASSUME NEW j \in caller[r].left, j \notin staged \/ GivenUp(caller[r].jobs[j]), Drop(j),
               Step(r, [caller[r] EXCEPT !.left = @ \ {j}, !.jobs[j] = NoJob])
        PROVE  Fine' /\ Owns
    <3>1. j \in Assets /\ caller[r].pc = "next"
      BY <1>1, <1>9 DEF CallSet, TakeNext
    <3>2. PICK c : c = [caller[r] EXCEPT !.left = @ \ {j}, !.jobs[j] = NoJob]
      OBVIOUS
    <3>3. c \in CallSet /\ c.pc = "next" /\ c.jobs = [caller[r].jobs EXCEPT ![j] = NoJob]
      BY <1>1, <3>1, <3>2, Empty DEF CallSet
    <3>4. ASSUME NEW k \in Assets PROVE For(c.jobs[k].loc, k) /\ ~c.jobs[k].path
      <4>1. c.jobs[k] \in {NoJob, caller[r].jobs[k]}
        BY <1>1, <3>3 DEF CallSet
      <4>2. QED
        BY <1>1, <4>1, Empty DEF CallFine, For
    <3>5. CallsFine'
      BY <1>5, <2>2, <3>2, <3>3, <3>4 DEF CallFine, Step
    <3>6. job' = [job EXCEPT ![j] = NoJob] /\ staged' = IF job[j].st = "none" THEN staged ELSE staged \ {j}
      BY <2>2 DEF Drop
    <3>7. JobsFine'
      <4>1. For(NoJob.loc, j)' /\ (NoJob.path => Has(j)')
        BY Empty DEF For
      <4>2. QED
        BY <1>3, <3>1, <3>6, <4>1, Empty, JobWritten
    <3>8. staged' \subseteq staged /\ \A k \in staged' : job[k].st # "none" => job'[k].st # "none"
      BY <1>1, <3>6
    <3>9. QED
      BY <1>2, <1>3, <1>4, <3>5, <3>7, <3>8, CallEnds
  <2>3. ASSUME NEW j \in caller[r].left, j \in staged, ~GivenUp(caller[r].jobs[j]), UNCHANGED <<job, staged>>,
               Step(r, [caller[r] EXCEPT !.left = @ \ {j}, !.job = j,
                          !.pc = IF caller[r].jobs[j].loc = 0 THEN "create" ELSE "head"])
        PROVE  Fine' /\ Owns
    <3>1. j \in Assets
      BY <1>1 DEF CallSet
    <3>2. PICK pc \in {"create", "head"} : pc = IF caller[r].jobs[j].loc = 0 THEN "create" ELSE "head"
      OBVIOUS
    <3>3. PICK c : c = [caller[r] EXCEPT !.left = @ \ {j}, !.job = j, !.pc = pc]
      OBVIOUS
    <3>4. c \in CallSet /\ c.pc = pc /\ c.job = j /\ c.jobs = caller[r].jobs
      BY <1>1, <3>1, <3>3 DEF CallSet
    <3>5. CallFine(c)
      BY <1>1, <2>3, <3>1, <3>4 DEF CallFine
    <3>6. QED
      BY <1>6, <2>3, <3>2, <3>3, <3>5 DEF Step
  <2>4. QED
    BY <1>9, <2>1, <2>2, <2>3 DEF TakeNext
<1>10. CASE AskOffset(r)
  <2>1. PICK c : c = IF Known(Mine(r).loc)
             THEN [caller[r] EXCEPT !.pc = "at", !.off = IF Offset(Mine(r).loc) > Size THEN Size ELSE Offset(Mine(r).loc)]
             ELSE [caller[r] EXCEPT !.pc = "create"]
    OBVIOUS
  <2>2. Known(Mine(r).loc) => Offset(Mine(r).loc) \in Nat
    <3>1. ASSUME NEW u \in Uploads PROVE Len(up[u].data) \in Nat
      <4>1. up[u].data \in Seq(1..Size)
        BY DEF Fine, ReceiverTyped, UploadSet, Chunks
      <4>2. QED
        BY <4>1
    <3>2. QED
      BY <3>1 DEF Known, Offset
  <2>3. PICK off : off = IF Offset(Mine(r).loc) > Size THEN Size ELSE Offset(Mine(r).loc)
    OBVIOUS
  <2>4. Known(Mine(r).loc) => off \in 0..Size
    BY <2>2, <2>3, UploadAssumption
  <2>5. c \in CallSet /\ c.pc \in {"at", "create"} /\ c.job = caller[r].job /\ c.jobs = caller[r].jobs
    <3>1. CASE Known(Mine(r).loc)
      <4>1. c = [caller[r] EXCEPT !.pc = "at", !.off = off]
        BY <2>1, <2>3, <3>1
      <4>2. QED
        BY <1>1, <2>4, <3>1, <4>1 DEF CallSet
    <3>2. CASE ~Known(Mine(r).loc)
      <4>1. c = [caller[r] EXCEPT !.pc = "create"]
        BY <2>1, <3>2
      <4>2. QED
        BY <1>1, <4>1 DEF CallSet
    <3>3. QED
      BY <3>1, <3>2
  <2>6. CallFine(c)
    BY <1>1, <1>10, <2>5 DEF CallFine, AskOffset
  <2>7. caller' = [caller EXCEPT ![r] = c] /\ UNCHANGED <<job, staged>>
    BY <1>10, <2>1 DEF AskOffset, Step
  <2>8. QED
    BY <1>6, <2>6, <2>7
<1>11. QED
  BY <1>7, <1>8, <1>9, <1>10

\* The calls write the jobs back, or hand them to the system.
LEMMA WritingSteps ==
  ASSUME Fine, NEW r \in Callers,
         Unreachable(r) \/ Resume(r) \/ (\E u \in Uploads : Recreate(r, u)) \/ Resumed(r)
  PROVE  Fine' /\ Owns
<1>1. /\ CallFine(caller[r]) /\ caller[r] \in CallSet
      /\ job \in [Assets -> JobSet] /\ \A j \in Assets : For(job[j].loc, j) /\ (job[j].path => Has(j))
      /\ staged \subseteq Assets
  BY DEF Fine, CallsFine, JobsFine, RestFine
<1>2. PICK j \in Assets : j = caller[r].job
  BY <1>1 DEF CallFine, Unreachable, Resume, Recreate, Resumed
<1>3. UNCHANGED <<hasher, files, faults, batch, rec, sent, batches>>
  BY DEF Unreachable, Resume, Recreate, Resumed
<1>4. job[j] \in JobSet /\ caller[r].jobs[j] \in JobSet /\ For(caller[r].jobs[j].loc, j)
  BY <1>1 DEF CallFine, CallSet
<1>5. PICK loc \in 0..MaxUploads : loc = caller[r].jobs[j].loc
  BY <1>4 DEF JobSet
<1>6. PICK off \in 0..Size : off = caller[r].off
  BY <1>1 DEF CallSet
<1>7. ASSUME UNCHANGED <<up, req, task, staged>>, Update(j, job[j]), Leave(r) PROVE Fine' /\ Owns
  <2>1. ReceiverTyped' /\ Serving' /\ Grows
    BY <1>3, <1>7, ReceiverKept
  <2>2. TasksFine'
    BY <1>7, <2>1, PartsKept
  <2>3. CallsFine'
    BY <1>2, <1>7, <2>1, Leaving
  <2>4. PICK x : x = job[j]
    OBVIOUS
  <2>5. x \in JobSet /\ For(x.loc, j)' /\ (x.path => Has(j)') /\ (x.st = "none" => job[j].st = "none") /\ Update(j, x)
    BY <1>1, <1>3, <1>4, <1>7, <2>4 DEF For, Has
  <2>6. JobsFine' /\ \A k \in Assets : job'[k].st = "none" <=> job[k].st = "none"
    BY <2>1, <2>5, Updating
  <2>7. QED
    BY <1>1, <1>3, <1>7, <2>1, <2>2, <2>3, <2>6, CallEnds
<1>8. CASE Unreachable(r)
  BY <1>2, <1>7, <1>8 DEF Unreachable
<1>9. CASE Resume(r)
  <2>1. UNCHANGED <<up, req, task>> /\ caller[r].pc = "at"
    BY <1>9 DEF Resume
  <2>2. ReceiverTyped' /\ Serving' /\ Grows
    BY <1>3, <2>1, ReceiverKept
  <2>3. TasksFine'
    BY <2>1, <2>2, PartsKept
  <2>4. ASSUME Finish(j, "done", FALSE), Leave(r) PROVE Fine' /\ Owns
    <3>1. JobsFine' /\ RestFine' /\ Attached' /\ Owns
      BY <1>3, <2>2, <2>4, Finishing
    <3>2. CallsFine'
      BY <1>2, <2>2, <2>4, Leaving
    <3>3. BatchFine'
      BY <1>3, <2>2, PartsKept
    <3>4. QED
      BY <2>2, <2>3, <3>1, <3>2, <3>3 DEF Fine
  <2>5. ASSUME Again(r, Mine(r).loc, caller[r].off), staged' = staged PROVE Fine' /\ Owns
    <3>1. Again(r, loc, off)
      BY <1>2, <1>5, <1>6, <2>5 DEF Mine
    <3>2. For(loc, j)'
      BY <1>4, <1>5, <2>1 DEF For
    <3>3. JobsFine' /\ CallsFine' /\ \A k \in Assets : job[k].st # "none" => job'[k].st # "none"
      BY <1>2, <2>1, <2>2, <3>1, <3>2, Trying
    <3>4. QED
      BY <1>1, <1>3, <2>2, <2>3, <2>5, <3>3, CallEnds
  <2>6. ASSUME Update(j, job[j]), staged' = staged, Leave(r) PROVE Fine' /\ Owns
    BY <1>7, <2>1, <2>6
  <2>7. QED
    BY <1>2, <1>9, <2>4, <2>5, <2>6 DEF Resume
<1>10. ASSUME NEW u \in Uploads, Recreate(r, u) PROVE Fine' /\ Owns
  <2>1. caller[r].pc = "create" /\ NewId(u) /\ Again(r, u, 0) /\ UNCHANGED <<req, staged, task>>
    BY <1>10 DEF Recreate
  <2>2. PICK d \in BOOLEAN : NewUpload(u, j, d)
    BY <1>2, <1>10, BackgroundAssumption DEF Recreate
  <2>3. ReceiverTyped' /\ Serving' /\ Grows /\ For(u, j)'
    BY <1>3, <2>1, <2>2, Creating
  <2>4. TasksFine'
    BY <2>1, <2>3, PartsKept
  <2>5. PICK z \in 0..Size : z = 0
    BY UploadAssumption
  <2>6. u \in 0..MaxUploads /\ Again(r, u, z)
    BY <2>1, <2>5, UploadAssumption DEF Uploads
  <2>7. JobsFine' /\ CallsFine' /\ \A k \in Assets : job[k].st # "none" => job'[k].st # "none"
    BY <1>2, <2>1, <2>3, <2>6, Trying
  <2>8. QED
    BY <1>1, <1>3, <2>1, <2>3, <2>4, <2>7, CallEnds
<1>11. CASE Resumed(r)
  <2>1. UNCHANGED <<up, staged>> /\ Leave(r)
    BY <1>11 DEF Resumed
  <2>2. Enqueue(j, [loc |-> loc, off |-> off])
    BY <1>2, <1>5, <1>6, <1>11 DEF Resumed, Mine
  <2>3. For(loc, j)
    BY <1>4, <1>5
  <2>4. ReceiverTyped' /\ Serving' /\ TasksFine'
    BY <1>3, <2>1, <2>2, <2>3, Enqueuing
  <2>5. Grows
    BY <1>3, <2>1 DEF Grows
  <2>6. PICK x : x = [job[j] EXCEPT !.st = "running"]
    OBVIOUS
  <2>7. x \in JobSet /\ x.st = "running" /\ x.loc = job[j].loc /\ x.path = job[j].path
    BY <1>4, <2>6 DEF JobSet
  <2>8. Update(j, x)
    BY <1>2, <1>11, <2>6 DEF Resumed
  <2>9. For(x.loc, j)' /\ (x.path => Has(j)')
    BY <1>1, <1>3, <2>1, <2>7 DEF For, Has
  <2>10. JobsFine' /\ \A k \in Assets : job'[k].st = "none" <=> job[k].st = "none"
    BY <2>5, <2>7, <2>8, <2>9, Updating
  <2>11. CallsFine'
    BY <1>2, <2>1, <2>5, Leaving
  <2>12. QED
    BY <1>1, <1>3, <2>1, <2>4, <2>5, <2>10, <2>11, CallEnds
<1>12. QED
  BY <1>8, <1>9, <1>10, <1>11

-----------------------------------------------------------------------------
(* The theorems.                                                           *)

\* The phone and the receiver start without files, jobs, copies and requests.
LEMMA Starting == Init => BackgroundInv
<1> SUFFICES ASSUME Init PROVE BackgroundInv
  OBVIOUS
<1> USE DEF Init, UploadInit
<1>1. 0 \in 0..MaxFaults /\ 0 \in 0..MaxBatches
  BY UploadAssumption, BackgroundAssumption
<1>2. ReceiverTyped
  BY <1>1, Nothing DEF ReceiverTyped
<1>3. Serving
  BY Nothing, UploadAssumption DEF Serving, Working, NoUpload
<1>4. PhoneTyped
  BY <1>1, Empty DEF PhoneTyped
<1>5. Busy
  BY Empty DEF Busy
<1>6. Named
  BY Empty DEF Named, For
<1>7. Vouched
  BY Empty, Nothing DEF Vouched, PathIsHeld
<1>8. Attached
  BY DEF Attached
<1>9. QED
  BY <1>2, <1>3, <1>4, <1>5, <1>6, <1>7, <1>8 DEF BackgroundInv

\* Every step keeps the invariant, and only the death of the app leaves a copy without an owner.
LEMMA Stepping ==
  ASSUME BackgroundInv, [Next]_vars
  PROVE  BackgroundInv' /\ (AppKill \/ Owns)
<1>1. Fine /\ staged \subseteq Assets
  BY Parts DEF Fine, RestFine
<1>2. ASSUME UNCHANGED phone PROVE Owns
  BY <1>1, <1>2, CopiesKept
<1>3. ASSUME UNCHANGED vars PROVE BackgroundInv'
  <2>1. ReceiverTyped' /\ Serving' /\ Grows
    BY <1>1, <1>3, ReceiverKept
  <2>2. JobsFine' /\ TasksFine' /\ CallsFine' /\ BatchFine' /\ RestFine'
    BY <1>1, <1>3, <2>1, PartsKept
  <2>3. Attached'
    BY <1>1, <1>3 DEF Fine, Attached
  <2>4. QED
    BY <2>1, <2>2, <2>3, PartsAfter DEF Fine
<1>4. ASSUME UNCHANGED phone,
             (\E t \in Tasks : Handle(t) \/ ShortWrite(t)) \/ Kill \/ \E u \in Uploads : Sweep(u)
      PROVE  BackgroundInv'
  BY <1>4, ReceiverStep
<1>5. ASSUME Fine' PROVE BackgroundInv'
  BY <1>5, PartsAfter
<1>6. CASE Next
  <2>1. ASSUME NEW t \in Tasks, TaskAnswered(t) \/ TaskFails(t) \/ Report(t) PROVE Fine' /\ Owns
    BY <1>1, <2>1, SessionSteps
  <2>2. ASSUME (\E j \in Assets : Stage(j)) \/ (\E u \in Uploads : Start(u)) \/ Started \/ StartFails \/ Discard
        PROVE  Fine' /\ Owns
    BY <1>1, <2>2, BatchSteps
  <2>3. ASSUME NEW j \in Assets, Settle(j) PROVE Fine' /\ Owns
    BY <1>1, <2>3, Settling
  <2>4. ASSUME NEW r \in Callers,
               (\E kind \in {"reconcile", "retry"} : Ask(r, kind)) \/ List(r) \/ TakeNext(r) \/ AskOffset(r)
        PROVE  Fine' /\ Owns
    BY <1>1, <2>4, ReadingSteps
  <2>5. ASSUME NEW r \in Callers,
               Unreachable(r) \/ Resume(r) \/ (\E u \in Uploads : Recreate(r, u)) \/ Resumed(r)
        PROVE  Fine' /\ Owns
    BY <1>1, <2>5, WritingSteps
  <2>6. ASSUME Collect \/ Record \/ Clear PROVE Fine' /\ Owns
    BY <1>1, <2>6, RecordSteps
  <2>7. ASSUME AppKill PROVE Fine'
    BY <1>1, <2>7, Killing
  <2>8. ASSUME Cancel PROVE Fine' /\ Owns
    BY <1>1, <2>8, Cancelling
  <2>9. QED
    BY <1>2, <1>4, <1>5, <1>6, <2>1, <2>2, <2>3, <2>4, <2>5, <2>6, <2>7, <2>8 DEF Next
<1>7. QED
  BY <1>2, <1>3, <1>6

\* Uploads that outlive the app, for any number of files, chunks, requests, calls and
\* attempts: uploads, jobs, tasks and calls name each other's files, and wherever a path is
\* kept the receiver holds the file.
THEOREM BackgroundIsSound == Spec => []BackgroundInv
<1>1. BackgroundInv /\ [Next]_vars => BackgroundInv'
  BY Stepping
<1>2. QED
  BY Starting, <1>1, PTL DEF Spec

\* The ledger of the phone never says that a file is at a path when the receiver does not
\* hold it (BackgroundStore.swift, recordArrivals; upload.go, FinishUpload).
THEOREM RecordedPathsAreHeld == Spec => []PathIsHeld
<1>1. BackgroundInv => PathIsHeld
  BY DEF BackgroundInv, Vouched
<1>2. QED
  BY BackgroundIsSound, <1>1, PTL

\* Until the app is killed no step leaves a copy without a job or a batch that deletes it
\* (BackgroundUploader.swift, start).
THEOREM CopiesHaveOwners == Spec => CopiesAreOwned
<1>1. BackgroundInv /\ [Next]_vars => [AppKill \/ \A j \in staged' : Owned(j)' \/ (j \in staged /\ ~Owned(j))]_vars
  BY Stepping DEF Owns
<1>2. QED
  BY BackgroundIsSound, <1>1, PTL DEF Spec, CopiesAreOwned
-----------------------------------------------------------------------------
(* What is stored.                                                         *)
(*                                                                         *)
(* While one request at a time may write to an upload, its file is a       *)
(* prefix of what was sent and the one that writes is at its end.          *)

\* A request that may still write.
Writing(q) == q.pc \in {"copy", "hash"} /\ q.off + q.n < Size /\ (q.cut => "late" \in Faults)

Prefix(d) == Len(d) <= Size /\ \A i \in 1..Len(d) : d[i] = i

\* Where a request is in the file it is for.
InPlace(q, ups) ==
  /\ q.pc \in {"get", "open"} => q.n = 0
  /\ q.pc = "open" => q.off < Size
  /\ q.pc \in {"copy", "hash", "error"} => q.off + q.n <= Len(ups[q.up].data)
  /\ Writing(q) => q.off + q.n = Len(ups[q.up].data)
  /\ q.pc \in {"digest", "commit"} => Len(ups[q.up].data) = Size
  /\ q.pc = "commit" /\ ups[q.up].declared => q.digest = Whole

Prefixes == \A u \in Uploads : Prefix(up[u].data)
Follows  == \A t \in Tasks : InPlace(req[t], up)

WholeInv == Prefixes /\ Follows /\ StoredIsWhatWasSent

\* A file is sent whole when as many chunks have come as it has.
LEMMA AllOfIt ==
  ASSUME NEW d \in Chunks, Prefix(d), Len(d) = Size
  PROVE  d = Whole
BY UploadAssumption DEF Chunks, Prefix, Whole

\* The bytes of every upload are as they were, and what their senders declared.
SameBodies == \A u \in Uploads :
  /\ up'[u].data = up[u].data
  /\ up'[u].declared = up[u].declared \/ up[u].data = <<>>

\* Requests in their places, with the bytes as they were.
LEMMA BesideFiles ==
  ASSUME WholeInv, Serving', SameBodies, \A t \in Tasks : InPlace(req'[t], up)
  PROVE  Prefixes' /\ Follows'
<1>1. Prefixes'
  BY DEF WholeInv, Prefixes, SameBodies, Prefix
<1>2. ASSUME NEW t \in Tasks PROVE InPlace(req'[t], up')
  <2>1. InPlace(req'[t], up) /\ (req'[t].pc \in Working => req'[t].up \in Uploads)
    BY DEF Serving
  <2>2. CASE req'[t].pc \in Working
    <3>1. PICK u \in Uploads : u = req'[t].up
      BY <2>1, <2>2
    <3>2. up'[u].data = up[u].data /\ (up'[u].declared = up[u].declared \/ Len(up[u].data) = 0)
      BY DEF SameBodies
    <3>3. QED
      BY <2>1, <3>1, <3>2, UploadAssumption DEF InPlace
  <2>3. CASE req'[t].pc \notin Working
    BY <2>3 DEF InPlace, Writing, Working
  <2>4. QED
    BY <2>2, <2>3
<1>3. QED
  BY <1>1, <1>2 DEF Follows

\* The same, when nothing is stored.
LEMMA PlacesKept ==
  ASSUME BackgroundInv, WholeInv, Serving', SameBodies, files' = files,
         \A t \in Tasks : InPlace(req'[t], up)
  PROVE  WholeInv'
<1>1. Prefixes' /\ Follows'
  BY BesideFiles
<1>2. StoredIsWhatWasSent'
  <2>1. ASSUME NEW f \in files PROVE up'[f.up].data = Whole /\ (up'[f.up].declared => f.digest = Whole)
    <3>1. PICK u \in Uploads : u = f.up
      BY DEF BackgroundInv, ReceiverTyped, FileSet
    <3>2. up[u].data = Whole /\ (up[u].declared => f.digest = Whole)
      BY <3>1 DEF WholeInv, StoredIsWhatWasSent
    <3>3. Whole # <<>>
      BY UploadAssumption DEF Whole
    <3>4. QED
      BY <3>1, <3>2, <3>3 DEF SameBodies
  <2>2. QED
    BY <2>1 DEF StoredIsWhatWasSent
<1>3. QED
  BY <1>1, <1>2 DEF WholeInv

\* A request that ended, was answered, cut, or not yet looked at.
Calmer(q, r) ==
  \/ r = q
  \/ r.pc \in {"idle"} \union Answers
  \/ r.pc = "get" /\ r.n = 0
  \/ r.pc = q.pc /\ r.up = q.up /\ r.off = q.off /\ r.n = q.n /\ r.digest = q.digest /\ r.cut

\* A step after which every request is calmer.
LEMMA CalmKept ==
  ASSUME BackgroundInv, WholeInv, Serving', SameBodies, files' = files,
         \A t \in Tasks : Calmer(req[t], req'[t])
  PROVE  WholeInv'
<1>1. ASSUME NEW t \in Tasks PROVE InPlace(req'[t], up)
  <2>1. PICK q : q = req[t]
    OBVIOUS
  <2>2. PICK r : r = req'[t]
    OBVIOUS
  <2>3. InPlace(q, up) /\ Calmer(q, r)
    BY <2>1, <2>2 DEF WholeInv, Follows
  <2>4. ASSUME r.pc \in {"idle"} \union Answers \/ (r.pc = "get" /\ r.n = 0) PROVE InPlace(r, up)
    BY <2>4 DEF InPlace, Writing, Answers
  <2>5. ASSUME r.pc = q.pc /\ r.up = q.up /\ r.off = q.off /\ r.n = q.n /\ r.digest = q.digest /\ r.cut
        PROVE  InPlace(r, up)
    BY <2>3, <2>5 DEF InPlace, Writing
  <2>6. InPlace(r, up)
    BY <2>3, <2>4, <2>5 DEF Calmer
  <2>7. QED
    BY <2>2, <2>6
<1>2. QED
  BY <1>1, PlacesKept

\* Fields of an upload that are neither its bytes nor what was declared.
LEMMA BodiesKept ==
  ASSUME ReceiverTyped, NEW u \in Uploads
  PROVE  /\ \A b : up' = [up EXCEPT ![u].info = FALSE, ![u].bin = b] => SameBodies
         /\ up' = [up EXCEPT ![u].info = FALSE] => SameBodies
         /\ \A b : up' = [up EXCEPT ![u].bin = b] => SameBodies
<1>1. up \in [Uploads -> UploadSet] /\ up[u] \in UploadSet
  BY DEF ReceiverTyped
<1>2. ASSUME NEW x, up' = [up EXCEPT ![u] = x], x.data = up[u].data, x.declared = up[u].declared
      PROVE  SameBodies
  BY <1>1, <1>2 DEF SameBodies
<1>3. ASSUME NEW b
      PROVE  /\ [up[u] EXCEPT !.info = FALSE, !.bin = b].data = up[u].data
             /\ [up[u] EXCEPT !.info = FALSE, !.bin = b].declared = up[u].declared
             /\ [up[u] EXCEPT !.bin = b].data = up[u].data
             /\ [up[u] EXCEPT !.bin = b].declared = up[u].declared
  BY <1>1 DEF UploadSet
<1>4. /\ [up[u] EXCEPT !.info = FALSE].data = up[u].data
      /\ [up[u] EXCEPT !.info = FALSE].declared = up[u].declared
  BY <1>1 DEF UploadSet
<1>5. QED
  BY <1>2, <1>3, <1>4

\* A request that goes on carries what it carried.
LEMMA Onward ==
  ASSUME ReceiverTyped, NEW t \in Tasks, NEW pc, Goes(t, pc)
  PROVE  /\ \A s \in Tasks \ {t} : req'[s] = req[s]
         /\ req'[t].pc = pc /\ req'[t].up = req[t].up /\ req'[t].off = req[t].off
         /\ req'[t].n = req[t].n /\ req'[t].cut = req[t].cut /\ req'[t].digest = req[t].digest
<1>1. req \in [Tasks -> RequestSet] /\ req[t] \in RequestSet
  BY DEF ReceiverTyped
<1>2. PICK r : r = [req[t] EXCEPT !.pc = pc]
  OBVIOUS
<1>3. /\ r.pc = pc /\ r.up = req[t].up /\ r.off = req[t].off
      /\ r.n = req[t].n /\ r.cut = req[t].cut /\ r.digest = req[t].digest
  BY <1>1, <1>2 DEF RequestSet
<1>4. req' = [req EXCEPT ![t] = r]
  BY <1>2 DEF Goes
<1>5. QED
  BY <1>1, <1>3, <1>4

\* A step of one request, with the bytes as they were.
LEMMA OneMoves ==
  ASSUME BackgroundInv, WholeInv, Serving', SameBodies, files' = files,
         NEW t \in Tasks, \A s \in Tasks \ {t} : req'[s] = req[s], InPlace(req'[t], up)
  PROVE  WholeInv'
<1>1. ASSUME NEW s \in Tasks PROVE InPlace(req'[s], up)
  BY DEF WholeInv, Follows
<1>2. QED
  BY <1>1, PlacesKept

\* An answer is in its place.
LEMMA AnswerInPlace ==
  ASSUME BackgroundInv, WholeInv, Serving', SameBodies, files' = files,
         NEW t \in Tasks, NEW answer \in Answers, Reply(t, answer)
  PROVE  WholeInv'
<1>1. /\ \A s \in Tasks \ {t} : req'[s] = req[s]
      /\ req'[t].pc \in {"idle", answer}
  BY Replies DEF BackgroundInv
<1>2. InPlace(req'[t], up)
  BY <1>1 DEF InPlace, Writing, Answers
<1>3. QED
  BY <1>1, <1>2, OneMoves

\* A chunk lands at the end of the file, because nobody else writes to it.
LEMMA ChunkLands ==
  ASSUME BackgroundInv, WholeInv, OneSender, Serving',
         NEW t \in Tasks, MaySend(t), Land(t), NEW pc \in {"hash", "copy", "error"},
         req' = [req EXCEPT ![t].n = @ + 1, ![t].pc = pc], files' = files
  PROVE  WholeInv'
<1>1. /\ req \in [Tasks -> RequestSet] /\ req[t] \in RequestSet /\ up \in [Uploads -> UploadSet]
      /\ req[t].pc \in {"copy", "hash"} /\ Writing(req[t]) /\ InPlace(req[t], up)
      /\ req[t].n \in 0..Size /\ req[t].off \in 0..Size /\ Size \in Nat \ {0}
      /\ req[t].off + req[t].n < Size
  BY UploadAssumption DEF BackgroundInv, ReceiverTyped, RequestSet, WholeInv, Follows, MaySend, Writing
<1>2. PICK u \in Uploads : u = req[t].up
  BY <1>1 DEF BackgroundInv, Serving, Working
<1>3. PICK d \in Chunks : d = up[u].data
  BY <1>1 DEF UploadSet
<1>4. Len(d) \in Nat /\ Len(d) = req[t].off + req[t].n /\ Len(d) < Size /\ Prefix(d)
  <2>1. Len(d) \in Nat
    BY DEF Chunks
  <2>2. QED
    BY <1>1, <1>2, <1>3, <2>1 DEF InPlace, WholeInv, Prefixes
<1>5. PICK e : e = Append(d, Len(d) + 1)
  OBVIOUS
<1>6. e \in Chunks /\ Len(e) = Len(d) + 1 /\ Prefix(e)
  <2>1. Len(d) + 1 \in 1..Size
    BY <1>1, <1>4
  <2>2. e \in Chunks
    BY <1>5, <2>1, Appending
  <2>3. d \in Seq(1..Size)
    BY DEF Chunks
  <2>4. Len(e) = Len(d) + 1 /\ \A i \in 1..Len(e) : e[i] = IF i <= Len(d) THEN d[i] ELSE Len(d) + 1
    BY <1>5, <2>1, <2>3
  <2>5. Prefix(e)
    BY <1>1, <1>4, <2>4 DEF Prefix
  <2>6. QED
    BY <2>2, <2>4, <2>5
<1>7. /\ up'[u].data = e /\ up'[u].declared = up[u].declared
      /\ \A v \in Uploads \ {u} : up'[v] = up[v]
  <2>1. Body(t) = Len(d) + 1 /\ Len(d) < 2 * Size
    BY <1>1, <1>4 DEF Body
  <2>2. PICK x : x = [up[u] EXCEPT !.data = e]
    OBVIOUS
  <2>3. x.data = e /\ x.declared = up[u].declared
    BY <1>1, <2>2 DEF UploadSet
  <2>4. up' = [up EXCEPT ![u] = x]
    BY <1>2, <1>3, <1>5, <2>1, <2>2 DEF Land
  <2>5. QED
    BY <1>1, <2>3, <2>4
<1>8. Prefixes'
  BY <1>6, <1>7 DEF WholeInv, Prefixes, Prefix
<1>9. PICK n : n = req[t].n + 1
  OBVIOUS
<1>10. /\ req'[t].n = n /\ req'[t].pc = pc /\ req'[t].up = u /\ req'[t].off = req[t].off
       /\ req'[t].cut = req[t].cut
       /\ \A s \in Tasks \ {t} : req'[s] = req[s]
  <2>1. PICK r : r = [req[t] EXCEPT !.n = n, !.pc = pc]
    OBVIOUS
  <2>2. r.n = n /\ r.pc = pc /\ r.up = u /\ r.off = req[t].off /\ r.cut = req[t].cut
    BY <1>1, <1>2, <2>1 DEF RequestSet
  <2>3. req' = [req EXCEPT ![t] = r]
    BY <1>9, <2>1
  <2>4. QED
    BY <1>1, <2>2, <2>3
<1>11. InPlace(req'[t], up')
  <2>1. req'[t].off + req'[t].n = Len(up'[req'[t].up].data)
    BY <1>1, <1>4, <1>6, <1>7, <1>9, <1>10
  <2>2. req'[t].pc \notin {"get", "open", "digest", "commit"}
    BY <1>10
  <2>3. Len(e) \in Nat
    BY <1>4, <1>6
  <2>4. QED
    BY <1>7, <1>10, <2>1, <2>2, <2>3 DEF InPlace
\* Another at the same file can write no more; it is behind, or at the end of a whole file.
<1>12. ASSUME NEW s \in Tasks \ {t} PROVE InPlace(req'[s], up')
  <2>1. PICK q \in RequestSet : q = req[s] /\ q = req'[s]
    BY <1>1, <1>10
  <2>2. InPlace(q, up) /\ (q.pc \in Working => q.up \in Uploads)
    BY <2>1 DEF WholeInv, Follows, BackgroundInv, Serving
  <2>3. ASSUME q.pc \notin Working PROVE InPlace(q, up')
    BY <2>2, <2>3 DEF InPlace, Writing, Working
  <2>4. ASSUME q.pc \in Working, q.up # u PROVE InPlace(q, up')
    <3>1. up'[q.up] = up[q.up]
      BY <1>7, <2>2, <2>4
    <3>2. QED
      BY <2>2, <3>1 DEF InPlace
  <2>5. ASSUME q.up = u PROVE InPlace(q, up')
    <3>1. ~Writing(q)
      BY <1>1, <1>2, <2>1, <2>5 DEF OneSender, MaySend, Writing
    <3>2. q.pc \notin {"digest", "commit"}
      BY <1>3, <1>4, <2>2, <2>5 DEF InPlace
    <3>3. q.off + q.n \in Nat
      BY <1>1 DEF RequestSet
    <3>4. q.pc \in {"copy", "hash", "error"} => q.off + q.n <= Len(e)
      BY <1>3, <1>4, <1>6, <2>2, <2>5, <3>3 DEF InPlace
    <3>5. (q.pc \in {"get", "open"} => q.n = 0) /\ (q.pc = "open" => q.off < Size)
      BY <2>2 DEF InPlace
    <3>6. QED
      BY <1>7, <2>5, <3>1, <3>2, <3>4, <3>5 DEF InPlace
  <2>6. InPlace(q, up')
    BY <2>3, <2>4, <2>5
  <2>7. QED
    BY <2>1, <2>6
\* What is stored is whole, and nobody writes to it.
<1>13. StoredIsWhatWasSent'
  <2>1. ASSUME NEW f \in files PROVE up'[f.up].data = Whole /\ (up'[f.up].declared => f.digest = Whole)
    <3>1. f.up \in Uploads /\ up[f.up].data = Whole /\ (up[f.up].declared => f.digest = Whole)
      BY DEF WholeInv, StoredIsWhatWasSent, BackgroundInv, ReceiverTyped, FileSet
    <3>2. Len(Whole) = Size
      BY UploadAssumption DEF Whole
    <3>3. f.up # u
      BY <1>1, <1>3, <1>4, <3>1, <3>2
    <3>4. QED
      BY <1>7, <3>1, <3>3
  <2>2. QED
    BY <2>1 DEF StoredIsWhatWasSent
<1>14. QED
  BY <1>8, <1>11, <1>12, <1>13 DEF WholeInv, Follows
\* Every step of a request, while nobody else writes to its file.
LEMMA HandlingKeepsWhole ==
  ASSUME BackgroundInv, WholeInv, OneSender, Serving', NEW t \in Tasks, Handle(t) \/ ShortWrite(t)
  PROVE  WholeInv'
<1>1. /\ ReceiverTyped /\ req[t] \in RequestSet /\ InPlace(req[t], up)
      /\ req[t].n \in 0..Size /\ req[t].off \in 0..Size /\ Size \in Nat \ {0}
      /\ req[t].off + req[t].n <= Size
      /\ req[t].pc \in Working => req[t].up \in Uploads /\ Prefix(up[req[t].up].data)
  BY UploadAssumption DEF BackgroundInv, ReceiverTyped, Serving, RequestSet, WholeInv, Follows, Prefixes
<1>2. \A u \in Uploads : Len(up[u].data) \in Nat
  BY <1>1 DEF ReceiverTyped, UploadSet, Chunks
<1>3. up' = up => SameBodies
  BY DEF SameBodies
<1>4. ASSUME SameBodies, files' = files, NEW answer \in Answers, Reply(t, answer) PROVE WholeInv'
  BY <1>4, AnswerInPlace
<1>5. {"stored", "nothing", "refused"} \subseteq Answers
  BY DEF Answers
<1>6. CASE Get(t)
  <2>1. SameBodies /\ files' = files
    BY <1>3, <1>6 DEF Get
  <2>2. CASE Reply(t, "refused") \/ Reply(t, "nothing")
    BY <1>4, <1>5, <2>1, <2>2
  <2>3. CASE req[t].off # Size /\ Goes(t, "open")
    <3>1. /\ \A s \in Tasks \ {t} : req'[s] = req[s]
          /\ req'[t].pc = "open" /\ req'[t].off = req[t].off /\ req'[t].n = 0
      BY <1>1, <1>6, <2>3, Onward DEF Get, InPlace
    <3>2. InPlace(req'[t], up)
      BY <1>1, <2>3, <3>1 DEF InPlace, Writing
    <3>3. QED
      BY <2>1, <3>1, <3>2, OneMoves
  <2>4. QED
    BY <1>6, <2>2, <2>3 DEF Get
<1>7. CASE Open(t)
  <2>1. SameBodies /\ files' = files /\ req[t].pc = "open"
    BY <1>3, <1>7 DEF Open
  <2>2. CASE Reply(t, "refused")
    BY <1>4, <1>5, <2>1, <2>2
  <2>3. CASE ~Reply(t, "refused")
    <3>1. PICK u \in Uploads : u = req[t].up
      BY <1>1, <2>1 DEF Working
    <3>2. PICK h : req' = [req EXCEPT ![t].pc = "copy", ![t].hashing = h]
      BY <1>7, <2>3 DEF Open
    <3>3. Len(up[u].data) = req[t].off
      BY <1>7, <2>3, <3>1 DEF Open, Offset
    <3>4. PICK r : r = [req[t] EXCEPT !.pc = "copy", !.hashing = h]
      OBVIOUS
    <3>5. r.pc = "copy" /\ r.up = u /\ r.off = req[t].off /\ r.n = req[t].n
      BY <1>1, <3>1, <3>4 DEF RequestSet
    <3>6. req' = [req EXCEPT ![t] = r]
      BY <3>2, <3>4
    <3>7. req'[t] = r /\ \A s \in Tasks \ {t} : req'[s] = req[s]
      BY <1>1, <3>6 DEF ReceiverTyped
    <3>8. InPlace(r, up)
      BY <1>1, <2>1, <3>1, <3>3, <3>5 DEF InPlace, Writing
    <3>9. QED
      BY <2>1, <3>7, <3>8, OneMoves
  <2>4. QED
    BY <2>2, <2>3
<1>8. CASE Write(t)
  <2>1. /\ MaySend(t) /\ Land(t) /\ files' = files
        /\ \E pc \in {"hash", "copy", "error"} : req' = [req EXCEPT ![t].n = @ + 1, ![t].pc = pc]
    BY <1>8 DEF Write, Sending, MaySend, Fault
  <2>2. QED
    BY <2>1, ChunkLands
<1>9. CASE ShortWrite(t)
  <2>1. /\ MaySend(t) /\ Land(t) /\ files' = files
        /\ \E pc \in {"hash", "copy", "error"} : req' = [req EXCEPT ![t].n = @ + 1, ![t].pc = pc]
    BY <1>9 DEF ShortWrite, Sending, MaySend
  <2>2. QED
    BY <2>1, ChunkLands
<1>10. CASE Hash(t)
  <2>1. SameBodies /\ files' = files /\ req[t].pc = "hash" /\ Goes(t, "copy")
    BY <1>3, <1>10 DEF Hash
  <2>2. /\ \A s \in Tasks \ {t} : req'[s] = req[s]
        /\ req'[t].pc = "copy" /\ req'[t].up = req[t].up /\ req'[t].off = req[t].off
        /\ req'[t].n = req[t].n /\ req'[t].cut = req[t].cut
    BY <1>1, <2>1, Onward
  <2>3. InPlace(req'[t], up)
    BY <1>1, <2>1, <2>2 DEF InPlace, Writing
  <2>4. QED
    BY <2>1, <2>2, <2>3, OneMoves
<1>11. CASE EndOfBody(t)
  <2>1. SameBodies /\ files' = files /\ req[t].pc = "copy"
    BY <1>3, <1>11 DEF EndOfBody
  <2>2. CASE Reply(t, "refused")
    BY <1>4, <1>5, <2>1, <2>2
  <2>3. CASE ~Sending(t) /\ Goes(t, "digest")
    <3>1. PICK u \in Uploads : u = req[t].up
      BY <1>1, <2>1 DEF Working
    <3>2. req[t].off + req[t].n <= Len(up[u].data) /\ Len(up[u].data) <= Size
      BY <1>1, <2>1, <3>1 DEF InPlace, Prefix, Working
    <3>3. Len(up[u].data) = Size
      BY <1>1, <1>2, <2>1, <2>3, <3>2 DEF Sending
    <3>4. /\ \A s \in Tasks \ {t} : req'[s] = req[s]
          /\ req'[t].pc = "digest" /\ req'[t].up = u
      BY <1>1, <2>3, <3>1, Onward
    <3>5. InPlace(req'[t], up)
      BY <3>3, <3>4 DEF InPlace, Writing
    <3>6. QED
      BY <2>1, <3>4, <3>5, OneMoves
  <2>4. QED
    BY <1>11, <2>2, <2>3 DEF EndOfBody
<1>12. CASE WriteFailed(t)
  <2>1. SameBodies /\ files' = files /\ Reply(t, "refused")
    BY <1>3, <1>12 DEF WriteFailed
  <2>2. QED
    BY <1>4, <1>5, <2>1
<1>13. CASE Digest(t)
  <2>1. PICK u \in Uploads : u = req[t].up /\ req[t].pc = "digest" /\ files' = files
    BY <1>1, <1>13 DEF Digest, Working
  <2>2. PICK d : d = IF Taken(u) THEN hasher[u].sum ELSE up[u].data
    OBVIOUS
  <2>3. CASE Mismatch(u, d)
    <3>1. PICK b : b = IF up[u].bin = "incoming" THEN "gone" ELSE up[u].bin
      OBVIOUS
    <3>2. Reply(t, "refused") /\ up' = [up EXCEPT ![u].info = FALSE, ![u].bin = b]
      BY <1>13, <2>1, <2>2, <2>3, <3>1 DEF Digest
    <3>3. SameBodies
      BY <1>1, <3>2, BodiesKept
    <3>4. QED
      BY <1>4, <1>5, <2>1, <3>2, <3>3
  <2>4. CASE ~Mismatch(u, d)
    <3>1. req' = [req EXCEPT ![t].pc = "commit", ![t].digest = d] /\ up' = up
      BY <1>13, <2>1, <2>2, <2>4 DEF Digest
    <3>2. PICK r : r = [req[t] EXCEPT !.pc = "commit", !.digest = d]
      OBVIOUS
    <3>3. r.pc = "commit" /\ r.up = u /\ r.digest = d
      BY <1>1, <2>1, <3>2 DEF RequestSet
    <3>4. req' = [req EXCEPT ![t] = r]
      BY <3>1, <3>2
    <3>5. req'[t] = r /\ \A s \in Tasks \ {t} : req'[s] = req[s]
      BY <1>1, <3>4 DEF ReceiverTyped
    <3>6. InPlace(r, up)
      BY <1>1, <2>1, <2>4, <3>3 DEF InPlace, Writing, Mismatch
    <3>7. QED
      BY <1>3, <2>1, <3>1, <3>5, <3>6, OneMoves
  <2>5. QED
    BY <2>3, <2>4
<1>14. CASE Commit(t)
  <2>1. PICK u \in Uploads : u = req[t].up /\ req[t].pc = "commit" /\ up[u] \in UploadSet
    BY <1>1, <1>14 DEF Commit, Working, ReceiverTyped
  <2>2. /\ \A s \in Tasks \ {t} : req'[s] = req[s]
        /\ req'[t].pc = "tidy"
    BY <1>1, <1>14, Onward DEF Commit
  <2>3. InPlace(req'[t], up)
    BY <2>2 DEF InPlace, Writing
  <2>4. SameBodies
    <3>1. CASE up' = [up EXCEPT ![u].bin = IF @ = "incoming" THEN "gone" ELSE @]
      <4>1. PICK b : b = IF up[u].bin = "incoming" THEN "gone" ELSE up[u].bin
        OBVIOUS
      <4>2. up' = [up EXCEPT ![u].bin = b]
        BY <3>1, <4>1
      <4>3. QED
        BY <1>1, <4>2, BodiesKept
    <3>2. CASE up' = [up EXCEPT ![u].bin = "stored"]
      BY <1>1, <3>2, BodiesKept
    <3>3. QED
      BY <1>14, <2>1, <3>1, <3>2 DEF Commit
  <2>5. CASE files' = files
    BY <2>2, <2>3, <2>4, <2>5, OneMoves
  <2>6. CASE files' = files \union {[asset |-> up[u].asset, up |-> u, digest |-> req[t].digest]}
    <3>1. up[u].data = Whole /\ (up[u].declared => req[t].digest = Whole)
      BY <1>1, <2>1, AllOfIt DEF InPlace, Working, UploadSet
    <3>2. up'[u].data = Whole /\ (up'[u].declared => req[t].digest = Whole)
      <4>1. up[u].data # <<>>
        BY <3>1, UploadAssumption DEF Whole
      <4>2. QED
        BY <2>4, <3>1, <4>1 DEF SameBodies
    <3>3. ASSUME NEW f \in files PROVE up'[f.up].data = Whole /\ (up'[f.up].declared => f.digest = Whole)
      <4>1. f.up \in Uploads /\ up[f.up].data = Whole /\ (up[f.up].declared => f.digest = Whole)
        BY DEF WholeInv, StoredIsWhatWasSent, BackgroundInv, ReceiverTyped, FileSet
      <4>2. Whole # <<>>
        BY UploadAssumption DEF Whole
      <4>3. QED
        BY <2>4, <4>1, <4>2 DEF SameBodies
    <3>4. StoredIsWhatWasSent'
      BY <2>6, <3>2, <3>3 DEF StoredIsWhatWasSent
    <3>5. ASSUME NEW s \in Tasks PROVE InPlace(req'[s], up)
      BY <2>2, <2>3 DEF WholeInv, Follows
    <3>6. Prefixes' /\ Follows'
      BY <2>4, <3>5, BesideFiles
    <3>7. QED
      BY <3>4, <3>6 DEF WholeInv
  <2>7. QED
    BY <1>14, <2>1, <2>5, <2>6 DEF Commit
<1>15. CASE FinishFails(t)
  <2>1. SameBodies /\ files' = files /\ Reply(t, "refused")
    BY <1>3, <1>15 DEF FinishFails
  <2>2. QED
    BY <1>4, <1>5, <2>1
<1>16. CASE Tidy(t)
  <2>1. req[t].up \in Uploads
    BY <1>1, <1>16 DEF Tidy, Working
  <2>2. SameBodies /\ files' = files /\ Reply(t, "stored")
    BY <1>1, <1>16, <2>1, BodiesKept DEF Tidy
  <2>3. QED
    BY <1>4, <1>5, <2>2
<1>17. QED
  BY <1>6, <1>7, <1>8, <1>9, <1>10, <1>11, <1>12, <1>13, <1>14, <1>15, <1>16 DEF Handle
\* The death of the receiver and a sweep leave the bytes, and who still writes.
LEMMA LossKeepsWhole ==
  ASSUME BackgroundInv, WholeInv, Serving', Kill \/ \E u \in Uploads : Sweep(u)
  PROVE  WholeInv'
<1>1. ReceiverTyped
  BY DEF BackgroundInv
<1>2. CASE Kill
  <2>1. SameBodies /\ files' = files
    BY <1>2 DEF Kill, SameBodies
  <2>2. ASSUME NEW t \in Tasks PROVE Calmer(req[t], req'[t])
    <3>1. req'[t] \in {req[t], NoRequest, [NoRequest EXCEPT !.pc = "refused"]}
      BY <1>2 DEF Kill
    <3>2. NoRequest.pc = "idle" /\ [NoRequest EXCEPT !.pc = "refused"].pc = "refused"
      BY DEF NoRequest
    <3>3. QED
      BY <3>1, <3>2 DEF Calmer, Answers
  <2>3. QED
    BY <2>1, <2>2, CalmKept
<1>3. CASE \E u \in Uploads : Sweep(u)
  <2>1. PICK u \in Uploads : Sweep(u)
    BY <1>3
  <2>2. SameBodies
    <3>1. \/ up' = [up EXCEPT ![u].info = FALSE, ![u].bin = "gone"]
          \/ up' = [up EXCEPT ![u].info = FALSE]
      BY <2>1 DEF Sweep
    <3>2. QED
      BY <1>1, <3>1, BodiesKept
  <2>3. files' = files /\ req' = req
    BY <2>1 DEF Sweep
  <2>4. \A t \in Tasks : Calmer(req[t], req'[t])
    BY <2>3 DEF Calmer
  <2>5. QED
    BY <2>2, <2>3, <2>4, CalmKept
<1>4. QED
  BY <1>2, <1>3

\* A new upload is empty, and was nobody's.
LEMMA NewBodies ==
  ASSUME ReceiverTyped, NEW u \in Uploads, NewId(u), NEW j, NEW d, NewUpload(u, j, d)
  PROVE  SameBodies
<1>1. PICK x : x = [asset |-> j, declared |-> d, info |-> TRUE, bin |-> "incoming", data |-> <<>>]
  OBVIOUS
<1>2. up' = [up EXCEPT ![u] = x] /\ x.data = <<>>
  BY <1>1 DEF NewUpload
<1>3. up[u].data = <<>>
  BY DEF NewId, NoUpload
<1>4. QED
  BY <1>2, <1>3 DEF ReceiverTyped, SameBodies

\* A request that leaves the phone, in the slot of none.
LEMMA EnqueuedCalm ==
  ASSUME ReceiverTyped, NEW j, NEW x, Enqueue(j, x)
  PROVE  \A t \in Tasks : Calmer(req[t], req'[t])
<1>1. PICK t \in Tasks : req' = req \/ Arrive(t, x.loc, x.off)
  BY DEF Enqueue
<1>2. CASE req' = req
  BY <1>2 DEF Calmer
<1>3. CASE Arrive(t, x.loc, x.off)
  <2>1. PICK q : q = [NoRequest EXCEPT !.pc = "get", !.up = x.loc, !.off = x.off]
    OBVIOUS
  <2>2. q.pc = "get" /\ q.n = 0
    BY <2>1 DEF NoRequest
  <2>3. req' = [req EXCEPT ![t] = q]
    BY <1>3, <2>1 DEF Arrive
  <2>4. QED
    BY <2>2, <2>3 DEF ReceiverTyped, Calmer
<1>4. QED
  BY <1>1, <1>2, <1>3

\* A request that was given up is cut, if it had not ended.
LEMMA AbortedCalm ==
  ASSUME ReceiverTyped, NEW t \in Tasks
  PROVE  Calmer(req[t], Abort(t)) /\ Calmer(req[t], NoRequest) /\ Calmer(req[t], req[t])
<1>1. NoRequest.pc = "idle"
  BY DEF NoRequest
<1>2. req[t] \in RequestSet
  BY DEF ReceiverTyped
<1>3. PICK q : q = [req[t] EXCEPT !.cut = TRUE]
  OBVIOUS
<1>4. q.pc = req[t].pc /\ q.up = req[t].up /\ q.off = req[t].off /\ q.n = req[t].n /\ q.digest = req[t].digest /\ q.cut
  BY <1>2, <1>3 DEF RequestSet
<1>5. Abort(t) \in {NoRequest, q}
  BY <1>3 DEF Abort
<1>6. QED
  BY <1>1, <1>4, <1>5 DEF Calmer

\* The phone creates uploads, sends requests and gives them up: it writes to none.
LEMMA PhoneKeepsWhole ==
  ASSUME BackgroundInv, WholeInv, Serving', [Next]_vars,
         ~(\E t \in Tasks : Handle(t) \/ ShortWrite(t)), ~Kill, ~(\E u \in Uploads : Sweep(u))
  PROVE  WholeInv'
<1>1. ReceiverTyped /\ req \in [Tasks -> RequestSet]
  BY DEF BackgroundInv, ReceiverTyped
<1>2. req' = req => \A t \in Tasks : Calmer(req[t], req'[t])
  BY DEF Calmer
<1>3. up' = up => SameBodies
  BY DEF SameBodies
<1>4. CASE UNCHANGED receiver
  BY <1>2, <1>3, <1>4, CalmKept
<1>5. CASE \E u \in Uploads : Start(u)
  <2>1. PICK u \in Uploads, d \in Declares :
          NewId(u) /\ NewUpload(u, batch.job, d) /\ UNCHANGED <<files, req>>
    BY <1>5 DEF Start
  <2>2. SameBodies
    BY <1>1, <2>1, NewBodies
  <2>3. QED
    BY <1>2, <2>1, <2>2, CalmKept
<1>6. CASE \E r \in Callers, u \in Uploads : Recreate(r, u)
  <2>1. PICK r \in Callers, u \in Uploads, d \in Declares :
          NewId(u) /\ NewUpload(u, caller[r].job, d) /\ UNCHANGED <<files, req>>
    BY <1>6 DEF Recreate
  <2>2. SameBodies
    BY <1>1, <2>1, NewBodies
  <2>3. QED
    BY <1>2, <2>1, <2>2, CalmKept
<1>7. CASE Started
  <2>1. PICK x : Enqueue(batch.job, x) /\ UNCHANGED <<up, files>>
    BY <1>7 DEF Started
  <2>2. QED
    BY <1>1, <1>3, <2>1, EnqueuedCalm, CalmKept
<1>8. CASE \E r \in Callers : Resumed(r)
  <2>1. PICK r \in Callers : Resumed(r)
    BY <1>8
  <2>2. PICK x : Enqueue(caller[r].job, x) /\ UNCHANGED <<up, files>>
    BY <2>1 DEF Resumed
  <2>3. QED
    BY <1>1, <1>3, <2>2, EnqueuedCalm, CalmKept
<1>9. CASE \E t \in Tasks : TaskAnswered(t) \/ TaskFails(t)
  <2>1. PICK t \in Tasks : /\ UNCHANGED <<up, files>>
                           /\ req' = [req EXCEPT ![t] = NoRequest] \/ req' = [req EXCEPT ![t] = Abort(t)]
    BY <1>9 DEF TaskAnswered, TaskFails
  <2>2. ASSUME NEW s \in Tasks PROVE Calmer(req[s], req'[s])
    <3>1. req'[s] \in {req[s], NoRequest, Abort(s)}
      BY <1>1, <2>1
    <3>2. QED
      BY <1>1, <3>1, AbortedCalm
  <2>3. QED
    BY <1>3, <2>1, <2>2, CalmKept
<1>10. CASE Cancel
  <2>1. UNCHANGED <<up, files>> /\ req' = [t \in Tasks |-> IF task[t].st = "live" THEN Abort(t) ELSE req[t]]
    BY <1>10 DEF Cancel
  <2>2. ASSUME NEW s \in Tasks PROVE Calmer(req[s], req'[s])
    BY <1>1, <2>1, AbortedCalm
  <2>3. QED
    BY <1>3, <2>1, <2>2, CalmKept
<1>11. CASE AppKill
  BY <1>2, <1>3, <1>11, CalmKept DEF AppKill
<1>12. ASSUME \/ \E t \in Tasks : Report(t)
              \/ \E j \in Assets : Stage(j) \/ Settle(j)
              \/ StartFails \/ Discard
              \/ \E r \in Callers :
                   \/ \E kind \in {"reconcile", "retry"} : Ask(r, kind)
                   \/ List(r) \/ TakeNext(r) \/ AskOffset(r) \/ Unreachable(r) \/ Resume(r)
              \/ Collect \/ Record \/ Clear
       PROVE  UNCHANGED receiver
  BY <1>12 DEF Report, Stage, Settle, StartFails, Discard, Ask, List, TakeNext, AskOffset, Unreachable,
     Resume, Collect, Record, Clear
<1>13. QED
  BY <1>4, <1>5, <1>6, <1>7, <1>8, <1>9, <1>10, <1>11, <1>12 DEF Next

\* Nothing has been sent yet.
LEMMA WholeStarts == Init => WholeInv
<1> SUFFICES ASSUME Init PROVE WholeInv
  OBVIOUS
<1>1. \A u \in Uploads : up[u].data = <<>>
  BY DEF Init, UploadInit, NoUpload
<1>2. Prefixes
  BY <1>1, UploadAssumption DEF Prefixes, Prefix
<1>3. Follows
  BY Nothing DEF Init, UploadInit, Follows, InPlace, Writing
<1>4. QED
  BY <1>2, <1>3 DEF Init, UploadInit, WholeInv, StoredIsWhatWasSent

\* Whatever is interrupted, resumed or sent again, and whichever faults there are: as long as
\* no two requests may write to one upload, what is stored is the file that was sent, under
\* the hash that was declared (upload.go, WriteChunk, FinishUpload).  Two writers are the only
\* way to a damaged file.
THEOREM StoredFilesAreWhole == Spec /\ []OneSender => []StoredIsWhatWasSent
<1>1. BackgroundInv /\ WholeInv /\ OneSender /\ BackgroundInv' /\ [Next]_vars => WholeInv'
  <2> SUFFICES ASSUME BackgroundInv, WholeInv, OneSender, BackgroundInv', [Next]_vars PROVE WholeInv'
    OBVIOUS
  <2>1. Serving'
    BY DEF BackgroundInv
  <2>2. CASE \E t \in Tasks : Handle(t) \/ ShortWrite(t)
    BY <2>1, <2>2, HandlingKeepsWhole
  <2>3. CASE Kill \/ \E u \in Uploads : Sweep(u)
    BY <2>1, <2>3, LossKeepsWhole
  <2>4. QED
    BY <2>1, <2>2, <2>3, PhoneKeepsWhole
<1>2. WholeInv => StoredIsWhatWasSent
  BY DEF WholeInv
<1>3. QED
  BY BackgroundIsSound, WholeStarts, <1>1, <1>2, PTL DEF Spec
-----------------------------------------------------------------------------
(* Who sends.                                                              *)
(*                                                                         *)
(* One writer at a time is what the phone sees to, as far as it does: with *)
(* one call of reconcile and retryFailed at a time, no bytes that arrive   *)
(* after their sender gave the connection up, and files that are started   *)
(* when nothing of an earlier transfer of them is left.  A file then has   *)
(* one live task at most, because whoever would start a second knows of    *)
(* the first: the batch has its file to itself, and a call restarts what   *)
(* was not live when it asked and was not started since.                   *)
(***************************************************************************)

\* Calls of reconcile and retryFailed do not overlap.
OneCaller == \A q, r \in Callers : q = r

\* A call has a job to restart, or is at it.
Restarts(c, j) == c.pc \in {"next", "head", "at", "create", "enqueue"} /\ (j \in c.left \/ j = c.job)

\* The session has a task of the file that it has not reported.
Tasked(j) == \E t \in Tasks : task[t].st # "free" /\ task[t].job = j

\* Nobody is at the file.
Apart(j) == ~Tasked(j) /\ \A r \in Callers : ~Restarts(caller[r], j)

\* A file is started when nothing of an earlier transfer of it is left.
ClearStarts == \A j \in Assets : Stage(j) => job[j].st = "none" /\ Apart(j)

\* A request that was not given up is that of a live task.
Attended == \A t \in Tasks : req[t].pc \in Working \union {"get"} /\ ~req[t].cut => task[t].st = "live"

Single == \A s, t \in Tasks : task[s].st = "live" /\ task[t].st = "live" /\ task[s].job = task[t].job => s = t

\* The file the batch is about to start is its own, and its job is not taken for a lost one.
Coming == batch.pc \in {"staged", "made"} =>
  /\ Apart(batch.job)
  /\ \/ job[batch.job].st = "none"
     \/ batch.pc = "made" /\ job[batch.job].st = "pending" /\ job[batch.job].fresh

\* What was started after a call asked for the live tasks is not lost when it reads the jobs.
Recent(j) == Unfinished(job[j]) /\ job[j].fresh

Seen == \A r \in Callers, t \in Tasks :
  caller[r].pc = "list" /\ task[t].st = "live" /\ task[t].job \notin caller[r].live =>
    /\ Recent(task[t].job)
    /\ \A s \in Tasks : task[s].st # "free" /\ task[s].job = task[t].job => s = t

\* The jobs a call has to restart are not live, and none is restarted twice.
CallApart(c) ==
  /\ \A j \in Assets : Restarts(c, j) => ~Live(j)
  /\ c.pc \in {"list", "next"} => c.job = None
  /\ c.pc \in {"head", "at", "create", "enqueue"} => c.job \notin c.left

Restarted == \A r \in Callers : CallApart(caller[r])

SenderInv == Single /\ Coming /\ Seen /\ Restarted

\* No task is new, and none comes back to life.
Fewer == \A t \in Tasks :
  /\ task'[t].st # "free" => task[t].st # "free" /\ task'[t].job = task[t].job
  /\ task'[t].st = "live" => task[t].st = "live"

\* Tasks that end, and jobs that change, where neither the batch nor a call is concerned.
LEMMA BesideSenders ==
  ASSUME SenderInv, Fewer, UNCHANGED <<batch, caller>>,
         batch.pc \in {"staged", "made"} => job'[batch.job] = job[batch.job] \/ job'[batch.job].st = "none",
         \A r \in Callers, t \in Tasks :
           caller[r].pc = "list" /\ task'[t].st = "live" /\ task[t].job \notin caller[r].live
             => job'[task[t].job] = job[task[t].job]
  PROVE  SenderInv'
<1>1. Single'
  BY DEF SenderInv, Single, Fewer
<1>2. \A j : Tasked(j)' => Tasked(j)
  BY DEF Fewer, Tasked
<1>3. \A j : Live(j)' => Live(j)
  BY DEF Fewer, Live
<1>4. Coming'
  BY <1>2 DEF SenderInv, Coming, Apart
<1>5. Seen'
  <2>1. SUFFICES ASSUME NEW r \in Callers, NEW t \in Tasks,
                        caller[r].pc = "list", task'[t].st = "live", task'[t].job \notin caller[r].live
                 PROVE  /\ Recent(task[t].job)' /\ task'[t].job = task[t].job
                        /\ \A s \in Tasks : task'[s].st # "free" /\ task'[s].job = task[t].job => s = t
    BY DEF Seen, Recent, Unfinished
  <2>2. task[t].st = "live" /\ task'[t].job = task[t].job
    BY <2>1 DEF Fewer
  <2>3. Recent(task[t].job) /\ \A s \in Tasks : task[s].st # "free" /\ task[s].job = task[t].job => s = t
    BY <2>1, <2>2 DEF SenderInv, Seen
  <2>4. job'[task[t].job] = job[task[t].job]
    BY <2>1, <2>2
  <2>5. QED
    BY <2>2, <2>3, <2>4 DEF Fewer, Recent, Unfinished
<1>6. Restarted'
  BY <1>3 DEF SenderInv, Restarted, CallApart
<1>7. QED
  BY <1>1, <1>4, <1>5, <1>6 DEF SenderInv

\* A report ends a task, and the one job it writes is that task's.
LEMMA SessionApart ==
  ASSUME Fine, SenderInv, NEW t \in Tasks, TaskAnswered(t) \/ TaskFails(t) \/ Report(t)
  PROVE  SenderInv'
<1>1. task \in [Tasks -> TaskSet] /\ job \in [Assets -> JobSet]
  BY DEF Fine, TasksFine, JobsFine
<1>2. UNCHANGED <<batch, caller>> /\ task[t].st # "free"
  BY DEF TaskAnswered, TaskFails, Report
<1>3. Fewer
  <2>1. CASE Report(t)
    BY <1>1, <2>1, Empty DEF Report, Fewer
  <2>2. CASE TaskAnswered(t)
    <3>1. PICK s : s = CASE req[t].pc = "stored" -> "path" [] req[t].pc = "nothing" -> "nopath" [] OTHER -> "bad"
      OBVIOUS
    <3>2. PICK x : x = [task[t] EXCEPT !.st = "ended", !.status = s]
      OBVIOUS
    <3>3. x.st = "ended" /\ x.job = task[t].job
      BY <1>1, <3>2 DEF TaskSet
    <3>4. task' = [task EXCEPT ![t] = x]
      BY <2>2, <3>1, <3>2 DEF TaskAnswered
    <3>5. QED
      BY <1>1, <1>2, <3>3, <3>4 DEF Fewer
  <2>3. CASE TaskFails(t)
    <3>1. PICK x : x = [task[t] EXCEPT !.st = "ended"]
      OBVIOUS
    <3>2. x.st = "ended" /\ x.job = task[t].job
      BY <1>1, <3>1 DEF TaskSet
    <3>3. task' = [task EXCEPT ![t] = x]
      BY <2>3, <3>1 DEF TaskFails
    <3>4. QED
      BY <1>1, <1>2, <3>2, <3>3 DEF Fewer
  <2>4. QED
    BY <2>1, <2>2, <2>3
<1>4. ASSUME NEW k \in Assets, k # task[t].job PROVE job'[k] = job[k]
  BY <1>1, <1>4 DEF TaskAnswered, TaskFails, Report, Finish, Update
<1>5. ASSUME batch.pc \in {"staged", "made"} PROVE job'[batch.job] = job[batch.job]
  <2>1. batch.job # task[t].job /\ batch.job \in Assets
    BY <1>2, <1>5 DEF Fine, BatchFine, SenderInv, Coming, Apart, Tasked
  <2>2. QED
    BY <1>4, <2>1
<1>6. ASSUME NEW r \in Callers, NEW s \in Tasks,
             caller[r].pc = "list", task'[s].st = "live", task[s].job \notin caller[r].live
      PROVE  job'[task[s].job] = job[task[s].job]
  <2>1. task[s].st = "live" /\ task[s].job \in Assets
    BY <1>3, <1>6 DEF Fewer, Fine, TasksFine
  <2>2. ASSUME task[s].job = task[t].job PROVE job' = job
    <3>1. s = t
      BY <1>2, <1>6, <2>1, <2>2 DEF SenderInv, Seen
    <3>2. ~Report(t)
      BY <2>1, <3>1 DEF Report
    <3>3. QED
      BY <3>2 DEF TaskAnswered, TaskFails
  <2>3. QED
    BY <1>4, <2>1, <2>2
<1>7. QED
  BY <1>2, <1>3, <1>5, <1>6, BesideSenders

\* The user cancels, a job grows old, arrivals are recorded and cleared.
LEMMA OthersApart ==
  ASSUME Fine, SenderInv, Cancel \/ (\E j \in Assets : Settle(j)) \/ Collect \/ Record \/ Clear
  PROVE  SenderInv'
<1>1. task \in [Tasks -> TaskSet] /\ job \in [Assets -> JobSet]
  BY DEF Fine, TasksFine, JobsFine
<1>2. UNCHANGED <<batch, caller>>
  BY DEF Cancel, Settle, Collect, Record, Clear
<1>3. ASSUME batch.pc \in {"staged", "made"} PROVE batch.job \in Assets /\ job[batch.job].st \in {"none", "pending"}
  BY <1>3 DEF Fine, BatchFine, SenderInv, Coming
<1>4. ASSUME NEW r \in Callers, NEW t \in Tasks,
             caller[r].pc = "list", task[t].st = "live", task[t].job \notin caller[r].live
      PROVE  task[t].job \in Assets /\ job[task[t].job].st \in {"pending", "running"}
  BY <1>4 DEF Fine, TasksFine, SenderInv, Seen, Recent, Unfinished
<1>5. CASE Cancel
  <2>1. ASSUME NEW t \in Tasks
        PROVE  /\ task'[t].st # "live"
               /\ task'[t].st # "free" => task[t].st # "free" /\ task'[t].job = task[t].job
    <3>1. PICK x : x = [task[t] EXCEPT !.st = "ended"]
      OBVIOUS
    <3>2. x.st = "ended" /\ x.job = task[t].job
      BY <1>1, <3>1 DEF TaskSet
    <3>3. task'[t] = IF task[t].st = "live" THEN x ELSE task[t]
      BY <1>5, <3>1 DEF Cancel
    <3>4. QED
      BY <3>2, <3>3
  <2>2. Fewer
    BY <2>1 DEF Fewer
  <2>3. \A j \in Assets : job'[j].st = "none"
    BY <1>5, Empty DEF Cancel
  <2>4. QED
    BY <1>2, <1>3, <2>1, <2>2, <2>3, BesideSenders
<1>6. ASSUME NEW j \in Assets, Settle(j) PROVE SenderInv'
  <2>1. UNCHANGED task /\ \A r \in Callers : caller[r].pc # "list"
    BY <1>6 DEF Settle
  <2>2. PICK x : x = [job[j] EXCEPT !.fresh = FALSE]
    OBVIOUS
  <2>3. x.st = job[j].st
    BY <1>1, <2>2 DEF JobSet
  <2>4. job' = [job EXCEPT ![j] = x]
    BY <1>6, <2>2 DEF Settle
  <2>5. ASSUME batch.pc \in {"staged", "made"} PROVE job'[batch.job] = job[batch.job] \/ job'[batch.job].st = "none"
    <3>1. CASE batch.job = j
      <4>1. job[j].st = "none"
        BY <1>6, <2>5, <3>1 DEF Settle, SenderInv, Coming
      <4>2. QED
        BY <1>1, <2>3, <2>4, <3>1, <4>1
    <3>2. CASE batch.job # j
      BY <1>1, <1>3, <2>4, <2>5, <3>2
    <3>3. QED
      BY <3>1, <3>2
  <2>6. Fewer
    BY <2>1 DEF Fewer
  <2>7. QED
    BY <1>2, <2>1, <2>5, <2>6, BesideSenders
<1>7. CASE Collect \/ Record \/ Clear
  <2>1. UNCHANGED task
    BY <1>7 DEF Collect, Record, Clear
  <2>2. Fewer
    BY <2>1 DEF Fewer
  <2>3. ASSUME NEW j \in Assets, job[j].st # "done" PROVE job'[j] = job[j]
    BY <1>7, <2>3 DEF Collect, Record, Clear, Landed
  <2>4. QED
    BY <1>2, <1>3, <1>4, <2>1, <2>2, <2>3, BesideSenders
<1>8. QED
  BY <1>5, <1>6, <1>7

\* The app is killed, and its calls with it.
LEMMA KilledApart ==
  ASSUME SenderInv, AppKill
  PROVE  SenderInv'
<1>1. UNCHANGED task /\ batch' = NoBatch /\ \A r \in Callers : caller'[r] = NoCall
  BY DEF AppKill
<1>2. Single' /\ Coming'
  BY <1>1, Empty DEF SenderInv, Single, Coming
<1>3. Seen' /\ Restarted'
  BY <1>1, Empty DEF Seen, Restarted, CallApart, Restarts
<1>4. QED
  BY <1>2, <1>3 DEF SenderInv

\* A task that is new, of a file.
Takes(t, j) ==
  /\ task[t].st = "free"
  /\ \A s \in Tasks \ {t} : task'[s] = task[s]
  /\ task'[t].st \in {"live", "ended"} /\ task'[t].job = j
  /\ task'[t].st = "live" => j \in staged

\* Handing a file to the system takes a slot nobody uses.
LEMMA TaskTaken ==
  ASSUME Fine, NEW j \in Assets, NEW x, Enqueue(j, x)
  PROVE  \E t \in Tasks : Takes(t, j)
<1>1. PICK t \in Tasks :
        /\ Free(t)
        /\ \/ j \in staged /\ task' = [task EXCEPT ![t] = [st |-> "live", job |-> j, status |-> "bad"]]
           \/ task' = [task EXCEPT ![t] = [st |-> "ended", job |-> j, status |-> "bad"]]
  BY DEF Enqueue
<1>2. task \in [Tasks -> TaskSet] /\ task[t].st = "free"
  BY <1>1, Empty DEF Fine, TasksFine, Free
<1>3. QED
  BY <1>1, <1>2 DEF Takes

\* With a new task of a file that has no live one, each file has one live task at most.
LEMMA SingleKept ==
  ASSUME Single, NEW t \in Tasks, NEW j \in Assets, Takes(t, j), ~Live(j)
  PROVE  Single'
<1>1. ASSUME NEW s \in Tasks, s # t, task'[s].st = "live" PROVE task'[s].job # j
  BY <1>1 DEF Takes, Live
<1>2. QED
  BY <1>1 DEF Single, Takes

\* A call that waits for the jobs keeps what it has seen when a file of a batch is started.
LEMMA BatchApart ==
  ASSUME Fine, SenderInv, ClearStarts,
         (\E j \in Assets : Stage(j)) \/ (\E u \in Uploads : Start(u)) \/ Started \/ StartFails \/ Discard
  PROVE  SenderInv'
<1>1. /\ job \in [Assets -> JobSet] /\ batch \in BatchSet
      /\ batch.pc # "idle" => batch.job \in Assets
      /\ UNCHANGED caller
  BY DEF Fine, JobsFine, BatchFine, Stage, Start, Started, StartFails, Discard
<1>2. ASSUME UNCHANGED task PROVE Single' /\ Restarted'
  BY <1>1, <1>2 DEF SenderInv, Single, Restarted, CallApart, Restarts, Live
<1>3. ASSUME UNCHANGED <<task, job>> PROVE Seen'
  BY <1>1, <1>3 DEF SenderInv, Seen, Recent, Unfinished
<1>4. ASSUME NEW j \in Assets, Stage(j) PROVE SenderInv'
  <2>1. UNCHANGED <<task, job>> /\ batch' = [pc |-> "staged", job |-> j, up |-> 0]
    BY <1>4 DEF Stage
  <2>2. job[j].st = "none" /\ Apart(j)
    BY <1>4 DEF ClearStarts
  <2>3. Coming'
    BY <1>1, <2>1, <2>2 DEF Coming, Apart, Tasked, Restarts
  <2>4. QED
    BY <1>2, <1>3, <2>1, <2>3 DEF SenderInv
<1>5. ASSUME UNCHANGED task, batch.pc = "staged", \A k \in Assets \ {batch.job} : job'[k] = job[k] PROVE Seen'
  <2>1. ~Tasked(batch.job)
    BY <1>5 DEF SenderInv, Coming, Apart
  <2>2. \A t \in Tasks : task[t].st = "live" => task[t].job \in Assets \ {batch.job}
    BY <2>1 DEF Tasked, Fine, TasksFine
  <2>3. QED
    BY <1>1, <1>5, <2>2 DEF SenderInv, Seen, Recent, Unfinished
<1>6. ASSUME NEW u \in Uploads, Start(u) PROVE SenderInv'
  <2>1. PICK j \in Assets : j = batch.job
    BY <1>1, <1>6 DEF Start
  <2>2. PICK x : x = [st |-> "pending", loc |-> u, attempts |-> 1, path |-> FALSE, fresh |-> TRUE]
    OBVIOUS
  <2>3. UNCHANGED task /\ job' = [job EXCEPT ![j] = x] /\ batch.pc = "staged"
    BY <1>6, <2>1, <2>2 DEF Start
  <2>4. batch'.pc = "made" /\ batch'.job = j
    <3>1. batch' = [batch EXCEPT !.pc = "made", !.up = u]
      BY <1>6 DEF Start
    <3>2. QED
      BY <1>1, <2>1, <3>1 DEF BatchSet
  <2>5. Coming'
    <3>1. Apart(j)
      BY <2>1, <2>3 DEF SenderInv, Coming
    <3>2. Apart(j)'
      BY <1>1, <2>3, <3>1 DEF Apart, Tasked, Restarts
    <3>3. job'[j].st = "pending" /\ job'[j].fresh
      BY <1>1, <2>2, <2>3
    <3>4. QED
      BY <2>4, <3>2, <3>3 DEF Coming, Apart, Tasked
  <2>6. QED
    BY <1>1, <1>2, <1>5, <2>1, <2>3, <2>5 DEF SenderInv
<1>7. CASE StartFails
  <2>1. UNCHANGED task /\ batch.pc = "staged" /\ \A k \in Assets \ {batch.job} : job'[k] = job[k]
    BY <1>1, <1>7 DEF StartFails
  <2>2. batch'.pc = "refused"
    BY <1>1, <1>7 DEF StartFails, BatchSet
  <2>3. QED
    BY <1>2, <1>5, <2>1, <2>2 DEF SenderInv, Coming
<1>8. CASE Discard
  <2>1. UNCHANGED <<task, job>> /\ batch' = NoBatch
    BY <1>8 DEF Discard
  <2>2. QED
    BY <1>2, <1>3, <2>1, Empty DEF SenderInv, Coming
<1>9. CASE Started
  <2>1. PICK j \in Assets : j = batch.job
    BY <1>1, <1>9 DEF Started
  <2>2. batch.pc = "made" /\ batch' = NoBatch /\ Enqueue(j, [loc |-> batch.up, off |-> 0])
    BY <1>9, <2>1 DEF Started
  <2>3. Apart(j)
    BY <2>1, <2>2 DEF SenderInv, Coming
  <2>4. PICK t \in Tasks : Takes(t, j)
    BY <2>2, TaskTaken
  <2>5. ~Live(j)
    BY <2>3 DEF Apart, Tasked, Live
  <2>6. Single'
    BY <2>4, <2>5, SingleKept DEF SenderInv
  <2>7. Coming'
    BY <2>2, Empty DEF Coming
  <2>8. Restarted'
    <3>1. ASSUME NEW k \in Assets, Live(k)' PROVE Live(k) \/ k = j
      BY <2>4, <3>1 DEF Live, Takes
    <3>2. QED
      BY <1>1, <2>3, <3>1 DEF SenderInv, Restarted, CallApart, Restarts, Apart
  <2>9. \A k \in Assets \ {j} : job'[k] = job[k]
    BY <1>1, <1>9, <2>1 DEF Started, Update
  <2>10. ASSUME task'[t].st = "live" PROVE Recent(j)'
    <3>1. j \in staged
      BY <2>4, <2>10 DEF Takes
    <3>2. job[j].st # "none"
      BY <2>1, <2>2, <3>1 DEF Fine, Attached
    <3>3. PICK x : x = [job[j] EXCEPT !.st = "running"]
      OBVIOUS
    <3>4. x.st = "running" /\ x \in JobSet
      BY <1>1, <3>3 DEF JobSet
    <3>5. Unfinished(x) = TRUE
      BY <3>4 DEF Unfinished
    <3>6. PICK y : y = [x EXCEPT !.fresh = TRUE]
      OBVIOUS
    <3>7. y.st = "running" /\ y.fresh
      BY <3>4, <3>6 DEF JobSet
    <3>8. job' = [job EXCEPT ![j] = y]
      BY <1>9, <2>1, <3>2, <3>3, <3>5, <3>6 DEF Started, Update
    <3>9. QED
      BY <1>1, <3>7, <3>8 DEF Recent, Unfinished
  <2>11. Seen'
    <3>1. SUFFICES ASSUME NEW r \in Callers, NEW s \in Tasks,
                          caller[r].pc = "list", task'[s].st = "live", task'[s].job \notin caller[r].live
                   PROVE  /\ Recent(task[s].job)'
                          /\ \A q \in Tasks : task'[q].st # "free" /\ task'[q].job = task'[s].job => q = s
      BY <1>1 DEF Seen, Recent, Unfinished
    <3>2. CASE s = t
      <4>1. task'[s].job = j /\ Recent(j)'
        BY <2>4, <2>10, <3>1, <3>2 DEF Takes
      <4>2. ASSUME NEW q \in Tasks, task'[q].st # "free", task'[q].job = j PROVE q = t
        BY <2>3, <2>4, <4>2 DEF Takes, Apart, Tasked
      <4>3. QED
        BY <3>2, <4>1, <4>2 DEF Recent, Unfinished
    <3>3. CASE s # t
      <4>1. task'[s] = task[s] /\ task[s].job \in Assets
        BY <2>4, <3>1, <3>3 DEF Takes, Fine, TasksFine
      <4>2. task[s].job # j
        BY <2>5, <3>1, <4>1 DEF Live
      <4>3. Recent(task[s].job) /\ \A q \in Tasks : task[q].st # "free" /\ task[q].job = task[s].job => q = s
        BY <3>1, <4>1 DEF SenderInv, Seen
      <4>4. Recent(task[s].job)'
        BY <2>9, <4>1, <4>2, <4>3 DEF Recent, Unfinished
      <4>5. ASSUME NEW q \in Tasks, task'[q].st # "free", task'[q].job = task'[s].job PROVE q = s
        BY <2>4, <4>1, <4>2, <4>3, <4>5 DEF Takes
      <4>6. QED
        BY <4>4, <4>5
    <3>4. QED
      BY <3>2, <3>3
  <2>12. QED
    BY <2>6, <2>7, <2>8, <2>11 DEF SenderInv
<1>10. QED
  BY <1>4, <1>6, <1>7, <1>8, <1>9

\* The batch is about to start the file.
Reserved(j) == batch.pc \in {"staged", "made"} /\ batch.job = j

\* What a call has to restart is not live, and not about to be started.
LEMMA RestartsApart ==
  ASSUME SenderInv, NEW r \in Callers, NEW j \in Assets, Restarts(caller[r], j)
  PROVE  ~Live(j) /\ ~Reserved(j)
BY DEF SenderInv, Restarted, CallApart, Coming, Apart, Reserved

\* The one call moves, and writes no job but those it restarts.
LEMMA CallMoves ==
  ASSUME Fine, SenderInv, OneCaller, NEW r \in Callers, UNCHANGED <<task, batch>>,
         NEW c, caller' = [caller EXCEPT ![r] = c], c.pc # "list", CallApart(c),
         \A j \in Assets : Restarts(c, j) => ~Reserved(j),
         \A j \in Assets : ~Restarts(caller[r], j) => job'[j] = job[j]
  PROVE  SenderInv'
<1>1. \A q \in Callers : q = r /\ caller'[q] = c
  BY DEF OneCaller, Fine, CallsFine
<1>2. Single'
  BY DEF SenderInv, Single
<1>3. Seen'
  BY <1>1 DEF Seen
<1>4. Restarted'
  BY <1>1 DEF Restarted, CallApart, Live
<1>5. Coming'
  <2>1. SUFFICES ASSUME batch.pc \in {"staged", "made"}
                 PROVE  /\ Apart(batch.job)'
                        /\ job'[batch.job] = job[batch.job]
    BY DEF SenderInv, Coming
  <2>2. batch.job \in Assets /\ Apart(batch.job) /\ Reserved(batch.job)
    BY <2>1 DEF Fine, BatchFine, SenderInv, Coming, Reserved
  <2>3. ~Restarts(c, batch.job) /\ ~Restarts(caller[r], batch.job)
    BY <2>2, RestartsApart
  <2>4. QED
    BY <1>1, <2>2, <2>3 DEF Apart, Tasked
<1>6. QED
  BY <1>2, <1>3, <1>4, <1>5 DEF SenderInv

\* A call that goes on with less, or the same, to restart.
LEMMA CallGoesOnApart ==
  ASSUME Fine, SenderInv, OneCaller, NEW r \in Callers, UNCHANGED <<task, batch>>,
         NEW c, caller' = [caller EXCEPT ![r] = c], c.pc # "list",
         \A j \in Assets : Restarts(c, j) => Restarts(caller[r], j),
         c.pc = "next" => c.job = None,
         c.pc \in {"head", "at", "create", "enqueue"} => c.job \notin c.left,
         \A j \in Assets : ~Restarts(caller[r], j) => job'[j] = job[j]
  PROVE  SenderInv'
<1>1. \A j \in Assets : Restarts(c, j) => ~Live(j) /\ ~Reserved(j)
  BY RestartsApart
<1>2. CallApart(c)
  BY <1>1 DEF CallApart
<1>3. QED
  BY <1>1, <1>2, CallMoves

\* What a call is when restart returns.
LEMMA LeftCall ==
  ASSUME NEW c \in CallSet, NEW j \in Assets
  PROVE  LET d == [c EXCEPT !.pc = "next", !.job = None, !.off = 0, !.jobs[j] = NoJob]
         IN  d.pc = "next" /\ d.job = None /\ d.left = c.left
BY DEF CallSet

\* store.update writes no job but one.
LEMMA OneUpdated ==
  ASSUME job \in [Assets -> JobSet], NEW j \in Assets, NEW x, Update(j, x)
  PROVE  \A k \in Assets \ {j} : job'[k] = job[k]
BY DEF Update

\* A call asks for the live tasks, and reads the jobs.
LEMMA ListingApart ==
  ASSUME Fine, SenderInv, OneCaller, NEW r \in Callers,
         (\E kind \in {"reconcile", "retry"} : Ask(r, kind)) \/ List(r)
  PROVE  SenderInv'
<1>1. /\ UNCHANGED <<job, task, batch>> /\ caller[r] \in CallSet
      /\ caller \in [Callers -> CallSet]
  BY DEF Fine, CallsFine, Ask, List
<1>2. ASSUME NEW kind \in {"reconcile", "retry"}, Ask(r, kind) PROVE SenderInv'
  <2>1. PICK c : c = [NoCall EXCEPT !.pc = "list", !.kind = kind, !.live = {j \in Assets : Live(j)}]
    OBVIOUS
  <2>2. c.pc = "list" /\ c.job = None /\ c.live = {j \in Assets : Live(j)}
    BY <2>1 DEF NoCall
  <2>3. caller' = [caller EXCEPT ![r] = c]
    BY <1>2, <2>1 DEF Ask, Step
  <2>4. \A q \in Callers : q = r /\ caller'[q] = c
    BY <1>1, <2>3 DEF OneCaller
  <2>5. Single'
    BY <1>1 DEF SenderInv, Single
  <2>6. Restarted'
    BY <2>2, <2>4 DEF Restarted, CallApart, Restarts
  <2>7. Coming'
    <3>1. \A j : ~Restarts(c, j)
      BY <2>2 DEF Restarts
    <3>2. QED
      BY <1>1, <2>4, <3>1 DEF SenderInv, Coming, Apart, Tasked
  <2>8. Seen'
    <3>1. \A t \in Tasks : task[t].st = "live" => task[t].job \in c.live
      BY <2>2 DEF Fine, TasksFine, Live
    <3>2. QED
      BY <1>1, <2>4, <3>1 DEF Seen
  <2>9. QED
    BY <2>5, <2>6, <2>7, <2>8 DEF SenderInv
<1>3. CASE List(r)
  <2>1. PICK m : m = [j \in Assets |-> IF Lost(caller[r], j) THEN Kept(job[j]) ELSE NoJob]
    OBVIOUS
  <2>2. PICK l : l = {j \in Assets : Lost(caller[r], j)}
    OBVIOUS
  <2>3. PICK c : c = [caller[r] EXCEPT !.pc = "next", !.live = {}, !.jobs = m, !.left = l]
    OBVIOUS
  <2>4. caller[r].pc = "list" /\ caller[r].job = None
    BY <1>3 DEF List, SenderInv, Restarted, CallApart
  <2>5. c.pc = "next" /\ c.job = None /\ c.left = l
    BY <1>1, <2>3, <2>4 DEF CallSet
  <2>6. caller' = [caller EXCEPT ![r] = c]
    BY <1>3, <2>1, <2>2, <2>3 DEF List, Step
  <2>7. ASSUME NEW j \in Assets, Restarts(c, j) PROVE Lost(caller[r], j)
    BY <2>2, <2>5, <2>7, UploadAssumption DEF Restarts
  <2>8. ASSUME NEW j \in Assets, Lost(caller[r], j) PROVE ~Live(j) /\ ~Reserved(j)
    <3>1. ~Recent(j) /\ job[j].st # "none"
      BY <2>8 DEF Lost, Recent, Unfinished
    <3>2. ~Live(j)
      BY <2>4, <2>8, <3>1 DEF Lost, Live, SenderInv, Seen
    <3>3. ~Reserved(j)
      BY <3>1 DEF Reserved, SenderInv, Coming, Recent, Unfinished
    <3>4. QED
      BY <3>2, <3>3
  <2>9. CallApart(c)
    BY <2>5, <2>7, <2>8 DEF CallApart
  <2>10. QED
    BY <1>1, <2>5, <2>6, <2>7, <2>8, <2>9, CallMoves
<1>4. QED
  BY <1>2, <1>3

\* A call goes through its jobs and asks the receiver for offsets.
LEMMA TakingApart ==
  ASSUME Fine, SenderInv, OneCaller, NEW r \in Callers, TakeNext(r) \/ AskOffset(r)
  PROVE  SenderInv'
<1>1. /\ UNCHANGED <<task, batch>> /\ caller[r] \in CallSet /\ job \in [Assets -> JobSet]
      /\ CallApart(caller[r])
  BY DEF Fine, CallsFine, JobsFine, TakeNext, AskOffset, SenderInv, Restarted
<1>2. CASE TakeNext(r)
  <2>1. caller[r].pc = "next" /\ caller[r].job = None /\ caller[r].left \subseteq Assets
    BY <1>1, <1>2 DEF TakeNext, CallApart, CallSet
  <2>2. CASE caller[r].left = {}
    <3>1. PICK c : c = NoCall
      OBVIOUS
    <3>2. c.pc = "idle"
      BY <3>1, Empty
    <3>3. caller' = [caller EXCEPT ![r] = c] /\ job' = job
      BY <1>2, <2>2, <3>1 DEF TakeNext, Step
    <3>4. QED
      BY <1>1, <3>2, <3>3, CallGoesOnApart DEF Restarts
  <2>3. ASSUME NEW j \in caller[r].left, Drop(j), Step(r, [caller[r] EXCEPT !.left = @ \ {j}, !.jobs[j] = NoJob])
        PROVE  SenderInv'
    <3>1. PICK c : c = [caller[r] EXCEPT !.left = @ \ {j}, !.jobs[j] = NoJob]
      OBVIOUS
    <3>2. c.pc = "next" /\ c.job = None /\ c.left = caller[r].left \ {j}
      BY <1>1, <2>1, <3>1 DEF CallSet
    <3>3. caller' = [caller EXCEPT ![r] = c]
      BY <2>3, <3>1 DEF Step
    <3>4. Restarts(caller[r], j)
      BY <2>1 DEF Restarts
    <3>5. \A k \in Assets : ~Restarts(caller[r], k) => job'[k] = job[k]
      BY <1>1, <2>1, <2>3, <3>4 DEF Drop
    <3>6. \A k \in Assets : Restarts(c, k) => Restarts(caller[r], k)
      BY <2>1, <3>2, UploadAssumption DEF Restarts
    <3>7. QED
      BY <1>1, <3>2, <3>3, <3>5, <3>6, CallGoesOnApart
  <2>4. ASSUME NEW j \in caller[r].left, UNCHANGED job, NEW pc \in {"create", "head"},
               Step(r, [caller[r] EXCEPT !.left = @ \ {j}, !.job = j, !.pc = pc])
        PROVE  SenderInv'
    <3>1. PICK c : c = [caller[r] EXCEPT !.left = @ \ {j}, !.job = j, !.pc = pc]
      OBVIOUS
    <3>2. c.pc = pc /\ c.job = j /\ c.left = caller[r].left \ {j}
      BY <1>1, <2>1, <3>1 DEF CallSet
    <3>3. caller' = [caller EXCEPT ![r] = c]
      BY <2>4, <3>1 DEF Step
    <3>4. \A k \in Assets : Restarts(c, k) => Restarts(caller[r], k)
      BY <2>1, <3>2 DEF Restarts
    <3>5. QED
      BY <1>1, <2>4, <3>2, <3>3, <3>4, CallGoesOnApart
  <2>5. QED
    BY <1>2, <2>2, <2>3, <2>4 DEF TakeNext
<1>3. CASE AskOffset(r)
  <2>1. PICK off : off = IF Offset(Mine(r).loc) > Size THEN Size ELSE Offset(Mine(r).loc)
    OBVIOUS
  <2>2. PICK c : c = IF Known(Mine(r).loc) THEN [caller[r] EXCEPT !.pc = "at", !.off = off]
                     ELSE [caller[r] EXCEPT !.pc = "create"]
    OBVIOUS
  <2>3. c.pc \in {"at", "create"} /\ c.job = caller[r].job /\ c.left = caller[r].left
    BY <1>1, <2>2 DEF CallSet
  <2>4. caller' = [caller EXCEPT ![r] = c] /\ job' = job /\ caller[r].pc = "head"
    BY <1>3, <2>1, <2>2 DEF AskOffset, Step
  <2>5. \A k \in Assets : Restarts(c, k) => Restarts(caller[r], k)
    BY <2>3, <2>4 DEF Restarts
  <2>6. c.job \notin c.left
    BY <1>1, <2>3, <2>4 DEF CallApart
  <2>7. QED
    BY <1>1, <2>3, <2>4, <2>5, <2>6, CallGoesOnApart
<1>4. QED
  BY <1>2, <1>3

\* A call writes a job back, and hands its file to the system.
LEMMA RestartingApart ==
  ASSUME Fine, SenderInv, OneCaller, NEW r \in Callers,
         Unreachable(r) \/ Resume(r) \/ (\E u \in Uploads : Recreate(r, u)) \/ Resumed(r)
  PROVE  SenderInv'
<1>1. /\ caller[r] \in CallSet /\ caller \in [Callers -> CallSet] /\ job \in [Assets -> JobSet]
      /\ caller[r].pc \in {"head", "at", "create", "enqueue"} /\ UNCHANGED batch
      /\ caller[r].job \in Assets /\ caller[r].job \notin caller[r].left
  BY DEF Fine, CallsFine, CallFine, JobsFine, Unreachable, Resume, Recreate, Resumed, SenderInv, Restarted, CallApart
<1>2. PICK j \in Assets : j = caller[r].job
  BY <1>1
<1>3. Restarts(caller[r], j)
  BY <1>1, <1>2 DEF Restarts
<1>4. PICK d : d = [caller[r] EXCEPT !.pc = "next", !.job = None, !.off = 0, !.jobs[j] = NoJob]
  OBVIOUS
<1>5. d.pc = "next" /\ d.job = None /\ d.left = caller[r].left
  BY <1>1, <1>4, LeftCall
<1>6. Leave(r) => caller' = [caller EXCEPT ![r] = d]
  BY <1>2, <1>4 DEF Leave, Step
<1>7. \A k \in Assets : Restarts(d, k) => Restarts(caller[r], k) /\ k # j
  BY <1>1, <1>2, <1>5, UploadAssumption DEF Restarts
<1>8. ASSUME UNCHANGED task, NEW x, Update(j, x), Leave(r) PROVE SenderInv'
  <2>1. \A k \in Assets : ~Restarts(caller[r], k) => job'[k] = job[k]
    BY <1>1, <1>3, <1>8, OneUpdated
  <2>2. QED
    BY <1>1, <1>5, <1>6, <1>7, <1>8, <2>1, CallGoesOnApart
<1>9. ASSUME UNCHANGED task, NEW loc, NEW off, Again(r, loc, off) PROVE SenderInv'
  <2>1. PICK c : c = [caller[r] EXCEPT !.pc = "enqueue", !.off = off, !.jobs[j].loc = loc]
    OBVIOUS
  <2>2. c.pc = "enqueue" /\ c.job = caller[r].job /\ c.left = caller[r].left
    BY <1>1, <2>1 DEF CallSet
  <2>3. caller' = [caller EXCEPT ![r] = c]
    BY <1>2, <1>9, <2>1 DEF Again, Step
  <2>4. \A k \in Assets : ~Restarts(caller[r], k) => job'[k] = job[k]
    BY <1>1, <1>2, <1>3, <1>9 DEF Again
  <2>5. \A k \in Assets : Restarts(c, k) => Restarts(caller[r], k)
    BY <1>1, <2>2 DEF Restarts
  <2>6. QED
    BY <1>1, <1>9, <2>2, <2>3, <2>4, <2>5, CallGoesOnApart
<1>10. CASE Unreachable(r)
  BY <1>2, <1>8, <1>10 DEF Unreachable
<1>11. CASE Resume(r)
  <2>1. UNCHANGED task
    BY <1>11 DEF Resume
  <2>2. (\E x : Update(j, x) /\ Leave(r)) \/ (\E loc, off : Again(r, loc, off))
    BY <1>2, <1>11 DEF Resume, Finish
  <2>3. QED
    BY <1>8, <1>9, <2>1, <2>2
<1>12. CASE \E u \in Uploads : Recreate(r, u)
  <2>1. UNCHANGED task /\ \E u : Again(r, u, 0)
    BY <1>12 DEF Recreate
  <2>2. QED
    BY <1>9, <2>1
<1>13. CASE Resumed(r)
  <2>1. /\ Enqueue(j, [loc |-> Mine(r).loc, off |-> caller[r].off])
        /\ Update(j, [job[j] EXCEPT !.st = "running"]) /\ Leave(r)
    BY <1>2, <1>13 DEF Resumed
  <2>2. PICK t \in Tasks : Takes(t, j)
    BY <2>1, TaskTaken
  <2>3. ~Live(j) /\ ~Reserved(j)
    BY <1>3, RestartsApart
  <2>4. Single'
    BY <2>2, <2>3, SingleKept DEF SenderInv
  <2>5. \A q \in Callers : q = r /\ caller'[q] = d
    BY <1>1, <1>6, <2>1 DEF OneCaller
  <2>6. Seen'
    BY <1>5, <2>5 DEF Seen
  <2>7. \A k \in Assets \ {j} : (Live(k)' => Live(k)) /\ (Tasked(k)' => Tasked(k)) /\ job'[k] = job[k]
    <3>1. ASSUME NEW k \in Assets \ {j} PROVE (Live(k)' => Live(k)) /\ (Tasked(k)' => Tasked(k))
      BY <2>2, <3>1 DEF Takes, Live, Tasked
    <3>2. QED
      BY <1>1, <2>1, <3>1, OneUpdated
  <2>8. Restarted'
    <3>1. \A k \in Assets : Restarts(d, k) => ~Live(k)'
      BY <1>7, <2>7, RestartsApart
    <3>2. QED
      BY <1>5, <2>5, <3>1 DEF Restarted, CallApart, Live
  <2>9. Coming'
    <3>1. SUFFICES ASSUME batch.pc \in {"staged", "made"}
                   PROVE  Apart(batch.job)' /\ job'[batch.job] = job[batch.job]
      BY <1>1 DEF SenderInv, Coming
    <3>2. batch.job \in Assets \ {j} /\ Apart(batch.job)
      BY <2>3, <3>1 DEF Fine, BatchFine, SenderInv, Coming, Reserved
    <3>3. ~Restarts(d, batch.job)
      BY <1>7, <3>2 DEF Apart
    <3>4. ~Tasked(batch.job)'
      <4>1. ~Tasked(batch.job)
        BY <3>2 DEF Apart
      <4>2. QED
        BY <1>1, <2>2, <3>2, <4>1 DEF Tasked, Takes
    <3>5. QED
      BY <1>1, <2>5, <2>7, <3>2, <3>3, <3>4 DEF Apart
  <2>10. QED
    BY <2>4, <2>6, <2>8, <2>9 DEF SenderInv
<1>14. QED
  BY <1>10, <1>11, <1>12, <1>13

\* A request that goes on is given up no more than before.
LEMMA CutStays ==
  ASSUME ReceiverTyped, NEW t \in Tasks, Handle(t) \/ ShortWrite(t)
  PROVE  req'[t].pc \notin Working \union {"get"} \/ req'[t].cut = req[t].cut
<1>1. req \in [Tasks -> RequestSet] /\ req[t] \in RequestSet
  BY DEF ReceiverTyped
<1>2. ASSUME NEW answer \in Answers, Reply(t, answer) PROVE req'[t].pc \notin Working \union {"get"}
  BY <1>2, Replies DEF Answers, Working
<1>3. ASSUME NEW pc, req' = [req EXCEPT ![t].pc = pc] PROVE req'[t].cut = req[t].cut
  <2>1. PICK r : r = [req[t] EXCEPT !.pc = pc]
    OBVIOUS
  <2>2. r.cut = req[t].cut
    BY <1>1, <2>1 DEF RequestSet
  <2>3. QED
    BY <1>1, <1>3, <2>1, <2>2
<1>4. ASSUME NEW pc, NEW h, req' = [req EXCEPT ![t].pc = pc, ![t].hashing = h] PROVE req'[t].cut = req[t].cut
  <2>1. PICK r : r = [req[t] EXCEPT !.pc = pc, !.hashing = h]
    OBVIOUS
  <2>2. r.cut = req[t].cut
    BY <1>1, <2>1 DEF RequestSet
  <2>3. QED
    BY <1>1, <1>4, <2>1, <2>2
<1>5. ASSUME NEW pc, NEW d, req' = [req EXCEPT ![t].pc = pc, ![t].digest = d] PROVE req'[t].cut = req[t].cut
  <2>1. PICK r : r = [req[t] EXCEPT !.pc = pc, !.digest = d]
    OBVIOUS
  <2>2. r.cut = req[t].cut
    BY <1>1, <2>1 DEF RequestSet
  <2>3. QED
    BY <1>1, <1>5, <2>1, <2>2
<1>6. ASSUME NEW pc, NEW n, req' = [req EXCEPT ![t].n = n, ![t].pc = pc] PROVE req'[t].cut = req[t].cut
  <2>1. PICK r : r = [req[t] EXCEPT !.n = n, !.pc = pc]
    OBVIOUS
  <2>2. r.cut = req[t].cut
    BY <1>1, <2>1 DEF RequestSet
  <2>3. QED
    BY <1>1, <1>6, <2>1, <2>2
<1>7. (\E answer \in Answers : Reply(t, answer)) \/ req'[t].cut = req[t].cut
  <2>1. CASE Get(t)
    BY <1>3, <2>1 DEF Get, Goes, Answers
  <2>2. CASE Open(t)
    BY <1>4, <2>2 DEF Open, Answers
  <2>3. CASE Write(t) \/ ShortWrite(t)
    BY <1>6, <2>3 DEF Write, ShortWrite
  <2>4. CASE Hash(t)
    BY <1>3, <2>4 DEF Hash, Goes
  <2>5. CASE EndOfBody(t)
    BY <1>3, <2>5 DEF EndOfBody, Goes, Answers
  <2>6. CASE WriteFailed(t)
    BY <2>6 DEF WriteFailed, Answers
  <2>7. CASE Digest(t)
    BY <1>5, <2>7 DEF Digest, Answers
  <2>8. CASE Commit(t)
    BY <1>3, <2>8 DEF Commit, Goes
  <2>9. CASE FinishFails(t) \/ Tidy(t)
    BY <2>9 DEF FinishFails, Tidy, Answers
  <2>10. QED
    BY <2>1, <2>2, <2>3, <2>4, <2>5, <2>6, <2>7, <2>8, <2>9 DEF Handle
<1>8. QED
  BY <1>2, <1>7

\* A request that was given up, and one whose task ended, are nobody's.
LEMMA AbortCuts ==
  ASSUME ReceiverTyped, NEW t \in Tasks
  PROVE  Abort(t).pc \in Working \union {"get"} => Abort(t).cut
<1>1. req[t] \in RequestSet
  BY DEF ReceiverTyped
<1>2. PICK q : q = [req[t] EXCEPT !.cut = TRUE]
  OBVIOUS
<1>3. q.cut
  BY <1>1, <1>2 DEF RequestSet
<1>4. Abort(t) \in {NoRequest, q}
  BY <1>2 DEF Abort
<1>5. QED
  BY <1>3, <1>4, Nothing DEF Working

\* A request is on its way for as long as its task lives, or was given up.
LEMMA AttendedKept ==
  ASSUME BackgroundInv, Attended, [Next]_vars
  PROVE  Attended'
<1>1. /\ ReceiverTyped /\ Serving /\ req \in [Tasks -> RequestSet]
      /\ Fine /\ task \in [Tasks -> TaskSet]
  BY Parts DEF BackgroundInv, ReceiverTyped, Fine, TasksFine
<1>2. ASSUME UNCHANGED <<task, req>> PROVE Attended'
  BY <1>2 DEF Attended
<1>3. ASSUME NEW t \in Tasks, Handle(t) \/ ShortWrite(t), UNCHANGED phone PROVE Attended'
  <2>1. Served(t)
    BY <1>1, <1>3, Handling DEF Good
  <2>2. req'[t].pc \notin Working \union {"get"} \/ req'[t].cut = req[t].cut
    BY <1>1, <1>3, CutStays
  <2>3. QED
    BY <1>3, <2>1, <2>2 DEF Attended, Served
<1>4. CASE Kill /\ UNCHANGED phone
  <2>1. ASSUME NEW t \in Tasks PROVE req'[t] = req[t] \/ req'[t].pc \in {"idle", "refused"}
    <3>1. PICK r : r = [NoRequest EXCEPT !.pc = "refused"]
      OBVIOUS
    <3>2. r.pc = "refused"
      BY <3>1 DEF NoRequest
    <3>3. req'[t] \in {req[t], NoRequest, r}
      BY <1>4, <3>1 DEF Kill
    <3>4. QED
      BY <3>2, <3>3, Nothing
  <2>2. QED
    BY <1>4, <2>1 DEF Attended, Working
<1>5. ASSUME NEW u \in Uploads, Sweep(u) /\ UNCHANGED phone PROVE Attended'
  BY <1>2, <1>5 DEF Sweep
<1>6. ASSUME NEW t \in Tasks, NEW x, NEW q, task' = [task EXCEPT ![t] = x], req' = [req EXCEPT ![t] = q],
             q.pc \in Working \union {"get"} /\ ~q.cut => x.st = "live"
      PROVE  Attended'
  <2>1. ASSUME NEW s \in Tasks PROVE req'[s].pc \in Working \union {"get"} /\ ~req'[s].cut => task'[s].st = "live"
    BY <1>1, <1>6 DEF Attended
  <2>2. QED
    BY <2>1 DEF Attended
<1>7. ASSUME NEW t \in Tasks, TaskAnswered(t) \/ TaskFails(t) \/ Report(t) PROVE Attended'
  <2>1. PICK x : task' = [task EXCEPT ![t] = x]
    BY <1>7 DEF TaskAnswered, TaskFails, Report
  <2>2. CASE TaskAnswered(t)
    BY <1>6, <2>1, <2>2, Nothing DEF TaskAnswered, Working
  <2>3. CASE TaskFails(t)
    BY <1>1, <1>6, <2>1, <2>3, AbortCuts DEF TaskFails
  <2>4. CASE Report(t)
    <3>1. req' = [req EXCEPT ![t] = req[t]]
      BY <1>1, <2>4 DEF Report
    <3>2. req[t].pc \in Working \union {"get"} => req[t].cut
      BY <2>4 DEF Report, Attended
    <3>3. QED
      BY <1>6, <2>1, <3>1, <3>2
  <2>5. QED
    BY <1>7, <2>2, <2>3, <2>4
<1>8. CASE Cancel
  <2>1. ASSUME NEW t \in Tasks, req'[t].pc \in Working \union {"get"}, ~req'[t].cut PROVE task'[t].st = "live"
    <3>1. task[t].st # "live"
      BY <1>1, <1>8, <2>1, AbortCuts DEF Cancel
    <3>2. req'[t] = req[t]
      BY <1>8, <3>1 DEF Cancel
    <3>3. QED
      BY <2>1, <3>1, <3>2 DEF Attended
  <2>2. QED
    BY <2>1 DEF Attended
<1>9. ASSUME NEW j \in Assets, NEW x, Enqueue(j, x) PROVE Attended'
  <2>1. PICK t \in Tasks :
          /\ Free(t)
          /\ \/ /\ task' = [task EXCEPT ![t] = [st |-> "live", job |-> j, status |-> "bad"]]
                /\ Arrive(t, x.loc, x.off)
             \/ /\ task' = [task EXCEPT ![t] = [st |-> "ended", job |-> j, status |-> "bad"]]
                /\ req' = req
    BY <1>9 DEF Enqueue
  <2>2. req[t].pc = "idle"
    BY <2>1, Nothing DEF Free
  <2>3. CASE req' = req
    <3>1. \A s \in Tasks \ {t} : task'[s] = task[s]
      BY <1>1, <2>1
    <3>2. QED
      BY <2>2, <2>3, <3>1 DEF Attended, Working
  <2>4. CASE req' # req
    <3>1. task' = [task EXCEPT ![t] = [st |-> "live", job |-> j, status |-> "bad"]]
      BY <2>1, <2>4
    <3>2. \E q : req' = [req EXCEPT ![t] = q]
      BY <2>1, <2>4 DEF Arrive
    <3>3. QED
      BY <1>6, <3>1, <3>2
  <2>5. QED
    BY <2>3, <2>4
<1>10. CASE Started
  BY <1>1, <1>9, <1>10 DEF Started, Fine, BatchFine
<1>11. ASSUME NEW r \in Callers, Resumed(r) PROVE Attended'
  BY <1>1, <1>9, <1>11 DEF Resumed, Fine, CallsFine, CallFine
<1>12. ASSUME \/ \E j \in Assets : Stage(j) \/ Settle(j)
              \/ \E u \in Uploads : Start(u)
              \/ StartFails \/ Discard
              \/ \E r \in Callers :
                   \/ \E kind \in {"reconcile", "retry"} : Ask(r, kind)
                   \/ List(r) \/ TakeNext(r) \/ AskOffset(r) \/ Unreachable(r) \/ Resume(r)
                   \/ \E u \in Uploads : Recreate(r, u)
              \/ Collect \/ Record \/ Clear \/ AppKill
       PROVE  UNCHANGED <<task, req>>
  BY <1>12 DEF Stage, Settle, Start, StartFails, Discard, Ask, List, TakeNext, AskOffset, Unreachable,
     Resume, Recreate, Collect, Record, Clear, AppKill
<1>13. QED
  BY <1>2, <1>3, <1>4, <1>5, <1>7, <1>8, <1>10, <1>11, <1>12 DEF Next

\* Nobody has sent anything yet.
LEMMA SendersStart == Init => SenderInv /\ Attended
<1> SUFFICES ASSUME Init PROVE SenderInv /\ Attended
  OBVIOUS
<1>1. /\ \A t \in Tasks : task[t].st = "free" /\ req[t].pc = "idle"
      /\ batch.pc = "idle" /\ \A r \in Callers : caller[r].pc = "idle"
  BY Empty, Nothing DEF Init, UploadInit
<1>2. QED
  BY <1>1 DEF SenderInv, Single, Coming, Seen, Restarted, CallApart, Restarts, Attended, Working

\* Who sends stays apart.
LEMMA SendersKept ==
  ASSUME OneCaller, BackgroundInv, SenderInv, ClearStarts \/ UNCHANGED vars, [Next]_vars
  PROVE  SenderInv'
<1>1. Fine
  BY Parts
<1>2. ASSUME UNCHANGED phone PROVE SenderInv'
  BY <1>2, BesideSenders DEF Fewer
<1>3. CASE Next /\ ~(UNCHANGED phone)
  <2>1. ClearStarts
    BY <1>3
  <2>2. CASE \E t \in Tasks : TaskAnswered(t) \/ TaskFails(t) \/ Report(t)
    BY <1>1, <2>2, SessionApart
  <2>3. CASE \/ (\E j \in Assets : Stage(j)) \/ (\E u \in Uploads : Start(u)) \/ Started \/ StartFails \/ Discard
    BY <1>1, <2>1, <2>3, BatchApart
  <2>4. CASE Cancel \/ (\E j \in Assets : Settle(j)) \/ Collect \/ Record \/ Clear
    BY <1>1, <2>4, OthersApart
  <2>5. CASE AppKill
    BY <2>5, KilledApart
  <2>6. ASSUME NEW r \in Callers, (\E kind \in {"reconcile", "retry"} : Ask(r, kind)) \/ List(r) PROVE SenderInv'
    BY <1>1, <2>6, ListingApart
  <2>7. ASSUME NEW r \in Callers, TakeNext(r) \/ AskOffset(r) PROVE SenderInv'
    BY <1>1, <2>7, TakingApart
  <2>8. ASSUME NEW r \in Callers,
               Unreachable(r) \/ Resume(r) \/ (\E u \in Uploads : Recreate(r, u)) \/ Resumed(r)
        PROVE  SenderInv'
    BY <1>1, <2>8, RestartingApart
  <2>9. QED
    BY <1>3, <2>2, <2>3, <2>4, <2>5, <2>6, <2>7, <2>8 DEF Next
<1>4. QED
  BY <1>2, <1>3

\* Two requests that may write to one upload are of live tasks of one file.
LEMMA ApartMeansOneSender ==
  ASSUME "late" \notin Faults, BackgroundInv, Attended, SenderInv
  PROVE  OneSender
<1>1. ASSUME NEW t \in Tasks, MaySend(t)
      PROVE  task[t].st = "live" /\ req[t].up \in Uploads /\ up[req[t].up].asset = task[t].job
  <2>1. req[t].pc \in Working /\ ~req[t].cut
    BY <1>1 DEF MaySend, Working
  <2>2. req[t].up \in Uploads /\ task[t].st = "live"
    BY <2>1 DEF BackgroundInv, Serving, Attended
  <2>3. req[t].up # 0
    BY <2>2, UploadAssumption DEF Uploads
  <2>4. QED
    BY <2>2, <2>3 DEF BackgroundInv, Named, For
<1>2. QED
  BY <1>1 DEF OneSender, SenderInv, Single

\* With one call of reconcile and retryFailed at a time, no bytes that arrive late, and files
\* that are started when nothing of an earlier transfer of them is left, no two requests may
\* write to one upload, for any number of files, chunks, requests, attempts, kills of either
\* side and cancels (BackgroundUploader.swift, reconcile).
THEOREM SendersAreOne ==
  ASSUME OneCaller, "late" \notin Faults
  PROVE  Spec /\ [][ClearStarts]_vars => []OneSender
<1>1. BackgroundInv /\ SenderInv /\ [Next]_vars /\ [ClearStarts]_vars => SenderInv'
  BY SendersKept
<1>2. BackgroundInv /\ Attended /\ [Next]_vars => Attended'
  BY AttendedKept
<1>3. BackgroundInv /\ Attended /\ SenderInv => OneSender
  BY ApartMeansOneSender
<1>4. QED
  BY BackgroundIsSound, SendersStart, <1>1, <1>2, <1>3, PTL DEF Spec

\* Then what is stored is the file that was sent, under the hash that was declared.
THEOREM ClearStartsStoreWholeFiles ==
  ASSUME OneCaller, "late" \notin Faults
  PROVE  Spec /\ [][ClearStarts]_vars => []StoredIsWhatWasSent
BY SendersAreOne, StoredFilesAreWhole, PTL

-----------------------------------------------------------------------------
(* One file.                                                               *)

\* A call with nothing to restart.
Blank(c) == c.pc \in {"idle", "list", "next"} /\ c.left = {} /\ c.job = None

\* Before the user starts a file there are no jobs and tasks, and nothing to restart.
Unstarted == batches = 0 =>
  /\ batch.pc = "idle"
  /\ \A j \in Assets : job[j].st = "none"
  /\ \A t \in Tasks : task[t].st = "free"
  /\ \A r \in Callers : Blank(caller[r])

\* Nothing but the first file ends that.
LEMMA UnstartedKept ==
  ASSUME BackgroundInv, Unstarted, [Next]_vars
  PROVE  Unstarted'
<1>1. /\ job \in [Assets -> JobSet] /\ caller \in [Callers -> CallSet] /\ batches \in Nat
      /\ \A r \in Callers : caller[r] \in CallSet
  BY BackgroundAssumption DEF BackgroundInv, PhoneTyped
<1>2. SUFFICES ASSUME batches' = 0 PROVE Unstarted'
  BY DEF Unstarted
<1>3. ~(\E j \in Assets : Stage(j))
  BY <1>1, <1>2 DEF Stage
<1>4. batches = 0
  BY <1>2, <1>3 DEF Next, TaskAnswered, TaskFails, Report, Settle, Start, Started, StartFails, Discard, Ask, List,
     TakeNext, AskOffset, Unreachable, Resume, Resumed, Recreate, Collect, Record, Clear, AppKill, Cancel
<1>5. /\ batch.pc = "idle"
      /\ \A j \in Assets : job[j].st = "none"
      /\ \A t \in Tasks : task[t].st = "free"
      /\ \A r \in Callers : Blank(caller[r])
  BY <1>4 DEF Unstarted
<1>6. CASE UNCHANGED phone
  BY <1>5, <1>6 DEF Unstarted
<1>7. ASSUME NEW j \in Assets, Settle(j) PROVE Unstarted'
  <2>1. PICK x : x = [job[j] EXCEPT !.fresh = FALSE]
    OBVIOUS
  <2>2. x.st = "none"
    BY <1>1, <1>5, <2>1 DEF JobSet
  <2>3. job' = [job EXCEPT ![j] = x]
    BY <1>7, <2>1 DEF Settle
  <2>4. \A k \in Assets : job'[k].st = "none"
    BY <1>1, <1>5, <2>2, <2>3
  <2>5. QED
    BY <1>5, <1>7, <2>4 DEF Settle, Unstarted
<1>8. ASSUME NEW r \in Callers, NEW c, Blank(c),
             caller' = [caller EXCEPT ![r] = c], UNCHANGED <<job, task, batch>>
      PROVE  Unstarted'
  <2>1. \A q \in Callers : caller'[q] \in {caller[q], c}
    BY <1>1, <1>8
  <2>2. QED
    BY <1>5, <1>8, <2>1 DEF Unstarted
<1>9. ASSUME NEW r \in Callers, NEW kind \in {"reconcile", "retry"}, Ask(r, kind) PROVE Unstarted'
  <2>1. PICK c : c = [NoCall EXCEPT !.pc = "list", !.kind = kind, !.live = {j \in Assets : Live(j)}]
    OBVIOUS
  <2>2. Blank(c)
    BY <2>1 DEF NoCall, Blank
  <2>3. QED
    <3>1. caller' = [caller EXCEPT ![r] = c] /\ UNCHANGED <<job, task, batch>>
      BY <1>9, <2>1 DEF Ask, Step
    <3>2. QED
      BY <1>8, <2>2, <3>1
<1>10. ASSUME NEW r \in Callers, List(r) PROVE Unstarted'
  <2>1. PICK m : m = [j \in Assets |-> IF Lost(caller[r], j) THEN Kept(job[j]) ELSE NoJob]
    OBVIOUS
  <2>2. {j \in Assets : Lost(caller[r], j)} = {}
    BY <1>5 DEF Lost, Unfinished
  <2>3. PICK c : c = [caller[r] EXCEPT !.pc = "next", !.live = {}, !.jobs = m, !.left = {}]
    OBVIOUS
  <2>4. Blank(c)
    BY <1>1, <1>5, <2>3 DEF CallSet, Blank
  <2>5. caller' = [caller EXCEPT ![r] = c]
    BY <1>10, <2>1, <2>2, <2>3 DEF List, Step
  <2>6. QED
    <3>1. UNCHANGED <<job, task, batch>>
      BY <1>10 DEF List
    <3>2. QED
      BY <1>8, <2>4, <2>5, <3>1
<1>11. ASSUME NEW r \in Callers, TakeNext(r) PROVE Unstarted'
  <2>1. PICK c : c = NoCall
    OBVIOUS
  <2>2. Blank(c)
    BY <2>1 DEF NoCall, Blank
  <2>3. caller' = [caller EXCEPT ![r] = c] /\ UNCHANGED <<job, task, batch>>
    BY <1>5, <1>11, <2>1 DEF TakeNext, Step, Blank
  <2>4. QED
    BY <1>8, <2>2, <2>3
<1>12. CASE Collect \/ Record \/ Clear
  <2>1. UNCHANGED <<task, batch, caller>> /\ \A j \in Assets : job'[j] = job[j]
    BY <1>5, <1>12 DEF Collect, Record, Clear, Landed
  <2>2. QED
    BY <1>5, <2>1 DEF Unstarted
<1>13. CASE AppKill
  BY <1>5, <1>13, Empty DEF AppKill, Unstarted, NoCall, Blank
<1>14. CASE Cancel
  BY <1>5, <1>14, Empty DEF Cancel, Unstarted
<1>15. \/ UNCHANGED phone \/ (\E j \in Assets : Settle(j))
       \/ \E r \in Callers : (\E kind \in {"reconcile", "retry"} : Ask(r, kind)) \/ List(r) \/ TakeNext(r)
       \/ Collect \/ Record \/ Clear \/ AppKill \/ Cancel
  BY <1>3, <1>5 DEF Next, TaskAnswered, TaskFails, Report, Start, Started, StartFails, Discard, AskOffset,
     Unreachable, Resume, Resumed, Recreate, Blank
<1>16. QED
  BY <1>6, <1>7, <1>9, <1>10, <1>11, <1>12, <1>13, <1>14, <1>15

\* The first file is started when nothing is left of any.
LEMMA FirstIsClear ==
  ASSUME MaxBatches <= 1, BackgroundInv, Unstarted
  PROVE  ClearStarts
<1>1. SUFFICES ASSUME NEW j \in Assets, Stage(j) PROVE job[j].st = "none" /\ Apart(j)
  BY DEF ClearStarts
<1>2. batches = 0
  BY <1>1, BackgroundAssumption DEF Stage, BackgroundInv, PhoneTyped
<1>3. QED
  BY <1>2, UploadAssumption DEF Unstarted, Apart, Tasked, Restarts, Blank

\* With one file, one call at a time and no bytes that arrive late, two requests never write
\* to one upload and what is stored is what was sent: for any number of chunks, requests,
\* uploads, attempts, kills of the app and the receiver, failing writes, sweeps and cancels.
THEOREM OneFileIsWhole ==
  ASSUME OneCaller, "late" \notin Faults, MaxBatches <= 1
  PROVE  Spec => []OneSender /\ []StoredIsWhatWasSent
<1>1. Init => Unstarted
  <2> SUFFICES ASSUME Init PROVE Unstarted
    OBVIOUS
  <2>1. Blank(NoCall)
    BY DEF NoCall, Blank
  <2>2. QED
    BY <2>1, Empty DEF Init, Unstarted
<1>2. BackgroundInv /\ Unstarted /\ [Next]_vars => Unstarted'
  BY UnstartedKept
<1>3. BackgroundInv /\ Unstarted => ClearStarts
  BY FirstIsClear
<1>4. QED
  BY BackgroundIsSound, SendersAreOne, ClearStartsStoreWholeFiles, <1>1, <1>2, <1>3, PTL DEF Spec
=============================================================================
