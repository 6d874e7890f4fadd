------------------------------- MODULE Upload -------------------------------
(***************************************************************************)
(* The upload store of the receiver (core/receiver/upload.go) and the      *)
(* protocol library that drives it (tusd, external).                       *)
(*                                                                         *)
(* An upload is a pair of files in the incoming directory: the bytes that  *)
(* arrived so far and a description.  A PATCH appends the rest of the      *)
(* file; whoever appends the last byte hashes, verifies and commits it.    *)
(* Nothing keeps two requests from one upload, and a request goes on when  *)
(* its connection is gone.                                                 *)
(*                                                                         *)
(* A file is the sequence of its chunks <<1, ..., Size>>, and a digest is  *)
(* the sequence of chunks that went into the hasher.                       *)
(***************************************************************************)
EXTENDS Naturals, Sequences, FiniteSets

CONSTANTS
  Assets,      \* files a client sends
  Size,        \* chunks of each
  None,        \* no asset
  Faults,      \* what may go wrong, of FaultKinds
  MaxUploads,  \* bound: uploads ever created
  MaxFaults,   \* bound: how often something goes wrong
  MaxTasks     \* bound: requests that may be under way

\* The receiver is killed; an upload is too old; a write fails half way; a chunk arrives
\* after its sender gave the connection up; the app is killed; the user cancels everything.
FaultKinds == {"kill", "sweep", "short", "late", "appkill", "cancel"}

ASSUME UploadAssumption ==
  /\ Size \in Nat \ {0}
  /\ MaxUploads \in Nat /\ MaxFaults \in Nat /\ MaxTasks \in Nat
  /\ Faults \subseteq FaultKinds
  /\ None \notin Assets

VARIABLES
  up,       \* the uploads: their two files, and what the client said of them
  hasher,   \* running: the hashers of this process, one per upload
  files,    \* the ledger: what was committed, under which digest
  req,      \* the PATCH requests under way
  faults    \* how often something went wrong

receiver == <<up, hasher, files, req, faults>>

Uploads == 1..MaxUploads
Tasks   == 1..MaxTasks
Whole   == [i \in 1..Size |-> i]

\* Where the bytes of an upload are.
Places == {"none", "incoming", "stored", "gone"}

NoUpload  == [asset |-> None, declared |-> FALSE, info |-> FALSE, bin |-> "none", data |-> <<>>]
NoHasher  == [in |-> FALSE, offset |-> 0, sum |-> <<>>]
NoRequest == [pc |-> "idle", up |-> 0, off |-> 0, n |-> 0, hashing |-> FALSE, cut |-> FALSE,
              digest |-> <<>>]

Answers == {"stored", "nothing", "refused"}

Chunks == Seq(1..Size)

UploadTypeOK ==
  /\ \A u \in Uploads :
       /\ up[u].asset \in Assets \union {None} /\ up[u].declared \in BOOLEAN
       /\ up[u].info \in BOOLEAN /\ up[u].bin \in Places /\ up[u].data \in Chunks
       /\ hasher[u].in \in BOOLEAN /\ hasher[u].offset \in 0..Size /\ hasher[u].sum \in Chunks
  /\ \A f \in files : f.asset \in Assets /\ f.up \in Uploads /\ f.digest \in Chunks
  /\ \A t \in Tasks :
       /\ req[t].pc \in {"idle", "get", "open", "copy", "hash", "error", "digest", "commit",
                         "tidy"} \union Answers
       /\ req[t].up \in 0..MaxUploads /\ req[t].off \in 0..Size /\ req[t].n \in 0..Size
       /\ req[t].hashing \in BOOLEAN /\ req[t].cut \in BOOLEAN /\ req[t].digest \in Chunks
  /\ faults \in 0..MaxFaults

UploadInit ==
  /\ up = [u \in Uploads |-> NoUpload]
  /\ hasher = [u \in Uploads |-> NoHasher]
  /\ files = {}
  /\ req = [t \in Tasks |-> NoRequest]
  /\ faults = 0

Fault(kind) ==
  /\ kind \in Faults
  /\ faults < MaxFaults
  /\ faults' = faults + 1

-----------------------------------------------------------------------------
(* What a client asks for.                                                 *)

\* The identifiers are random; the model hands them out in order.
NewId(u) == up[u] = NoUpload /\ \A v \in 1..(u - 1) : up[v] # NoUpload

\* POST: onCreate and NewUpload.
NewUpload(u, asset, declared) ==
  up' = [up EXCEPT ![u] = [asset |-> asset, declared |-> declared, info |-> TRUE,
                           bin |-> "incoming", data |-> <<>>]]

\* GetUpload finds both files.
Known(u) == u \in Uploads /\ up[u].info /\ up[u].bin = "incoming"

\* The Upload-Offset of a HEAD.
Offset(u) == Len(up[u].data)

\* PATCH: the request leaves the client.
Arrive(t, u, off) == req' = [req EXCEPT ![t] = [NoRequest EXCEPT !.pc = "get", !.up = u, !.off = off]]

-----------------------------------------------------------------------------
(* What a request does.                                                    *)

\* A request nobody waits for any more just ends.
Reply(t, answer) == req' = [req EXCEPT ![t] =
  IF req[t].cut THEN NoRequest ELSE [NoRequest EXCEPT !.pc = answer]]

Goes(t, pc) == req' = [req EXCEPT ![t].pc = pc]

\* tusd: an upload that is not there, an offset that is not the upload's, nothing to send.
Get(t) ==
  /\ req[t].pc = "get"
  /\ IF ~Known(req[t].up) \/ Offset(req[t].up) # req[t].off THEN Reply(t, "refused")
     ELSE IF req[t].off = Size THEN Reply(t, "nothing")
     ELSE Goes(t, "open")
  /\ UNCHANGED <<up, hasher, files, faults>>

\* hasherFor: the hasher that has seen all the bytes before off, if this process has it.
HasherFor(u, off) ==
  IF hasher[u].in /\ hasher[u].offset = off THEN hasher[u]
  ELSE IF off = 0 THEN [NoHasher EXCEPT !.in = TRUE]
  ELSE NoHasher

\* The descriptor is opened for append, and the offset is checked a second time.
Open(t) ==
  /\ req[t].pc = "open"
  /\ LET u == req[t].up
         h == HasherFor(u, req[t].off) IN
       IF up[u].bin # "incoming" \/ Offset(u) # req[t].off
       THEN Reply(t, "refused") /\ hasher' = hasher
       ELSE /\ hasher' = [hasher EXCEPT ![u] = h]
            /\ req' = [req EXCEPT ![t].pc = "copy", ![t].hashing = h.in]
  /\ UNCHANGED <<up, files, faults>>

\* Mutant of Body: a resumed request sends the file from its start.
BodyFromStart(t) == req[t].n + 1

\* The next chunk of the body, which is what the file has from the claimed offset on.
Body(t) == req[t].off + req[t].n + 1

Sending(t) == req[t].pc = "copy" /\ req[t].off + req[t].n < Size

\* io.Copy: the chunk reaches the file, also when the file has a new name by now.
Land(t) ==
  up' = [up EXCEPT ![req[t].up].data = IF Len(@) < 2 * Size THEN Append(@, Body(t)) ELSE @]

Write(t) ==
  /\ Sending(t)
  /\ IF req[t].cut THEN Fault("late") ELSE faults' = faults
  /\ Land(t)
  /\ req' = [req EXCEPT ![t].n = @ + 1, ![t].pc = IF req[t].hashing THEN "hash" ELSE "copy"]
  /\ UNCHANGED <<hasher, files>>

\* io.MultiWriter: then it reaches the hasher.
Hash(t) ==
  /\ req[t].pc = "hash"
  /\ hasher' = [hasher EXCEPT ![req[t].up].sum =
                  IF Len(@) < 2 * Size THEN Append(@, req[t].off + req[t].n) ELSE @]
  /\ Goes(t, "copy")
  /\ UNCHANGED <<up, files, faults>>

\* The disk is full: some bytes are in the file, and the hasher is not called.
ShortWrite(t) ==
  /\ Sending(t) /\ ~req[t].cut
  /\ Fault("short")
  /\ Land(t)
  /\ req' = [req EXCEPT ![t].n = @ + 1, ![t].pc = "error"]
  /\ UNCHANGED <<hasher, files>>

\* advanceHasher: whatever hasher the map has is at the new offset.
Advanced(t) ==
  LET u == req[t].up IN
  IF req[t].n > 0 /\ hasher[u].in
  THEN [hasher EXCEPT ![u].offset = req[t].off + req[t].n]
  ELSE hasher

\* The body has ended, or the connection has.  The last byte starts FinishUpload, whoever
\* is there to hear the answer.
EndOfBody(t) ==
  /\ req[t].pc = "copy"
  /\ ~Sending(t) \/ req[t].cut
  /\ hasher' = Advanced(t)
  /\ IF Sending(t) THEN Reply(t, "refused") ELSE Goes(t, "digest")
  /\ UNCHANGED <<up, files, faults>>

\* A write that failed ends the request, also one that wrote the last byte.
WriteFailed(t) ==
  /\ req[t].pc = "error"
  /\ hasher' = Advanced(t)
  /\ Reply(t, "refused")
  /\ UNCHANGED <<up, files, faults>>

\* takeHasher: a hasher that has seen the whole file.
Taken(u) == hasher[u].in /\ hasher[u].offset = Size

Mismatch(u, digest) == up[u].declared /\ digest # Whole

\* FinishUpload: the digest, of the file itself when there is no hasher for it, and the
\* comparison with the one that was declared.
Digest(t) ==
  /\ req[t].pc = "digest"
  /\ Taken(req[t].up) \/ up[req[t].up].bin = "incoming"
  /\ LET u == req[t].up
         d == IF Taken(u) THEN hasher[u].sum ELSE up[u].data IN
       /\ hasher' = [hasher EXCEPT ![u].in = FALSE]
       /\ IF Mismatch(u, d)
          THEN /\ Reply(t, "refused")
               /\ up' = [up EXCEPT ![u].info = FALSE, ![u].bin = IF @ = "incoming" THEN "gone" ELSE @]
          ELSE /\ req' = [req EXCEPT ![t].pc = "commit", ![t].digest = d]
               /\ up' = up
  /\ UNCHANGED <<files, faults>>

Held(asset, digest) == \E f \in files : f.asset = asset /\ f.digest = digest

\* storage.Commit (see Storage): a duplicate is thrown away, a new file is renamed.
Commit(t) ==
  LET u == req[t].up IN
  /\ req[t].pc = "commit"
  /\ \/ /\ Held(up[u].asset, req[t].digest)
        /\ up' = [up EXCEPT ![u].bin = IF @ = "incoming" THEN "gone" ELSE @]
        /\ files' = files
     \/ /\ ~Held(up[u].asset, req[t].digest)
        /\ up[u].bin = "incoming"
        /\ up' = [up EXCEPT ![u].bin = "stored"]
        /\ files' = files \union {[asset |-> up[u].asset, up |-> u, digest |-> req[t].digest]}
  /\ Goes(t, "tidy")
  /\ UNCHANGED <<hasher, faults>>

\* Mutant of FinishFails: the client is told that the file is there.
FinishFailsSilently(t) ==
  /\ req[t].pc = "commit"
  /\ Reply(t, "stored")
  /\ UNCHANGED <<up, hasher, files, faults>>

\* The file cannot be read back, the metadata is no good, the commit fails, or what it was
\* to rename is gone.  Both files stay as they are.
FinishFails(t) ==
  /\ req[t].pc = "commit" \/ (req[t].pc = "digest" /\ ~Taken(req[t].up))
  /\ hasher' = [hasher EXCEPT ![req[t].up].in = FALSE]
  /\ Reply(t, "refused")
  /\ UNCHANGED <<up, files, faults>>

\* The description goes, and the client is told where the file is.
Tidy(t) ==
  /\ req[t].pc = "tidy"
  /\ up' = [up EXCEPT ![req[t].up].info = FALSE]
  /\ hasher' = [hasher EXCEPT ![req[t].up].in = FALSE]
  /\ Reply(t, "stored")
  /\ UNCHANGED <<files, faults>>

Handle(t) ==
  \/ Get(t) \/ Open(t) \/ Write(t) \/ Hash(t) \/ EndOfBody(t) \/ WriteFailed(t)
  \/ Digest(t) \/ Commit(t) \/ FinishFails(t) \/ Tidy(t)

-----------------------------------------------------------------------------
\* The receiver is killed: requests and hashers are lost.
Kill ==
  /\ Fault("kill")
  /\ req' = [t \in Tasks |-> IF req[t].pc \in {"idle"} \union Answers THEN req[t]
                             ELSE IF req[t].cut THEN NoRequest
                             ELSE [NoRequest EXCEPT !.pc = "refused"]]
  /\ hasher' = [u \in Uploads |-> NoHasher]
  /\ UNCHANGED <<up, files>>

\* sweepIncoming: the description is as old as the upload, its bytes are as old as the last
\* write, and the hasher goes if this process saw the upload start.
Sweep(u) ==
  LET here == {t \in Tasks : req[t].pc # "idle" /\ req[t].up = u} IN
  /\ Known(u)
  /\ Fault("sweep")
  /\ \/ /\ \A t \in here : req[t].n = 0
        /\ up' = [up EXCEPT ![u].info = FALSE, ![u].bin = "gone"]
     \/ /\ here # {}
        /\ up' = [up EXCEPT ![u].info = FALSE]
  /\ hasher' \in {hasher, [hasher EXCEPT ![u].in = FALSE]}
  /\ UNCHANGED <<files, req>>

-----------------------------------------------------------------------------
(* What the receiver promises.                                             *)

\* What was stored is the file that was sent, whatever was interrupted, resumed or sent
\* again (upload.go, WriteChunk: bytes "written at the wrong place"), and if its sender
\* declared a hash it is in the ledger under that hash (FinishUpload: "a mismatch means the
\* file is discarded, never stored").
StoredIsWhatWasSent ==
  \A f \in files :
    /\ up[f.up].data = Whole
    /\ up[f.up].declared => f.digest = Whole

\* A request that may still write to its file: of one that was cut that is a fault.
MaySend(t) ==
  /\ req[t].pc \in {"copy", "hash"} /\ req[t].off + req[t].n < Size
  /\ req[t].cut => "late" \in Faults

\* Nothing here keeps two requests from one upload: that is for whoever sends them, who has
\* one task for each job, however answers, interrupted jobs and restarts meet
\* (BackgroundUploader.swift, reconcile: "two writers at one offset is a corrupt file").
OneSender == \A s, t \in Tasks : MaySend(s) /\ MaySend(t) /\ req[s].up = req[t].up => s = t
=============================================================================
