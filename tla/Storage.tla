------------------------------ MODULE Storage ------------------------------
(***************************************************************************)
(* Commit: a file that was received in full and verified gets a name under *)
(* the destination directory and a row in the ledger (core/storage).       *)
(*                                                                         *)
(* Requests commit concurrently.  Every SQL statement (one transaction in  *)
(* the case of record) and every system call is a step of its own, the     *)
(* process may be killed between any two, and somebody uses the            *)
(* destination directory as an ordinary folder.                            *)
(***************************************************************************)
EXTENDS Naturals, FiniteSets

CONSTANTS
  Devices,     \* paired devices
  Digests,     \* contents
  Bases,       \* directory and name the template renders to, without a counter
  Exts,        \* extensions
  Pairs,       \* Live Photo and RAW+JPEG groups
  None,        \* no device, no digest, no pair
  Commits,     \* calls of Commit
  MaxCounter,  \* bound: maxCollisionAttempts - 1
  MaxKills,    \* bound: times the receiver is killed
  MaxTouched   \* bound: paths the user writes to or removes

ASSUME StorageAssumption ==
  /\ MaxCounter \in Nat /\ MaxKills \in Nat /\ MaxTouched \in Nat
  /\ None \notin Devices \union Digests \union Pairs
  /\ {"none", "empty", "foreign"} \intersect Digests = {}

VARIABLES
  commit,    \* the calls of Commit
  files,     \* the files table; stored_path is UNIQUE, so that it is keyed by path
  reserved,  \* the pair_basenames table
  disk,      \* what is at each path of the destination directory
  kills,     \* times the receiver was killed
  touched    \* history: the paths the user wrote to or removed

vars == <<commit, files, reserved, disk, kills, touched>>

Basenames == [base: Bases, n: 0..MaxCounter]
Paths     == [base: Bases, n: 0..MaxCounter, ext: Exts]

Basename(p) == [base |-> p.base, n |-> p.n]
PathOf(b, ext) == [base |-> b.base, n |-> b.n, ext |-> ext]

NoPath     == [base |-> None, n |-> 0, ext |-> None]
NoBasename == [base |-> None, n |-> 0]
NoRow      == [dev |-> None, digest |-> None, pair |-> None]

Incoming == [dev: Devices, digest: Digests, base: Bases, ext: Exts, pair: Pairs \union {None}]

Open  == {"lookup", "discard", "pair", "probe", "claim", "record", "unclaim",
          "rename", "forget", "remove", "abandon"}
Ended == {"stored", "duplicate", "failed", "killed"}

\* grouped: the name being claimed is the one the pair reserved.  A call that failed keeps
\* its path when it could not undo all it had done.
Call == [pc: Open \union Ended, in: Incoming, n: 0..MaxCounter, grouped: BOOLEAN,
         path: Paths \union {NoPath}]
NotCalled == [pc |-> "new"]

TypeOK ==
  /\ commit \in [Commits -> Call \union {NotCalled}]
  /\ files \in [Paths -> [dev: Devices, digest: Digests, pair: Pairs \union {None}] \union {NoRow}]
  /\ reserved \in [Devices \X Pairs -> Basenames \union {NoBasename}]
  /\ disk \in [Paths -> Digests \union {"none", "empty", "foreign"}]
  /\ kills \in 0..MaxKills
  /\ touched \subseteq Paths

Init ==
  /\ commit = [c \in Commits |-> NotCalled]
  /\ files = [p \in Paths |-> NoRow]
  /\ reserved = [k \in Devices \X Pairs |-> NoBasename]
  /\ disk = [p \in Paths |-> "none"]
  /\ kills = 0
  /\ touched = {}

-----------------------------------------------------------------------------
Goes(c, pc) == commit' = [commit EXCEPT ![c].pc = pc]

Begin(c, in) ==
  /\ commit[c] = NotCalled
  /\ commit' = [commit EXCEPT ![c] =
       [pc |-> "lookup", in |-> in, n |-> 0, grouped |-> FALSE, path |-> NoPath]]
  /\ UNCHANGED <<files, reserved, disk, kills, touched>>

\* A statement is refused, the request is cancelled or a directory cannot be made,
\* before anything was claimed.  The received bytes are left where they are.
Refused(c) ==
  /\ commit[c].pc \in {"lookup", "discard", "pair", "probe", "claim"}
  /\ commit' = [commit EXCEPT ![c].pc = "failed", ![c].path = NoPath]
  /\ UNCHANGED <<files, reserved, disk, kills, touched>>

\* SELECT ... WHERE device_id = ? AND hash = ?
SameContent(p, in) == files[p].dev = in.dev /\ files[p].digest = in.digest

\* existingPath, and the first read of place.
Lookup(c) ==
  /\ commit[c].pc = "lookup"
  /\ \/ \E p \in Paths :
          /\ SameContent(p, commit[c].in)
          /\ commit' = [commit EXCEPT ![c].pc = "discard", ![c].path = p]
     \/ /\ ~ \E p \in Paths : SameContent(p, commit[c].in)
        /\ Goes(c, IF commit[c].in.pair = None THEN "probe" ELSE "pair")
  /\ UNCHANGED <<files, reserved, disk, kills, touched>>

\* The content is held already: the received bytes are thrown away.
Discard(c) ==
  /\ commit[c].pc = "discard"
  /\ Goes(c, "duplicate")
  /\ UNCHANGED <<files, reserved, disk, kills, touched>>

\* reservedPairName: a member of a pair uses the name its pair has.
PairLookup(c) ==
  /\ commit[c].pc = "pair"
  /\ LET name == reserved[<<commit[c].in.dev, commit[c].in.pair>>] IN
       IF name = NoBasename THEN Goes(c, "probe")
       ELSE commit' = [commit EXCEPT ![c].pc = "claim", ![c].grouped = TRUE,
                                     ![c].path = PathOf(name, commit[c].in.ext)]
  /\ UNCHANGED <<files, reserved, disk, kills, touched>>

LastTry(call) == ~call.grouped /\ call.n = MaxCounter

\* The candidate name is taken: the next counter, or the search gives up.  A member
\* that cannot have its pair's name starts a search of its own.
NameTaken(c) ==
  LET call == commit[c] IN
  commit' = [commit EXCEPT ![c] = [call EXCEPT
    !.pc = IF LastTry(call) THEN "failed" ELSE "probe",
    !.n = IF LastTry(call) \/ call.grouped THEN @ ELSE @ + 1,
    !.grouped = FALSE,
    !.path = NoPath]]

Candidate(c) == [base |-> commit[c].in.base, n |-> commit[c].n]

\* basenameTaken: the extension is ignored.
Probe(c) ==
  /\ commit[c].pc = "probe"
  /\ IF \E p \in Paths : files[p] # NoRow /\ Basename(p) = Candidate(c)
     THEN NameTaken(c)
     ELSE commit' = [commit EXCEPT ![c].pc = "claim",
                                   ![c].path = PathOf(Candidate(c), commit[c].in.ext)]
  /\ UNCHANGED <<files, reserved, disk, kills, touched>>

\* Mutant of Free: the file is opened without O_EXCL.
NotExclusive(p) == TRUE

\* O_EXCL: nothing is at the path.
Free(p) == disk[p] = "none"

Claim(c) ==
  /\ commit[c].pc = "claim"
  /\ IF Free(commit[c].path)
     THEN /\ disk' = [disk EXCEPT ![commit[c].path] = "empty"]
          /\ Goes(c, "record")
     ELSE /\ disk' = disk
          /\ NameTaken(c)
  /\ UNCHANGED <<files, reserved, kills, touched>>

\* Mutant of Unrecorded: a row is replaced.
Overwritten(p) == TRUE

\* The UNIQUE constraint of stored_path.
Unrecorded(p) == files[p] = NoRow

\* record, one transaction: the row, and the pair's name unless it has one.
Record(c) ==
  /\ commit[c].pc = "record"
  /\ LET in  == commit[c].in
         key == <<in.dev, in.pair>> IN
       /\ Unrecorded(commit[c].path)
       /\ files' = [files EXCEPT ![commit[c].path] =
                     [dev |-> in.dev, digest |-> in.digest, pair |-> in.pair]]
       /\ reserved' = IF in.pair # None /\ reserved[key] = NoBasename
                      THEN [reserved EXCEPT ![key] = Basename(commit[c].path)]
                      ELSE reserved
  /\ Goes(c, "rename")
  /\ UNCHANGED <<disk, kills, touched>>

\* The constraint refuses the transaction, or the ledger does; it is rolled back.
RecordFails(c) ==
  /\ commit[c].pc = "record"
  /\ \/ files[commit[c].path] # NoRow /\ Goes(c, "unclaim")
     \/ Goes(c, "remove")
  /\ UNCHANGED <<files, reserved, disk, kills, touched>>

\* The placeholder goes and the search goes on.
Unclaim(c) ==
  /\ commit[c].pc = "unclaim"
  /\ disk' = [disk EXCEPT ![commit[c].path] = "none"]
  /\ NameTaken(c)
  /\ UNCHANGED <<files, reserved, kills, touched>>

\* The received bytes replace the placeholder.
Rename(c) ==
  /\ commit[c].pc = "rename"
  /\ disk' = [disk EXCEPT ![commit[c].path] = commit[c].in.digest]
  /\ Goes(c, "stored")
  /\ UNCHANGED <<files, reserved, kills, touched>>

RenameFails(c) ==
  /\ commit[c].pc = "rename"
  /\ Goes(c, "forget")
  /\ UNCHANGED <<files, reserved, disk, kills, touched>>

\* Mutant of Forget: the placeholder goes and the row stays.
ForgetNothing(c) ==
  /\ commit[c].pc = "forget"
  /\ Goes(c, "remove")
  /\ UNCHANGED <<files, reserved, disk, kills, touched>>

\* unplace: the row at that path, then the placeholder.  The errors of both are ignored.
Forget(c) ==
  /\ commit[c].pc = "forget"
  /\ \/ files' = [files EXCEPT ![commit[c].path] = NoRow] /\ Goes(c, "remove")
     \/ files' = files /\ Goes(c, "abandon")
  /\ UNCHANGED <<reserved, disk, kills, touched>>

Remove(c) ==
  /\ commit[c].pc = "remove"
  /\ \/ /\ disk' = [disk EXCEPT ![commit[c].path] = "none"]
        /\ commit' = [commit EXCEPT ![c].pc = "failed", ![c].path = NoPath]
     \/ disk' = disk /\ Goes(c, "failed")
  /\ UNCHANGED <<files, reserved, kills, touched>>

\* The row could not be deleted and stays behind.
Abandon(c) ==
  /\ commit[c].pc = "abandon"
  /\ Goes(c, "failed")
  /\ \/ disk' = [disk EXCEPT ![commit[c].path] = "none"]
     \/ disk' = disk
  /\ UNCHANGED <<files, reserved, kills, touched>>

-----------------------------------------------------------------------------
\* The receiver is killed.  Calls under way never end; the ledger and the disk stay.
Kill ==
  /\ kills < MaxKills
  /\ kills' = kills + 1
  /\ commit' = [c \in Commits |-> IF commit[c].pc \in Open
                                  THEN [commit[c] EXCEPT !.pc = "killed"] ELSE commit[c]]
  /\ UNCHANGED <<files, reserved, disk, touched>>

\* The user puts a file into the destination directory, or removes one.  Files that are
\* being written, which are empty, are left alone.
Touch(p) ==
  /\ Cardinality(touched \union {p}) <= MaxTouched
  /\ touched' = touched \union {p}
  /\ \/ disk[p] = "none" /\ disk' = [disk EXCEPT ![p] = "foreign"]
     \/ disk[p] \notin {"none", "empty"} /\ disk' = [disk EXCEPT ![p] = "none"]
  /\ UNCHANGED <<commit, files, reserved, kills>>

Next ==
  \/ \E c \in Commits :
       \/ \E in \in Incoming : Begin(c, in)
       \/ Refused(c) \/ Lookup(c) \/ Discard(c) \/ PairLookup(c) \/ Probe(c) \/ Claim(c)
       \/ Record(c) \/ RecordFails(c) \/ Unclaim(c)
       \/ Rename(c) \/ RenameFails(c) \/ Forget(c) \/ Remove(c) \/ Abandon(c)
  \/ Kill
  \/ \E p \in Paths : Touch(p)

Spec == Init /\ [][Next]_vars

-----------------------------------------------------------------------------
(* What the store promises.                                                *)

\* The name is c's, or was when the receiver was killed or could not undo the call.
Holds(c, p) ==
  /\ commit[c].pc \in {"record", "unclaim", "rename", "forget", "remove", "abandon",
                       "killed", "failed"}
  /\ commit[c].path = p

\* A row of the ledger describes the bytes that are at its path, unless the call that made
\* it is still under way, was killed or failed to undo it, or the user was there
\* (storage.go, Commit: the claim, the transaction and the rename, each of which may fail).
\* On the same terms no empty file is left behind (claim and unplace).
LedgerDescribesDisk ==
  \A p \in Paths :
    /\ files[p] # NoRow =>
         \/ disk[p] = files[p].digest
         \/ p \in touched
         \/ \E c \in Commits : Holds(c, p) /\ files[p].digest = commit[c].in.digest
    /\ disk[p] = "empty" => \E c \in Commits : Holds(c, p)

\* No two calls are told that their bytes are at the same path, also when the first file
\* was removed and the name is free again on disk (storage.go, claim and record).
StoredApart ==
  \A c, d \in Commits :
    c # d /\ commit[c].pc = "stored" /\ commit[d].pc = "stored" => commit[c].path # commit[d].path

\* Commit never touches a file that has content: a file the user put there, or one that
\* was received before (storage.go: "this rename replaces a placeholder this process
\* created rather than clobbering a file that was already there").
NothingIsClobbered ==
  [][\A c \in Commits : commit'[c] # commit[c] =>
       \A p \in Paths : disk[p] \notin {"none", "empty"} => disk'[p] = disk[p]]_vars

\* "Deduplicated is true when identical content was already present, in which case Path
\* points at the existing copy" (storage.go, Committed): the copy was there when the
\* received bytes were thrown away, unless the user removed it.
DuplicateWasPresent ==
  [][\A c \in Commits :
       commit[c].pc = "discard" /\ commit'[c].pc = "duplicate"
         => \/ disk[commit[c].path] = commit[c].in.digest
            \/ commit[c].path \in touched]_vars
=============================================================================
