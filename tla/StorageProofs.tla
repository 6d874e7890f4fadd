---------------------------- MODULE StorageProofs ----------------------------
(***************************************************************************)
(* Theorems about Storage for every number of calls of Commit, devices,    *)
(* contents, names, kills and paths the user touches.                      *)
(***************************************************************************)
EXTENDS Storage, TLAPS

(***************************************************************************)
(* The inductive invariant.                                                *)

\* A call that has claimed a name and not yet given it up or filled it.
Holding == {"record", "unclaim", "rename", "forget", "remove", "abandon"}

\* A call whose row is in the ledger, or was when it ended.
Listed == {"rename", "forget", "abandon", "stored"}

\* A call that needs a path has one, and one that looks for a pair's name has a pair.
Placed ==
  \A c \in Commits :
    /\ commit[c].pc \in Holding \union Listed \union {"claim", "discard", "duplicate"}
         => commit[c].path \in Paths
    /\ commit[c].pc = "pair" => commit[c].in.pair \in Pairs

\* O_EXCL: what a call holds is its own placeholder, and nobody else's.
Exclusive ==
  /\ \A c \in Commits : commit[c].pc \in Holding => disk[commit[c].path] = "empty"
  /\ \A c, d \in Commits :
       c # d /\ commit[c].pc \in Holding /\ commit[d].pc \in Holding => commit[c].path # commit[d].path

RowOf(in) == [dev |-> in.dev, digest |-> in.digest, pair |-> in.pair]

\* UNIQUE: the row at its path is the call's, and nobody else's.
Owned ==
  /\ \A c \in Commits : commit[c].pc \in Listed => files[commit[c].path] = RowOf(commit[c].in)
  /\ \A c, d \in Commits :
       c # d /\ commit[c].pc \in Listed /\ commit[d].pc \in Listed => commit[c].path # commit[d].path

\* The call that made the row at p, which it has still to honour or could not undo.
Unfinished(c, p) ==
  /\ commit[c].pc \in {"rename", "forget", "abandon", "killed", "failed"}
  /\ commit[c].path = p
  /\ commit[c].in.digest = files[p].digest

\* LedgerDescribesDisk, with the call that owns the row for a witness: another one that
\* happens to hold the name with the same bytes may let it go.
Accounted ==
  \A p \in Paths :
    /\ files[p] # NoRow =>
         disk[p] = files[p].digest \/ p \in touched \/ \E c \in Commits : Unfinished(c, p)
    /\ disk[p] = "empty" => \E c \in Commits : Holds(c, p)

StorageInv == TypeOK /\ Placed /\ Exclusive /\ Owned /\ Accounted

USE DEF vars

-----------------------------------------------------------------------------
(* How calls move.                                                         *)

Calls == Call \union {NotCalled}

\* A call that was made has the fields of a call.
LEMMA Called ==
  ASSUME commit \in [Commits -> Calls], NEW c \in Commits, commit[c].pc # "new"
  PROVE  commit[c] \in Call
  BY DEF Calls, NotCalled

\* Call c goes on to s with path p; the others stay where they are.
Becomes(c, s, p) ==
  /\ commit' \in [Commits -> Calls]
  /\ commit'[c] \in Call
  /\ commit'[c].pc = s /\ commit'[c].path = p
  /\ commit[c].pc # "new" => commit'[c].in = commit[c].in
  /\ \A d \in Commits \ {c} : commit'[d] = commit[d]

\* An assignment to the program counter, and perhaps the path.
LEMMA Going ==
  ASSUME commit \in [Commits -> Calls], NEW c \in Commits, commit[c].pc # "new",
         NEW s \in Open \union Ended
  PROVE  /\ Goes(c, s) => Becomes(c, s, commit[c].path)
         /\ \A p \in Paths \union {NoPath} :
              commit' = [commit EXCEPT ![c].pc = s, ![c].path = p] => Becomes(c, s, p)
<1>1. commit[c] \in Call
  BY Called
<1>2. ASSUME NEW p \in Paths \union {NoPath}
      PROVE  /\ [commit[c] EXCEPT !.pc = s, !.path = p] \in Call
             /\ [commit[c] EXCEPT !.pc = s, !.path = p].pc = s
             /\ [commit[c] EXCEPT !.pc = s, !.path = p].path = p
             /\ [commit[c] EXCEPT !.pc = s, !.path = p].in = commit[c].in
  BY <1>1, <1>2 DEF Call
<1>3. /\ [commit[c] EXCEPT !.pc = s] \in Call
      /\ [commit[c] EXCEPT !.pc = s].pc = s
      /\ [commit[c] EXCEPT !.pc = s].path = commit[c].path
      /\ [commit[c] EXCEPT !.pc = s].in = commit[c].in
  BY <1>1 DEF Call
<1>4. ASSUME NEW r, r \in Call, commit' = [commit EXCEPT ![c] = r], r.in = commit[c].in
      PROVE  Becomes(c, r.pc, r.path)
  <2>1. r \in Calls
    BY <1>4 DEF Calls
  <2>2. QED
    BY <1>4, <2>1 DEF Becomes
<1>5. ASSUME Goes(c, s) PROVE Becomes(c, s, commit[c].path)
  <2>1. PICK r : r = [commit[c] EXCEPT !.pc = s]
    OBVIOUS
  <2>2. commit' = [commit EXCEPT ![c] = r]
    BY <1>5, <2>1 DEF Goes
  <2>3. r \in Call /\ r.pc = s /\ r.path = commit[c].path /\ r.in = commit[c].in
    BY <1>3, <2>1
  <2>4. Becomes(c, r.pc, r.path)
    BY <1>4, <2>2, <2>3
  <2>5. QED
    BY <2>3, <2>4
<1>6. ASSUME NEW p \in Paths \union {NoPath}, commit' = [commit EXCEPT ![c].pc = s, ![c].path = p]
      PROVE  Becomes(c, s, p)
  <2>1. PICK r : r = [commit[c] EXCEPT !.pc = s, !.path = p]
    OBVIOUS
  <2>2. commit' = [commit EXCEPT ![c] = r]
    BY <1>6, <2>1
  <2>3. r \in Call /\ r.pc = s /\ r.path = p /\ r.in = commit[c].in
    BY <1>2, <2>1
  <2>4. Becomes(c, r.pc, r.path)
    BY <1>4, <2>2, <2>3
  <2>5. QED
    BY <2>3, <2>4
<1>7. QED
  BY <1>5, <1>6

\* A name that is taken: the call tries the next one, or fails, and has no path.
LEMMA Taking ==
  ASSUME commit \in [Commits -> Calls], NEW c \in Commits, commit[c].pc # "new", NameTaken(c)
  PROVE  \E s \in {"failed", "probe"} : Becomes(c, s, NoPath)
<1>1. commit[c] \in Call /\ commit[c].n \in 0..MaxCounter /\ MaxCounter \in Nat
  BY Called, StorageAssumption DEF Call
<1>2. PICK s \in {"failed", "probe"}, n \in 0..MaxCounter :
        /\ s = IF LastTry(commit[c]) THEN "failed" ELSE "probe"
        /\ n = IF LastTry(commit[c]) \/ commit[c].grouped THEN commit[c].n ELSE commit[c].n + 1
  BY <1>1 DEF LastTry
<1>3. n \in 0..MaxCounter
  BY <1>2
<1>4. PICK r : r = [commit[c] EXCEPT !.pc = s, !.n = n, !.grouped = FALSE, !.path = NoPath]
  OBVIOUS
<1>5. r \in Call /\ r.pc = s /\ r.path = NoPath /\ r.in = commit[c].in
  BY <1>1, <1>3, <1>4 DEF Call, Open, Ended
<1>6. commit' = [commit EXCEPT ![c] = r]
  BY <1>2, <1>4 DEF NameTaken
<1>7. r \in Calls
  BY <1>5 DEF Calls
<1>8. QED
  BY <1>5, <1>6, <1>7 DEF Becomes

\* A step of a call that holds nothing and is not in the ledger, and comes to neither.
Quiet(c) ==
  \E s \in {"lookup", "discard", "pair", "probe", "claim", "duplicate", "failed"},
     p \in Paths \union {NoPath} :
    /\ Becomes(c, s, p)
    /\ commit[c].pc \in {"new", "lookup", "discard", "pair", "probe", "claim"}
    /\ s \in {"discard", "claim", "duplicate"} => p \in Paths
    /\ s = "pair" => commit'[c].in.pair \in Pairs
    /\ UNCHANGED <<files, reserved, disk, touched>>

\* The steps before a name is claimed are quiet, and so is finding it taken.
LEMMA QuietSteps ==
  ASSUME StorageInv, NEW c \in Commits,
         \/ \E in \in Incoming : Begin(c, in)
         \/ Refused(c) \/ Lookup(c) \/ Discard(c) \/ PairLookup(c) \/ Probe(c)
         \/ Claim(c) /\ ~Free(commit[c].path)
  PROVE  Quiet(c)
<1>1. commit \in [Commits -> Calls] /\ reserved \in [Devices \X Pairs -> Basenames \union {NoBasename}]
  BY DEF StorageInv, TypeOK, Calls
<1>2. ASSUME NEW s \in {"lookup", "discard", "pair", "probe", "claim", "duplicate", "failed"},
             NEW p \in Paths \union {NoPath}, Becomes(c, s, p),
             commit[c].pc \in {"lookup", "discard", "pair", "probe", "claim"},
             s \in {"discard", "claim", "duplicate"} => p \in Paths,
             s = "pair" => commit[c].in.pair \in Pairs,
             UNCHANGED <<files, reserved, disk, touched>>
      PROVE  Quiet(c)
  BY <1>2 DEF Quiet, Becomes
<1>3. ASSUME commit[c].pc \in {"lookup", "discard", "pair", "probe", "claim"}
      PROVE  /\ commit[c].pc # "new" /\ commit[c] \in Call
             /\ commit[c].path \in Paths \union {NoPath}
  BY <1>1, <1>3, Called DEF Call
<1>4. {"lookup", "discard", "pair", "probe", "claim", "duplicate", "failed"} \subseteq Open \union Ended
  BY DEF Open, Ended
<1>5. CASE Refused(c)
  <2>1. commit[c].pc # "new" /\ commit' = [commit EXCEPT ![c].pc = "failed", ![c].path = NoPath]
    BY <1>5 DEF Refused
  <2>2. Becomes(c, "failed", NoPath)
    BY <1>1, <1>4, <2>1, Going
  <2>3. QED
    BY <1>2, <1>5, <2>2 DEF Refused
<1>6. CASE Lookup(c)
  <2>1. commit[c].pc = "lookup" /\ UNCHANGED <<files, reserved, disk, touched>>
    BY <1>6 DEF Lookup
  <2>2. ASSUME NEW p \in Paths, commit' = [commit EXCEPT ![c].pc = "discard", ![c].path = p] PROVE Quiet(c)
    <3>1. Becomes(c, "discard", p)
      BY <1>1, <1>4, <2>1, <2>2, Going
    <3>2. QED
      BY <1>2, <2>1, <3>1
  <2>3. ASSUME NEW s \in {"probe", "pair"}, s = "pair" => commit[c].in.pair # None, Goes(c, s) PROVE Quiet(c)
    <3>1. Becomes(c, s, commit[c].path)
      BY <1>1, <1>4, <2>1, <2>3, Going
    <3>2. QED
      <4>1. s = "pair" => commit[c].in.pair \in Pairs
        BY <1>3, <2>1, <2>3 DEF Call, Incoming
      <4>2. QED
        BY <1>2, <1>3, <2>1, <3>1, <4>1
  <2>4. QED
    BY <1>6, <2>2, <2>3 DEF Lookup
<1>7. CASE Discard(c)
  <2>1. commit[c].pc = "discard" /\ Goes(c, "duplicate") /\ UNCHANGED <<files, reserved, disk, touched>>
    BY <1>7 DEF Discard
  <2>2. Becomes(c, "duplicate", commit[c].path) /\ commit[c].path \in Paths
    BY <1>1, <1>4, <2>1, Going DEF StorageInv, Placed
  <2>3. QED
    BY <1>2, <2>1, <2>2
<1>8. CASE PairLookup(c)
  <2>1. commit[c].pc = "pair" /\ UNCHANGED <<files, reserved, disk, touched>>
    BY <1>8 DEF PairLookup
  <2>2. CASE Goes(c, "probe")
    <3>1. Becomes(c, "probe", commit[c].path)
      BY <1>1, <1>4, <2>1, <2>2, Going
    <3>2. QED
      BY <1>2, <1>3, <2>1, <3>1
  <2>3. CASE ~Goes(c, "probe")
    <3>1. PICK name : /\ name = reserved[<<commit[c].in.dev, commit[c].in.pair>>] /\ name # NoBasename
                      /\ commit' = [commit EXCEPT ![c].pc = "claim", ![c].grouped = TRUE,
                                                  ![c].path = PathOf(name, commit[c].in.ext)]
      BY <1>8, <2>3 DEF PairLookup
    <3>2. commit[c] \in Call /\ commit[c].in \in Incoming /\ commit[c].in.pair \in Pairs
      BY <1>3, <2>1 DEF Call, StorageInv, Placed
    <3>3. <<commit[c].in.dev, commit[c].in.pair>> \in Devices \X Pairs
      BY <3>2 DEF Incoming
    <3>4. name \in Basenames
      BY <1>1, <3>1, <3>3
    <3>5. PICK p \in Paths : p = PathOf(name, commit[c].in.ext)
      BY <3>2, <3>4 DEF PathOf, Basenames, Paths, Incoming
    <3>6. PICK r : r = [commit[c] EXCEPT !.pc = "claim", !.grouped = TRUE, !.path = p]
      OBVIOUS
    <3>7. r \in Call /\ r.pc = "claim" /\ r.path = p /\ r.in = commit[c].in
      BY <3>2, <3>6 DEF Call, Open
    <3>8. commit' = [commit EXCEPT ![c] = r]
      BY <3>1, <3>5, <3>6
    <3>9. r \in Calls
      BY <3>7 DEF Calls
    <3>10. Becomes(c, "claim", p)
      BY <1>1, <3>7, <3>8, <3>9 DEF Becomes
    <3>11. QED
      BY <1>2, <2>1, <3>10
  <2>4. QED
    BY <2>2, <2>3
<1>9. CASE Probe(c)
  <2>1. commit[c].pc = "probe" /\ UNCHANGED <<files, reserved, disk, touched>> /\ commit[c].pc # "new"
    BY <1>9 DEF Probe
  <2>2. CASE NameTaken(c)
    <3>1. PICK s \in {"failed", "probe"} : Becomes(c, s, NoPath)
      BY <1>1, <2>1, <2>2, Taking
    <3>2. QED
      BY <1>2, <2>1, <3>1
  <2>3. CASE ~NameTaken(c)
    <3>1. PICK p : /\ p = PathOf(Candidate(c), commit[c].in.ext)
                   /\ commit' = [commit EXCEPT ![c].pc = "claim", ![c].path = p]
      BY <1>9, <2>3 DEF Probe
    <3>2. commit[c] \in Call
      BY <1>3, <2>1
    <3>3. p \in Paths
      BY <3>1, <3>2 DEF PathOf, Candidate, Paths, Call, Incoming
    <3>4. Becomes(c, "claim", p)
      BY <1>1, <1>4, <2>1, <3>1, <3>3, Going
    <3>5. QED
      BY <1>2, <2>1, <3>3, <3>4
  <2>4. QED
    BY <2>2, <2>3
<1>10. CASE Claim(c) /\ ~Free(commit[c].path)
  <2>1. /\ commit[c].pc = "claim" /\ UNCHANGED <<files, reserved, disk, touched>> /\ commit[c].pc # "new"
        /\ NameTaken(c)
    BY <1>10 DEF Claim
  <2>2. PICK s \in {"failed", "probe"} : Becomes(c, s, NoPath)
    BY <1>1, <2>1, Taking
  <2>3. QED
    BY <1>2, <2>1, <2>2
<1>11. ASSUME NEW in \in Incoming, Begin(c, in) PROVE Quiet(c)
  <2>1. PICK r : r = [pc |-> "lookup", in |-> in, n |-> 0, grouped |-> FALSE, path |-> NoPath]
    OBVIOUS
  <2>2. r \in Call /\ r.pc = "lookup" /\ r.path = NoPath
    BY <2>1, StorageAssumption DEF Call, Open
  <2>3. commit' = [commit EXCEPT ![c] = r] /\ commit[c].pc = "new" /\ UNCHANGED <<files, reserved, disk, touched>>
    BY <1>11, <2>1 DEF Begin, NotCalled
  <2>4. r \in Calls
    BY <2>2 DEF Calls
  <2>5. Becomes(c, "lookup", NoPath)
    BY <1>1, <2>2, <2>3, <2>4 DEF Becomes
  <2>6. QED
    BY <2>3, <2>5 DEF Quiet
<1>12. QED
  BY <1>5, <1>6, <1>7, <1>8, <1>9, <1>10, <1>11

-----------------------------------------------------------------------------
(* The steps of a call that holds a name, by what they do to it.           *)

\* The name was free, and is c's.
Claimed(c) ==
  /\ commit[c].pc = "claim" /\ disk[commit[c].path] = "none"
  /\ disk' = [disk EXCEPT ![commit[c].path] = "empty"]
  /\ Becomes(c, "record", commit[c].path)
  /\ UNCHANGED <<files, kills, touched>>

\* The name had no row, and has c's.
Recorded(c) ==
  /\ commit[c].pc = "record" /\ files[commit[c].path] = NoRow
  /\ files' = [files EXCEPT ![commit[c].path] = RowOf(commit[c].in)]
  /\ Becomes(c, "rename", commit[c].path)
  /\ UNCHANGED <<disk, kills, touched>>

\* The received bytes are at the name.
Filled(c) ==
  /\ commit[c].pc = "rename"
  /\ disk' = [disk EXCEPT ![commit[c].path] = commit[c].in.digest]
  /\ Becomes(c, "stored", commit[c].path)
  /\ UNCHANGED <<files, kills, touched>>

\* The row is gone.
Forgotten(c) ==
  /\ commit[c].pc = "forget"
  /\ files' = [files EXCEPT ![commit[c].path] = NoRow]
  /\ Becomes(c, "remove", commit[c].path)
  /\ UNCHANGED <<disk, kills, touched>>

\* The placeholder is gone; only a call that leaves its row behind remembers the name.
Emptied(c) ==
  /\ disk' = [disk EXCEPT ![commit[c].path] = "none"]
  /\ \/ /\ commit[c].pc \in {"unclaim", "remove"}
        /\ \E s \in {"failed", "probe"} : Becomes(c, s, NoPath)
     \/ commit[c].pc = "abandon" /\ Becomes(c, "failed", commit[c].path)
  /\ UNCHANGED <<files, kills, touched>>

\* Something failed and the next thing to undo is another; neither ledger nor disk changes.
Onward(c) ==
  /\ \E s \in {"unclaim", "remove", "forget", "abandon", "failed"} :
       /\ Becomes(c, s, commit[c].path)
       /\ \/ commit[c].pc = "record" /\ s \in {"unclaim", "remove"}
          \/ commit[c].pc = "rename" /\ s = "forget"
          \/ commit[c].pc = "forget" /\ s = "abandon"
          \/ commit[c].pc \in {"remove", "abandon"} /\ s = "failed"
  /\ UNCHANGED <<files, disk, kills, touched>>

Moves(c) ==
  Quiet(c) \/ Claimed(c) \/ Recorded(c) \/ Filled(c) \/ Forgotten(c) \/ Emptied(c) \/ Onward(c)

\* Every step is one of these, a kill, the user's, or none.
LEMMA Steps ==
  ASSUME StorageInv, [Next]_vars
  PROVE  \/ \E c \in Commits : Moves(c)
         \/ Kill
         \/ \E p \in Paths : Touch(p)
         \/ UNCHANGED vars
<1>1. commit \in [Commits -> Calls]
  BY DEF StorageInv, TypeOK, Calls
<1>2. {"record", "unclaim", "rename", "forget", "remove", "abandon", "stored", "failed"}
        \subseteq Open \union Ended
  BY DEF Open, Ended
<1>3. ASSUME NEW c \in Commits, NEW s \in {"record", "unclaim", "rename", "forget", "remove",
                                           "abandon", "stored", "failed"},
             commit[c].pc # "new", Goes(c, s)
      PROVE  Becomes(c, s, commit[c].path)
  BY <1>1, <1>2, <1>3, Going
<1>4. ASSUME NEW c \in Commits,
             \/ \E in \in Incoming : Begin(c, in)
             \/ Refused(c) \/ Lookup(c) \/ Discard(c) \/ PairLookup(c) \/ Probe(c) \/ Claim(c)
             \/ Record(c) \/ RecordFails(c) \/ Unclaim(c)
             \/ Rename(c) \/ RenameFails(c) \/ Forget(c) \/ Remove(c) \/ Abandon(c)
      PROVE  Moves(c)
  <2>1. CASE \/ \E in \in Incoming : Begin(c, in)
             \/ Refused(c) \/ Lookup(c) \/ Discard(c) \/ PairLookup(c) \/ Probe(c)
             \/ Claim(c) /\ ~Free(commit[c].path)
    BY <2>1, QuietSteps DEF Moves
  <2>2. CASE Claim(c) /\ Free(commit[c].path)
    <3>1. Becomes(c, "record", commit[c].path)
      BY <1>3, <2>2 DEF Claim
    <3>2. QED
      BY <2>2, <3>1 DEF Claim, Free, Claimed, Moves
  <2>3. CASE Record(c)
    <3>1. Becomes(c, "rename", commit[c].path)
      BY <1>3, <2>3 DEF Record
    <3>2. QED
      BY <2>3, <3>1 DEF Record, Unrecorded, RowOf, Recorded, Moves
  <2>4. CASE RecordFails(c)
    <3>1. PICK s \in {"unclaim", "remove"} : Goes(c, s)
      BY <2>4 DEF RecordFails
    <3>2. Becomes(c, s, commit[c].path)
      BY <1>3, <2>4, <3>1 DEF RecordFails
    <3>3. QED
      BY <2>4, <3>2 DEF RecordFails, Onward, Moves
  <2>5. CASE Unclaim(c)
    <3>1. PICK s \in {"failed", "probe"} : Becomes(c, s, NoPath)
      BY <1>1, <2>5, Taking DEF Unclaim
    <3>2. QED
      BY <2>5, <3>1 DEF Unclaim, Emptied, Moves
  <2>6. CASE Rename(c)
    <3>1. Becomes(c, "stored", commit[c].path)
      BY <1>3, <2>6 DEF Rename
    <3>2. QED
      BY <2>6, <3>1 DEF Rename, Filled, Moves
  <2>7. CASE RenameFails(c)
    <3>1. Becomes(c, "forget", commit[c].path)
      BY <1>3, <2>7 DEF RenameFails
    <3>2. QED
      BY <2>7, <3>1 DEF RenameFails, Onward, Moves
  <2>8. CASE Forget(c)
    <3>1. CASE files' = [files EXCEPT ![commit[c].path] = NoRow] /\ Goes(c, "remove")
      <4>1. Becomes(c, "remove", commit[c].path)
        BY <1>3, <2>8, <3>1 DEF Forget
      <4>2. QED
        BY <2>8, <3>1, <4>1 DEF Forget, Forgotten, Moves
    <3>2. CASE files' = files /\ Goes(c, "abandon")
      <4>1. Becomes(c, "abandon", commit[c].path)
        BY <1>3, <2>8, <3>2 DEF Forget
      <4>2. QED
        BY <2>8, <3>2, <4>1 DEF Forget, Onward, Moves
    <3>3. QED
      BY <2>8, <3>1, <3>2 DEF Forget
  <2>9. CASE Remove(c)
    <3>1. commit[c].pc = "remove" /\ UNCHANGED <<files, kills, touched>>
      BY <2>9 DEF Remove
    <3>2. CASE /\ disk' = [disk EXCEPT ![commit[c].path] = "none"]
               /\ commit' = [commit EXCEPT ![c].pc = "failed", ![c].path = NoPath]
      <4>1. Becomes(c, "failed", NoPath)
        BY <1>1, <1>2, <3>1, <3>2, Going
      <4>2. QED
        BY <3>1, <3>2, <4>1 DEF Emptied, Moves
    <3>3. CASE disk' = disk /\ Goes(c, "failed")
      <4>1. Becomes(c, "failed", commit[c].path)
        BY <1>3, <3>1, <3>3
      <4>2. QED
        BY <3>1, <3>3, <4>1 DEF Onward, Moves
    <3>4. QED
      BY <2>9, <3>2, <3>3 DEF Remove
  <2>10. CASE Abandon(c)
    <3>1. Becomes(c, "failed", commit[c].path)
      BY <1>3, <2>10 DEF Abandon
    <3>2. QED
      BY <2>10, <3>1 DEF Abandon, Emptied, Onward, Moves
  <2>11. QED
    BY <1>4, <2>1, <2>2, <2>3, <2>4, <2>5, <2>6, <2>7, <2>8, <2>9, <2>10
<1>5. QED
  BY <1>4 DEF Next

-----------------------------------------------------------------------------
(* The invariant holds in every step.                                      *)

Contents == Digests \union {"none", "empty", "foreign"}
Rows     == [dev: Devices, digest: Digests, pair: Pairs \union {None}] \union {NoRow}

\* What the steps of a call need to know about it.
LEMMA Facts ==
  ASSUME StorageInv, NEW c \in Commits, commit[c].pc # "new"
  PROVE  /\ commit[c] \in Call /\ commit[c].in \in Incoming
         /\ commit[c].in.digest \in Digests
         /\ RowOf(commit[c].in) \in Rows \ {NoRow}
         /\ RowOf(commit[c].in).digest = commit[c].in.digest
         /\ commit[c].pc \in Holding \union {"claim"} => commit[c].path \in Paths
<1>1. commit[c] \in Call /\ commit[c].in \in Incoming
  BY Called DEF StorageInv, TypeOK, Calls, Call
<1>2. commit[c].in.digest \in Digests /\ commit[c].in.dev \in Devices /\ commit[c].in.pair \in Pairs \union {None}
  BY <1>1 DEF Incoming
<1>3. RowOf(commit[c].in) # NoRow
  BY <1>2, StorageAssumption DEF RowOf, NoRow
<1>4. RowOf(commit[c].in) \in Rows /\ RowOf(commit[c].in).digest = commit[c].in.digest
  BY <1>2 DEF RowOf, Rows
<1>5. QED
  BY <1>1, <1>2, <1>3, <1>4 DEF StorageInv, Placed

\* The pairs' names are names, and only a kill is counted as one.
LEMMA Reserving ==
  ASSUME StorageInv, [Next]_vars
  PROVE  reserved' \in [Devices \X Pairs -> Basenames \union {NoBasename}] /\ kills' \in 0..MaxKills
<1>1. reserved \in [Devices \X Pairs -> Basenames \union {NoBasename}] /\ kills \in 0..MaxKills
  BY DEF StorageInv, TypeOK
<1>2. CASE \E c \in Commits : Record(c)
  <2>1. PICK c \in Commits : Record(c)
    BY <1>2
  <2>2. commit[c].pc = "record" /\ kills' = kills
    BY <2>1 DEF Record
  <2>3. commit[c].path \in Paths
    BY <2>2, Facts DEF Holding
  <2>4. Basename(commit[c].path) \in Basenames
    BY <2>3 DEF Basename, Basenames, Paths
  <2>5. QED
    BY <1>1, <2>1, <2>2, <2>4 DEF Record
<1>3. CASE UNCHANGED <<reserved, kills>>
  BY <1>1, <1>3
<1>4. CASE Kill
  BY <1>1, <1>4, StorageAssumption DEF Kill
<1>5. QED
  BY <1>2, <1>3, <1>4 DEF Next, Begin, Refused, Lookup, Discard, PairLookup, Probe, Claim, RecordFails,
     Unclaim, Rename, RenameFails, Forget, Remove, Abandon, Touch

\* A kill ends the calls that are under way and changes nothing else.
LEMMA Killing ==
  ASSUME StorageInv, Kill
  PROVE  /\ commit' \in [Commits -> Calls]
         /\ \A c \in Commits :
              \/ commit[c].pc \notin Open /\ commit'[c] = commit[c]
              \/ /\ commit[c].pc \in Open /\ commit'[c].pc = "killed"
                 /\ commit'[c].path = commit[c].path /\ commit'[c].in = commit[c].in
         /\ UNCHANGED <<files, disk, touched>>
<1>1. commit \in [Commits -> Calls]
  BY DEF StorageInv, TypeOK, Calls
<1>2. commit' = [c \in Commits |-> IF commit[c].pc \in Open
                                   THEN [commit[c] EXCEPT !.pc = "killed"] ELSE commit[c]]
  BY DEF Kill
<1>3. ASSUME NEW c \in Commits
      PROVE  /\ commit'[c] \in Calls
             /\ \/ commit[c].pc \notin Open /\ commit'[c] = commit[c]
                \/ /\ commit[c].pc \in Open /\ commit'[c].pc = "killed"
                   /\ commit'[c].path = commit[c].path /\ commit'[c].in = commit[c].in
  <2>1. CASE commit[c].pc \in Open
    <3>1. commit[c] \in Call
      BY <1>1, <2>1, Called DEF Open
    <3>2. PICK r : r = [commit[c] EXCEPT !.pc = "killed"]
      OBVIOUS
    <3>3. r \in Call /\ r.pc = "killed" /\ r.path = commit[c].path /\ r.in = commit[c].in
      BY <3>1, <3>2 DEF Call, Ended
    <3>4. commit'[c] = r
      BY <1>2, <2>1, <3>2
    <3>5. QED
      BY <2>1, <3>3, <3>4 DEF Calls
  <2>2. CASE commit[c].pc \notin Open
    BY <1>1, <1>2, <2>2
  <2>3. QED
    BY <2>1, <2>2
<1>4. QED
  BY <1>2, <1>3 DEF Kill

\* The part of the type invariant that a call can disturb.
Fitting ==
  /\ commit \in [Commits -> Calls] /\ files \in [Paths -> Rows]
  /\ disk \in [Paths -> Contents] /\ touched \subseteq Paths

\* What a path holds and what is recorded of it stay of their types.
LEMMA TypesKept ==
  ASSUME StorageInv, [Next]_vars
  PROVE  TypeOK'
<1>1. Fitting
  BY DEF StorageInv, TypeOK, Fitting, Calls, Rows, Contents
<1>2. reserved' \in [Devices \X Pairs -> Basenames \union {NoBasename}] /\ kills' \in 0..MaxKills
  BY Reserving
<1>3. Fitting'
  <2>1. ASSUME NEW c \in Commits, Quiet(c) PROVE Fitting'
    BY <1>1, <2>1 DEF Quiet, Becomes, Fitting
  <2>2. ASSUME NEW c \in Commits, Claimed(c) \/ Recorded(c) \/ Filled(c) \/ Forgotten(c) \/ Emptied(c) \/ Onward(c)
        PROVE  Fitting'
    <3>1. commit[c].pc \in Holding \union {"claim"} /\ touched' = touched /\ commit' \in [Commits -> Calls]
      BY <2>2 DEF Claimed, Recorded, Filled, Forgotten, Emptied, Onward, Holding, Becomes
    <3>2. RowOf(commit[c].in) \in Rows /\ NoRow \in Rows /\ commit[c].in.digest \in Contents
      BY <3>1, Facts DEF Holding, Contents, Rows
    <3>3. files' \in [Paths -> Rows]
      BY <1>1, <2>2, <3>2 DEF Fitting, Claimed, Recorded, Filled, Forgotten, Emptied, Onward
    <3>4. disk' \in [Paths -> Contents]
      BY <1>1, <2>2, <3>2 DEF Fitting, Claimed, Recorded, Filled, Forgotten, Emptied, Onward, Contents
    <3>5. QED
      BY <1>1, <3>1, <3>3, <3>4 DEF Fitting
  <2>3. CASE Kill
    BY <1>1, <2>3, Killing DEF Fitting
  <2>4. CASE \E p \in Paths : Touch(p)
    BY <1>1, <2>4 DEF Touch, Contents, Fitting
  <2>5. CASE UNCHANGED vars
    BY <1>1, <2>5 DEF Fitting
  <2>6. QED
    BY <2>1, <2>2, <2>3, <2>4, <2>5, Steps DEF Moves
<1>4. QED
  BY <1>2, <1>3 DEF TypeOK, Fitting, Calls, Rows, Contents

\* The steps of a call that holds a name, for a leaf that looks at them all.
Busy(c) == Claimed(c) \/ Recorded(c) \/ Filled(c) \/ Forgotten(c) \/ Emptied(c) \/ Onward(c)

\* A call that moves on with the name it has: where it comes from and goes to.
LEMMA Courses ==
  ASSUME StorageInv, NEW c \in Commits, Busy(c)
  PROVE  /\ commit[c].pc \in Holding \union {"claim"} /\ commit[c].pc # "new"
         /\ commit[c].path \in Paths
         /\ \A d \in Commits \ {c} : commit'[d] = commit[d]
         /\ commit'[c].in = commit[c].in
         /\ \/ commit'[c].path = commit[c].path
            \/ commit'[c].path = NoPath /\ commit'[c].pc \in {"failed", "probe"}
         /\ \A p \in Paths \ {commit[c].path} : files'[p] = files[p] /\ disk'[p] = disk[p]
         /\ touched' = touched
<1>1. commit[c].pc \in Holding \union {"claim"} /\ commit[c].pc # "new"
  BY DEF Busy, Claimed, Recorded, Filled, Forgotten, Emptied, Onward, Holding
<1>2. commit[c].path \in Paths
  BY <1>1, Facts
<1>3. \A p \in Paths \ {commit[c].path} : files'[p] = files[p] /\ disk'[p] = disk[p]
  BY DEF Busy, Claimed, Recorded, Filled, Forgotten, Emptied, Onward, StorageInv, TypeOK
<1>4. QED
  BY <1>1, <1>2, <1>3 DEF Busy, Claimed, Recorded, Filled, Forgotten, Emptied, Onward, Becomes

\* A call that needs a path has one.
LEMMA PlacedKept ==
  ASSUME StorageInv, [Next]_vars
  PROVE  Placed'
<1>1. Placed
  BY DEF StorageInv
<1>2. ASSUME NEW c \in Commits, Quiet(c) PROVE Placed'
  BY <1>1, <1>2 DEF Quiet, Becomes, Placed, Holding, Listed
<1>3. ASSUME NEW c \in Commits, Busy(c) PROVE Placed'
  <2>1. commit'[c].pc # "pair"
    BY <1>3 DEF Busy, Claimed, Recorded, Filled, Forgotten, Emptied, Onward, Becomes
  <2>2. QED
    BY <1>1, <1>3, <2>1, Courses DEF Placed, Holding, Listed
<1>4. CASE Kill
  BY <1>1, <1>4, Killing DEF Placed, Holding, Listed, Open
<1>5. CASE UNCHANGED commit
  BY <1>1, <1>5 DEF Placed
<1>6. QED
  BY <1>2, <1>3, <1>4, <1>5, Steps DEF Moves, Busy, Touch

\* O_EXCL keeps the placeholders apart, and the user leaves them alone.
LEMMA ExclusiveKept ==
  ASSUME StorageInv, [Next]_vars
  PROVE  Exclusive'
<1>1. /\ Exclusive /\ disk \in [Paths -> Contents]
      /\ \A c \in Commits : commit[c].pc \in Holding => commit[c].path \in Paths
  BY DEF StorageInv, TypeOK, Contents, Placed
<1>2. ASSUME NEW c \in Commits, Quiet(c) PROVE Exclusive'
  BY <1>1, <1>2 DEF Quiet, Becomes, Exclusive, Holding
<1>3. ASSUME NEW c \in Commits, Busy(c) PROVE Exclusive'
  <2>1. /\ commit[c].path \in Paths
        /\ \A d \in Commits \ {c} : commit'[d] = commit[d]
        /\ \A p \in Paths \ {commit[c].path} : disk'[p] = disk[p]
    BY <1>3, Courses
  <2>2. ASSUME NEW d \in Commits \ {c}, commit[d].pc \in Holding
        PROVE  commit[d].path # commit[c].path /\ disk'[commit[d].path] = "empty"
    <3>1. commit[d].path # commit[c].path
      <4>1. CASE commit[c].pc \in Holding
        BY <1>1, <2>2, <4>1 DEF Exclusive
      <4>2. CASE Claimed(c)
        BY <1>1, <2>2, <4>2 DEF Exclusive, Claimed
      <4>3. QED
        BY <1>3, <4>1, <4>2 DEF Busy, Recorded, Filled, Forgotten, Emptied, Onward, Holding
    <3>2. QED
      BY <1>1, <2>1, <2>2, <3>1 DEF Exclusive
  <2>3. commit'[c].pc \in Holding => disk'[commit'[c].path] = "empty" /\ commit'[c].path = commit[c].path
    <3>1. CASE Claimed(c)
      BY <1>1, <2>1, <3>1 DEF Claimed, Becomes
    <3>2. CASE Recorded(c) \/ Forgotten(c) \/ Onward(c)
      BY <1>1, <3>2 DEF Recorded, Forgotten, Onward, Becomes, Exclusive, Holding
    <3>3. CASE Filled(c) \/ Emptied(c)
      BY <3>3 DEF Filled, Emptied, Becomes, Holding
    <3>4. QED
      BY <1>3, <3>1, <3>2, <3>3 DEF Busy
  <2>4. ASSUME NEW d \in Commits, commit'[d].pc \in Holding PROVE disk'[commit'[d].path] = "empty"
    BY <2>1, <2>2, <2>3, <2>4
  <2>5. ASSUME NEW d \in Commits, NEW e \in Commits, d # e, commit'[d].pc \in Holding, commit'[e].pc \in Holding
        PROVE  commit'[d].path # commit'[e].path
    <3>1. CASE d # c /\ e # c
      <4>1. commit'[d] = commit[d] /\ commit'[e] = commit[e]
        BY <2>1, <3>1
      <4>2. QED
        BY <1>1, <2>5, <4>1 DEF Exclusive
    <3>2. CASE d = c
      BY <2>1, <2>2, <2>3, <2>5, <3>2
    <3>3. CASE e = c
      BY <2>1, <2>2, <2>3, <2>5, <3>3
    <3>4. QED
      BY <3>1, <3>2, <3>3
  <2>6. QED
    BY <2>4, <2>5 DEF Exclusive
<1>4. CASE Kill
  BY <1>1, <1>4, Killing DEF Exclusive, Holding
<1>5. ASSUME NEW p \in Paths, Touch(p) PROVE Exclusive'
  BY <1>1, <1>5 DEF Touch, Exclusive
<1>6. CASE UNCHANGED vars
  BY <1>1, <1>6 DEF Exclusive
<1>7. QED
  BY <1>2, <1>3, <1>4, <1>5, <1>6, Steps DEF Moves, Busy

\* The UNIQUE constraint keeps the rows apart.
LEMMA OwnedKept ==
  ASSUME StorageInv, [Next]_vars
  PROVE  Owned'
<1>1. /\ Owned /\ files \in [Paths -> Rows]
      /\ \A c \in Commits : commit[c].pc \in Listed => commit[c].path \in Paths
  BY DEF StorageInv, TypeOK, Rows, Placed
<1>2. ASSUME NEW c \in Commits, Quiet(c) PROVE Owned'
  BY <1>1, <1>2 DEF Quiet, Becomes, Owned, Listed
<1>3. ASSUME NEW c \in Commits, Busy(c) PROVE Owned'
  <2>1. /\ commit[c].path \in Paths /\ commit'[c].in = commit[c].in
        /\ \A d \in Commits \ {c} : commit'[d] = commit[d]
        /\ \A p \in Paths \ {commit[c].path} : files'[p] = files[p]
    BY <1>3, Courses
  <2>2. commit'[c].pc \in Listed =>
          files'[commit'[c].path] = RowOf(commit'[c].in) /\ commit'[c].path = commit[c].path
    <3>1. CASE Recorded(c)
      BY <1>1, <2>1, <3>1 DEF Recorded, Becomes
    <3>2. CASE Filled(c) \/ Onward(c)
      BY <1>1, <2>1, <3>2 DEF Filled, Onward, Becomes, Owned, Listed
    <3>3. CASE Claimed(c) \/ Forgotten(c) \/ Emptied(c)
      BY <3>3 DEF Claimed, Forgotten, Emptied, Becomes, Listed
    <3>4. QED
      BY <1>3, <3>1, <3>2, <3>3 DEF Busy
  <2>3. ASSUME NEW d \in Commits \ {c}, commit[d].pc \in Listed
        PROVE  /\ files'[commit[d].path] = RowOf(commit[d].in)
               /\ commit'[c].pc \in Listed => commit[d].path # commit'[c].path
    <3>1. files[commit[d].path] = RowOf(commit[d].in) /\ RowOf(commit[d].in) # NoRow
      BY <1>1, <2>3, Facts DEF Owned, Listed
    <3>2. CASE Recorded(c)
      BY <1>1, <2>1, <2>2, <2>3, <3>1, <3>2 DEF Recorded
    <3>3. CASE Filled(c) \/ Onward(c) \/ Claimed(c) \/ Emptied(c)
      <4>1. files' = files
        BY <3>3 DEF Filled, Onward, Claimed, Emptied
      <4>2. commit'[c].pc \in Listed => commit[c].pc \in Listed
        BY <3>3 DEF Filled, Onward, Claimed, Emptied, Becomes, Listed
      <4>3. QED
        BY <1>1, <2>2, <2>3, <3>1, <4>1, <4>2 DEF Owned
    <3>4. CASE Forgotten(c)
      <4>1. commit[d].path # commit[c].path /\ commit'[c].pc \notin Listed
        BY <1>1, <2>3, <3>4 DEF Owned, Forgotten, Becomes, Listed
      <4>2. QED
        BY <1>1, <2>1, <2>3, <3>1, <4>1
    <3>5. QED
      BY <1>3, <3>2, <3>3, <3>4 DEF Busy
  <2>4. ASSUME NEW d \in Commits, commit'[d].pc \in Listed PROVE files'[commit'[d].path] = RowOf(commit'[d].in)
    BY <2>1, <2>2, <2>3, <2>4
  <2>5. ASSUME NEW d \in Commits, NEW e \in Commits, d # e, commit'[d].pc \in Listed, commit'[e].pc \in Listed
        PROVE  commit'[d].path # commit'[e].path
    <3>1. CASE d # c /\ e # c
      <4>1. commit'[d] = commit[d] /\ commit'[e] = commit[e]
        BY <2>1, <3>1
      <4>2. QED
        BY <1>1, <2>5, <4>1 DEF Owned
    <3>2. CASE d = c
      BY <2>1, <2>2, <2>3, <2>5, <3>2
    <3>3. CASE e = c
      BY <2>1, <2>2, <2>3, <2>5, <3>3
    <3>4. QED
      BY <3>1, <3>2, <3>3
  <2>6. QED
    BY <2>4, <2>5 DEF Owned
<1>4. CASE Kill
  BY <1>1, <1>4, Killing DEF Owned, Listed
<1>5. CASE UNCHANGED <<commit, files>>
  BY <1>1, <1>5 DEF Owned
<1>6. QED
  BY <1>2, <1>3, <1>4, <1>5, Steps DEF Moves, Busy, Touch

\* What accounts for a row, and for an empty file, is still there after the step.
LEMMA AccountedKept ==
  ASSUME StorageInv, [Next]_vars
  PROVE  Accounted'
<1>1. /\ Accounted /\ files \in [Paths -> Rows] /\ disk \in [Paths -> Contents]
      /\ commit \in [Commits -> Calls]
  BY DEF StorageInv, TypeOK, Rows, Contents, Calls
<1>2. \A p \in Paths : files[p] # NoRow => files[p].digest \in Digests
  BY <1>1 DEF Rows
<1>3. ASSUME NEW c \in Commits, Quiet(c) PROVE Accounted'
  BY <1>1, <1>3 DEF Quiet, Becomes, Accounted, Unfinished, Holds
<1>4. ASSUME NEW c \in Commits, Busy(c) PROVE Accounted'
  <2>1. PICK q \in Paths : q = commit[c].path
    BY <1>4, Courses
  <2>2. /\ \A d \in Commits \ {c} : commit'[d] = commit[d]
        /\ commit'[c].in = commit[c].in
        /\ \A p \in Paths \ {q} : files'[p] = files[p] /\ disk'[p] = disk[p]
        /\ touched' = touched
        /\ commit[c].in.digest \in Digests /\ RowOf(commit[c].in).digest = commit[c].in.digest
    BY <1>4, <2>1, Courses, Facts
  <2>3. ASSUME NEW p \in Paths \ {q}, files'[p] # NoRow
        PROVE  disk'[p] = files'[p].digest \/ p \in touched' \/ \E d \in Commits : Unfinished(d, p)'
    <3>1. files'[p] = files[p] /\ disk'[p] = disk[p] /\ touched' = touched
      BY <2>2
    <3>2. CASE disk[p] = files[p].digest \/ p \in touched
      BY <3>1, <3>2
    <3>3. CASE \E d \in Commits : Unfinished(d, p)
      <4>1. PICK d \in Commits : Unfinished(d, p)
        BY <3>3
      <4>2. commit'[d] = commit[d]
        BY <2>1, <2>2, <4>1 DEF Unfinished
      <4>3. QED
        BY <3>1, <4>1, <4>2 DEF Unfinished
    <3>4. QED
      BY <1>1, <2>3, <3>1, <3>2, <3>3 DEF Accounted
  <2>4. ASSUME NEW p \in Paths \ {q}, disk'[p] = "empty"
        PROVE  \E d \in Commits : Holds(d, p)'
    <3>1. PICK d \in Commits : Holds(d, p)
      BY <1>1, <2>2, <2>4 DEF Accounted
    <3>2. commit'[d] = commit[d]
      BY <2>1, <2>2, <3>1 DEF Holds
    <3>3. QED
      BY <3>1, <3>2 DEF Holds
  <2>5. ASSUME files'[q] # NoRow
        PROVE  disk'[q] = files'[q].digest \/ q \in touched' \/ \E d \in Commits : Unfinished(d, q)'
    <3>1. CASE Recorded(c)
      <4>1. files'[q] = RowOf(commit[c].in) /\ commit'[c].pc = "rename" /\ commit'[c].path = q
        BY <1>1, <2>1, <3>1 DEF Recorded, Becomes
      <4>2. Unfinished(c, q)'
        BY <2>2, <4>1 DEF Unfinished
      <4>3. QED
        BY <4>2
    <3>2. CASE Filled(c)
      <4>1. disk'[q] = commit[c].in.digest /\ files'[q] = files[q]
        BY <1>1, <2>1, <3>2 DEF Filled
      <4>2. files[q] = RowOf(commit[c].in)
        BY <2>1, <3>2 DEF Filled, StorageInv, Owned, Listed
      <4>3. QED
        BY <2>2, <4>1, <4>2
    <3>3. CASE Forgotten(c)
      BY <1>1, <2>1, <2>5, <3>3 DEF Forgotten
    <3>4. CASE Claimed(c) \/ Emptied(c) \/ Onward(c)
      <4>1. files'[q] = files[q] /\ disk[q] \in {"none", "empty"}
        BY <2>1, <3>4 DEF Claimed, Emptied, Onward, StorageInv, Exclusive, Holding
      <4>2. disk[q] # files[q].digest
        BY <1>2, <2>5, <4>1, StorageAssumption
      <4>3. CASE q \in touched
        BY <2>2, <4>3
      <4>4. CASE \E d \in Commits : Unfinished(d, q)
        <5>1. PICK d \in Commits : Unfinished(d, q)
          BY <4>4
        <5>2. CASE d # c
          BY <2>2, <4>1, <5>1, <5>2 DEF Unfinished
        <5>3. CASE d = c
          <6>1. commit'[c].pc \in {"forget", "abandon", "failed"} /\ commit'[c].path = q
            BY <2>1, <3>4, <5>1, <5>3 DEF Claimed, Emptied, Onward, Becomes, Unfinished
          <6>2. QED
            BY <2>2, <4>1, <5>1, <5>3, <6>1 DEF Unfinished
        <5>4. QED
          BY <5>2, <5>3
      <4>5. QED
        BY <1>1, <2>5, <4>1, <4>2, <4>3, <4>4 DEF Accounted
    <3>5. QED
      BY <1>4, <3>1, <3>2, <3>3, <3>4 DEF Busy
  <2>6. ASSUME disk'[q] = "empty"
        PROVE  \E d \in Commits : Holds(d, q)'
    <3>1. CASE Filled(c) \/ Emptied(c)
      <4>1. disk'[q] \in {"none", commit[c].in.digest}
        BY <1>1, <2>1, <3>1 DEF Filled, Emptied
      <4>2. QED
        BY <2>2, <2>6, <4>1, StorageAssumption
    <3>2. CASE Claimed(c) \/ Recorded(c) \/ Forgotten(c) \/ Onward(c)
      BY <2>1, <3>2 DEF Claimed, Recorded, Forgotten, Onward, Becomes, Holds
    <3>3. QED
      BY <1>4, <3>1, <3>2 DEF Busy
  <2>7. QED
    BY <2>3, <2>4, <2>5, <2>6 DEF Accounted
<1>5. CASE Kill
  <2>1. ASSUME NEW p \in Paths, NEW d \in Commits
        PROVE  /\ Unfinished(d, p) => Unfinished(d, p)'
               /\ Holds(d, p) => Holds(d, p)'
    <3>1. \/ commit'[d] = commit[d]
          \/ commit'[d].pc = "killed" /\ commit'[d].path = commit[d].path /\ commit'[d].in = commit[d].in
      BY <1>5, Killing
    <3>2. QED
      BY <1>5, <3>1, Killing DEF Unfinished, Holds
  <2>2. UNCHANGED <<files, disk, touched>>
    BY <1>5, Killing
  <2>3. QED
    BY <1>1, <2>1, <2>2 DEF Accounted
<1>6. ASSUME NEW p \in Paths, Touch(p) PROVE Accounted'
  <2>1. /\ UNCHANGED <<commit, files>> /\ p \in touched' /\ touched \subseteq touched' /\ disk'[p] # "empty"
        /\ \A r \in Paths \ {p} : disk'[r] = disk[r]
    BY <1>1, <1>6 DEF Touch
  <2>2. \A d \in Commits, r \in Paths : Unfinished(d, r)' = Unfinished(d, r) /\ Holds(d, r)' = Holds(d, r)
    BY <2>1 DEF Unfinished, Holds
  <2>3. QED
    BY <1>1, <2>1, <2>2 DEF Accounted
<1>7. CASE UNCHANGED vars
  BY <1>1, <1>7 DEF Accounted, Unfinished, Holds
<1>8. QED
  BY <1>3, <1>4, <1>5, <1>6, <1>7, Steps DEF Moves, Busy

\* The receiver starts with an empty ledger and an empty directory.
LEMMA StorageInvInit ==
  Init => StorageInv
<1> SUFFICES ASSUME Init PROVE StorageInv
  OBVIOUS
<1>1. TypeOK
  BY StorageAssumption DEF Init, TypeOK, NotCalled
<1>2. \A c \in Commits : commit[c].pc = "new"
  BY DEF Init, NotCalled
<1>3. \A p \in Paths : files[p] = NoRow /\ disk[p] = "none"
  BY DEF Init
<1>4. QED
  BY <1>1, <1>2, <1>3 DEF StorageInv, Placed, Exclusive, Owned, Accounted, Holding, Listed

-----------------------------------------------------------------------------
(* Theorems.                                                               *)

\* In every reachable state every call holds a placeholder and a row of its own.
THEOREM StorageIsSound == Spec => []StorageInv
<1>1. StorageInv /\ [Next]_vars => StorageInv'
  BY TypesKept, PlacedKept, ExclusiveKept, OwnedKept, AccountedKept DEF StorageInv
<1>2. QED
  BY <1>1, StorageInvInit, PTL DEF Spec

\* A row of the ledger describes the bytes at its path, and no empty file is left behind,
\* unless a call is under way, was killed or could not undo what it did, or the user was there
\* (storage.go, Commit, place and unplace).
THEOREM LedgerIsRight == Spec => []LedgerDescribesDisk
<1>1. StorageInv => LedgerDescribesDisk
  <2>1. \A c \in Commits, p \in Paths :
          Unfinished(c, p) => Holds(c, p) /\ files[p].digest = commit[c].in.digest
    BY DEF Unfinished, Holds
  <2>2. QED
    BY <2>1 DEF StorageInv, Accounted, LedgerDescribesDisk
<1>2. QED
  BY <1>1, StorageIsSound, PTL

\* No two calls are told that their bytes are at the same path, for stored_path is UNIQUE and
\* only the call that made a row deletes it (storage.go, record and unplace).
THEOREM StoredFilesAreApart == Spec => []StoredApart
<1>1. StorageInv => StoredApart
  BY DEF StorageInv, Owned, Listed, StoredApart
<1>2. QED
  BY <1>1, StorageIsSound, PTL

\* The step of a call changes the disk at its own path, where there is nothing yet or its
\* own placeholder (storage.go, claim: O_EXCL).
THEOREM CommitClobbersNothing == Spec => NothingIsClobbered
<1>1. StorageInv /\ [Next]_vars =>
        [\A c \in Commits : commit'[c] # commit[c] =>
           \A p \in Paths : disk[p] \notin {"none", "empty"} => disk'[p] = disk[p]]_vars
  <2> SUFFICES ASSUME StorageInv, [Next]_vars, NEW c \in Commits, commit'[c] # commit[c],
                      NEW p \in Paths, disk[p] \notin {"none", "empty"}
               PROVE  disk'[p] = disk[p]
    OBVIOUS
  <2>1. ASSUME NEW d \in Commits, Moves(d) PROVE disk'[p] = disk[p]
    <3>1. CASE Quiet(d)
      BY <3>1 DEF Quiet
    <3>2. CASE Busy(d)
      <4>1. CASE p = commit[d].path
        BY <3>2, <4>1 DEF Busy, Claimed, Recorded, Filled, Forgotten, Emptied, Onward,
           StorageInv, Exclusive, Holding
      <4>2. CASE p # commit[d].path
        BY <3>2, <4>2, Courses
      <4>3. QED
        BY <4>1, <4>2
    <3>3. QED
      BY <2>1, <3>1, <3>2 DEF Moves, Busy
  <2>2. CASE Kill
    BY <2>2, Killing
  <2>3. ASSUME NEW q \in Paths, Touch(q) PROVE FALSE
    BY <2>3 DEF Touch
  <2>4. QED
    BY <2>1, <2>2, <2>3, Steps
<1>2. QED
  BY <1>1, StorageIsSound, PTL DEF Spec, NothingIsClobbered
=============================================================================
