------------------------------ MODULE Service ------------------------------
(***************************************************************************)
(* The receiver every front end assembles (core/service), opened on a      *)
(* state directory that holds the ledger (core/store) and the TLS identity *)
(* (core/identity).  Several processes may open one directory at a time.   *)
(* Every SQL statement, transaction and system call on a file somebody     *)
(* else may touch is a step, and a process may be killed between any two.  *)
(*                                                                         *)
(* Left out: the output policy, which is written on the terms of the       *)
(* template, and what the running parts do, which other modules model.     *)
(***************************************************************************)
EXTENDS Naturals, Sequences

CONSTANTS
  Receivers,   \* receivers that may be opened; each may be opened again once it is closed
  Ports,       \* transfer ports
  Names,       \* naming templates
  Migrations,  \* number of migrations embedded in the binary
  None         \* nothing

ASSUME ServiceAssumption == Migrations \in Nat /\ {None, "earlier"} \intersect (Receivers \union Names) = {}

VARIABLES
  dir,    \* the state directory
  lock,   \* who holds the write lock of the ledger
  ports,  \* who listens on each port
  rcv     \* the receivers

serviceVars == <<dir, lock, ports, rcv>>

\* service.Config: a front end whose settings live in the ledger may give no template.
Config == [port: Ports, name: Names \union {None}]

Opening == {"begin", "migrate", "id", "mint", "template", "key", "create", "cert", "issue",
            "sign", "bind"}
Serving == {"running", "deaf", "stopping"}

\* What is minted, generated or issued carries the receiver that did it.  ctx: Run's context
\* is done; err: Run returned an error.
Makers == Receivers \union {"earlier"}
Closed == [pc |-> "closed", id |-> None, key |-> None]
Receiver == [pc: Opening \union Serving \union {"failed", "open", "stopped"},
             set: Config, id: Makers \union {None}, key: Makers \union {None},
             next: 1..Migrations + 1, ctx: BOOLEAN, err: BOOLEAN]

ServiceTypeOK ==
  /\ dir \in [schema: Seq(1..Migrations), id: Makers \union {None}, name: Names \union {None},
              key: Makers \union {None}, cert: Makers \union {None, "torn", "old"}]
  /\ lock \in Receivers \union {None}
  /\ ports \in [Ports -> Receivers \union {None}]
  /\ rcv \in [Receivers -> Receiver \union {Closed}]

\* The directory is new, or an earlier run has left it, perhaps with a certificate that is
\* about to expire.
ServiceInit ==
  /\ dir \in {[schema |-> <<>>, id |-> None, name |-> None, key |-> None, cert |-> None]} \union
            [schema: {[i \in 1..Migrations |-> i]}, id: {"earlier"}, name: {None},
             key: {"earlier"}, cert: {"earlier", "old"}]
  /\ lock = None
  /\ ports = [p \in Ports |-> None]
  /\ rcv = [s \in Receivers |-> Closed]

-----------------------------------------------------------------------------
Moves(s, pc) == rcv' = [rcv EXCEPT ![s].pc = pc]

\* service.Open as far as store.Open's first transaction.  Where a setting is empty, resolve
\* has put the default.
Open(s, set) ==
  /\ rcv[s] = Closed
  /\ rcv' = [rcv EXCEPT ![s] = [pc |-> "begin", set |-> set, id |-> None, key |-> None,
                                next |-> 1, ctx |-> FALSE, err |-> FALSE]]
  /\ UNCHANGED <<dir, lock, ports>>

\* applyMigration: BEGIN IMMEDIATE waits for the write lock; a migration some other process
\* has applied is rolled back.
Begin(s) ==
  /\ rcv[s].pc = "begin"
  /\ IF rcv[s].next > Migrations
       THEN Moves(s, "id") /\ UNCHANGED lock
       ELSE lock = None /\ lock' = s /\ Moves(s, "migrate")
  /\ UNCHANGED <<dir, ports>>

\* The wait ends after busy_timeout.
TimesOut(s) ==
  /\ rcv[s].pc = "begin" /\ lock # None
  /\ Moves(s, "failed")
  /\ UNCHANGED <<dir, lock, ports>>

Applied(m) == \E i \in DOMAIN dir.schema : dir.schema[i] = m

Migrate(s) ==
  /\ rcv[s].pc = "migrate"
  /\ dir' = IF Applied(rcv[s].next) THEN dir
              ELSE [dir EXCEPT !.schema = Append(@, rcv[s].next)]
  /\ lock' = None
  /\ rcv' = [rcv EXCEPT ![s].pc = "begin", ![s].next = @ + 1]
  /\ UNCHANGED ports

\* deviceID: the identifier is read, and minted when there is none; the two statements are
\* not one transaction.
ReadId(s) ==
  /\ rcv[s].pc = "id"
  /\ rcv' = [rcv EXCEPT ![s].id = dir.id,
                        ![s].pc = IF dir.id = None THEN "mint" ELSE "template"]
  /\ UNCHANGED <<dir, lock, ports>>

MintId(s) ==
  /\ rcv[s].pc = "mint"
  /\ dir' = [dir EXCEPT !.id = s]
  /\ rcv' = [rcv EXCEPT ![s].id = s, ![s].pc = "template"]
  /\ UNCHANGED <<lock, ports>>

ApplyTemplate(s) ==
  /\ rcv[s].pc = "template"
  /\ dir' = IF rcv[s].set.name = None THEN dir ELSE [dir EXCEPT !.name = rcv[s].set.name]
  /\ Moves(s, "key")
  /\ UNCHANGED <<lock, ports>>

\* loadOrCreateKey.  The key is linked into place: the link fails if the name is taken, and
\* the winner's key is then loaded.
LoadKey(s) ==
  /\ rcv[s].pc = "key"
  /\ rcv' = [rcv EXCEPT ![s].key = dir.key,
                        ![s].pc = IF dir.key = None THEN "create" ELSE "cert"]
  /\ UNCHANGED <<dir, lock, ports>>

\* Mutant of CreateKey: the key is renamed into place over another's.
CreateKeyOver(s) ==
  /\ rcv[s].pc = "create"
  /\ dir' = [dir EXCEPT !.key = s]
  /\ rcv' = [rcv EXCEPT ![s].key = s, ![s].pc = "cert"]
  /\ UNCHANGED <<lock, ports>>

CreateKey(s) ==
  /\ rcv[s].pc = "create"
  /\ IF dir.key = None
       THEN /\ dir' = [dir EXCEPT !.key = s]
            /\ rcv' = [rcv EXCEPT ![s].key = s, ![s].pc = "cert"]
       ELSE UNCHANGED dir /\ Moves(s, "key")
  /\ UNCHANGED <<lock, ports>>

\* loadCert and issue: any certificate but a current one of this key is written anew, in place.
LoadCert(s) ==
  /\ rcv[s].pc = "cert"
  /\ Moves(s, IF dir.cert = rcv[s].key THEN "bind" ELSE "issue")
  /\ UNCHANGED <<dir, lock, ports>>

Issue(s) ==
  /\ rcv[s].pc = "issue"
  /\ dir' = [dir EXCEPT !.cert = "torn"]
  /\ Moves(s, "sign")
  /\ UNCHANGED <<lock, ports>>

Sign(s) ==
  /\ rcv[s].pc = "sign"
  /\ dir' = [dir EXCEPT !.cert = rcv[s].key]
  /\ Moves(s, "bind")
  /\ UNCHANGED <<lock, ports>>

Bind(s) ==
  LET p == rcv[s].set.port IN
  /\ rcv[s].pc = "bind"
  /\ IF ports[p] = None THEN ports' = [ports EXCEPT ![p] = s] /\ Moves(s, "open")
       ELSE UNCHANGED ports /\ Moves(s, "failed")
  /\ UNCHANGED <<dir, lock>>

\* Any other step of Open may fail as well: the ledger is closed, its lock let go.
OpenFails(s) ==
  /\ rcv[s].pc \in Opening
  /\ Moves(s, "failed")
  /\ lock' = IF lock = s THEN None ELSE lock
  /\ UNCHANGED <<dir, ports>>

-----------------------------------------------------------------------------
\* Service.Run: every part is started; a responder that cannot be built is an error before
\* anything is.
Run(s) ==
  /\ rcv[s].pc = "open"
  /\ \/ Moves(s, "running")
     \/ rcv' = [rcv EXCEPT ![s].pc = "stopped", ![s].err = TRUE]
  /\ UNCHANGED <<dir, lock, ports>>

\* A responder fails: the group's context is done.  (mDNS alone may fail without that.)
PartFails(s) ==
  /\ rcv[s].pc \in {"running", "deaf"} /\ ~rcv[s].err
  /\ rcv' = [rcv EXCEPT ![s].ctx = TRUE, ![s].err = TRUE]
  /\ UNCHANGED <<dir, lock, ports>>

\* The accept loop of the receiver fails.  Serve then waits for the context before it
\* returns the error that would end the context.
AcceptFails(s) ==
  /\ rcv[s].pc = "running"
  /\ Moves(s, "deaf")
  /\ UNCHANGED <<dir, lock, ports>>

\* The caller's context is done; Run may not have started yet.
Cancel(s) == rcv' = [rcv EXCEPT ![s].ctx = TRUE]

\* Shutdown closes the listener at once, and waits up to ten seconds for the requests.
Stop(s) ==
  /\ rcv[s].pc \in {"running", "deaf"} /\ rcv[s].ctx
  /\ ports' = [ports EXCEPT ![rcv[s].set.port] = None]
  /\ Moves(s, "stopping")
  /\ UNCHANGED <<dir, lock>>

Drained(s) == rcv[s].pc = "stopping" /\ Moves(s, "stopped") /\ UNCHANGED <<dir, lock, ports>>

\* Service.Close, or the end of a process: what was held is let go.
Release(S) ==
  /\ ports' = [p \in Ports |-> IF ports[p] \in S THEN None ELSE ports[p]]
  /\ lock' = IF lock \in S THEN None ELSE lock
  /\ rcv' = [s \in Receivers |-> IF s \in S THEN Closed ELSE rcv[s]]
  /\ UNCHANGED dir

\* What a receiver does by itself once it was opened or run.
Progress(s) ==
  \/ Begin(s) \/ TimesOut(s) \/ Migrate(s) \/ ReadId(s) \/ MintId(s) \/ ApplyTemplate(s)
  \/ LoadKey(s) \/ CreateKey(s) \/ LoadCert(s) \/ Issue(s) \/ Sign(s) \/ Bind(s) \/ Stop(s) \/ Drained(s)

Faults(s) == OpenFails(s) \/ PartFails(s) \/ AcceptFails(s)

-----------------------------------------------------------------------------
\* Whoever starts on one directory at the same time, and whoever is killed while it does:
\* each migration was applied once and in its order (migrate), and every receiver presents
\* the key that is stored, which phones have pinned (createKey: "Its key is as good as ours").
DirectoryIsShared ==
  /\ \A i \in DOMAIN dir.schema : dir.schema[i] = i
  /\ \A s \in Receivers : rcv[s].key \in {None, dir.key}
=============================================================================
