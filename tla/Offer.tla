------------------------------- MODULE Offer -------------------------------
(***************************************************************************)
(* What an outbox promises about one item, with the disk, the worker and   *)
(* the goroutines of the receiver left out: docs/PROTOCOL.md section 6 as  *)
(* core/outbox implements it.                                              *)
(*                                                                         *)
(* An item is queued for one device.  It is offered only once it has a     *)
(* digest, which then never changes; it can be served while it is on       *)
(* offer; the bytes a phone keeps are the ones with that digest; and it is *)
(* retired only by an acknowledgement of the phone that holds them.        *)
(***************************************************************************)
EXTENDS Naturals

CONSTANTS Devices, Items, Digests, None

VARIABLES
  st,       \* the life of each item
  dev,      \* the device it is queued for
  digest,   \* its digest, None until it has one
  serving,  \* <<device, item>>: a request for it is under way
  held      \* <<device, item>>: the phone has received the bytes intact

offerVars == <<st, dev, digest, serving, held>>

Present == {"pending", "ready", "claimed", "delivered", "failed"}
Servable == {"ready", "claimed"}

Init ==
  /\ st = [i \in Items |-> "unused"]
  /\ dev = [i \in Items |-> None]
  /\ digest = [i \in Items |-> None]
  /\ serving = {}
  /\ held = {}

Queue(i, d) ==
  /\ st[i] = "unused"
  /\ st' = [st EXCEPT ![i] = "pending"]
  /\ dev' = [dev EXCEPT ![i] = d]
  /\ UNCHANGED <<digest, serving, held>>

Prepare(i, v) ==
  /\ st[i] = "pending"
  /\ st' = [st EXCEPT ![i] = "ready"]
  /\ digest' = [digest EXCEPT ![i] = v]
  /\ UNCHANGED <<dev, serving, held>>

\* The source cannot be read when it is hashed.
Spoil(i) ==
  /\ st[i] = "pending"
  /\ st' = [st EXCEPT ![i] = "failed"]
  /\ UNCHANGED <<dev, digest, serving, held>>

Serve(d, i) ==
  /\ st[i] \in Servable
  /\ dev[i] = d
  /\ serving' = serving \union {<<d, i>>}
  /\ UNCHANGED <<st, dev, digest, held>>

Claim(d, i) ==
  /\ <<d, i>> \in serving
  /\ st[i] = "ready"
  /\ st' = [st EXCEPT ![i] = "claimed"]
  /\ UNCHANGED <<dev, digest, serving, held>>

\* A request ends.  Another one for the same item may still be under way.
Ends(d, i) == serving' \in {serving, serving \ {<<d, i>>}}

Abort(d, i) ==
  /\ <<d, i>> \in serving
  /\ Ends(d, i)
  /\ UNCHANGED <<st, dev, digest, held>>

Collect(d, i) ==
  /\ <<d, i>> \in serving
  /\ held' = held \union {<<d, i>>}
  /\ Ends(d, i)
  /\ UNCHANGED <<st, dev, digest>>

\* A request finds the source gone or changed.  It does so for the row as it was
\* when the request read it, so that the row may have been delivered since.
Refuse(d, i) ==
  /\ <<d, i>> \in serving
  /\ st[i] \in Present \ {"pending"}
  /\ st' = [st EXCEPT ![i] = "failed"]
  /\ Ends(d, i)
  /\ UNCHANGED <<dev, digest, held>>

Acknowledge(d, i) ==
  /\ <<d, i>> \in held
  /\ st[i] \in Servable \union {"failed"}
  /\ dev[i] = d
  /\ st' = [st EXCEPT ![i] = "delivered"]
  /\ UNCHANGED <<dev, digest, serving, held>>

\* The user removes items of one device.
Drop(S) ==
  /\ S # {}
  /\ \A i \in S : st[i] \in Present
  /\ st' = [i \in Items |-> IF i \in S THEN "removed" ELSE st[i]]
  /\ dev' = [i \in Items |-> IF i \in S THEN None ELSE dev[i]]
  /\ digest' = [i \in Items |-> IF i \in S THEN None ELSE digest[i]]
  /\ UNCHANGED <<serving, held>>

Crash ==
  /\ serving' = {}
  /\ UNCHANGED <<st, dev, digest, held>>

Next ==
  \/ \E i \in Items :
       \/ \E d \in Devices :
            \/ Queue(i, d) \/ Serve(d, i) \/ Claim(d, i) \/ Abort(d, i)
            \/ Collect(d, i) \/ Refuse(d, i) \/ Acknowledge(d, i)
       \/ \E v \in Digests : Prepare(i, v)
       \/ Spoil(i)
  \/ \E S \in SUBSET Items : Drop(S)
  \/ Crash

Spec == Init /\ [][Next]_offerVars
=============================================================================
