----------------------------- MODULE Frontends -----------------------------
(***************************************************************************)
(* The front ends of one machine on one state directory: two daemons, the  *)
(* desktop app beside a daemon, or the desktop app with phones that        *)
(* transfer files while its window is used.                                *)
(***************************************************************************)
EXTENDS Desktop, Daemon, Live

VARIABLE present  \* which of them this machine has

vars == <<serviceVars, daemonVars, desktopVars, liveVars, present>>

CONSTANT Machines  \* the machines: sets of daemons, "desktop", and transfers of phones

\* A daemon and the app are processes of their own.
ASSUME FrontendsAssumption == Daemons \intersect Handles = {}

TypeOK ==
  /\ ServiceTypeOK /\ DaemonTypeOK /\ DesktopTypeOK /\ LiveTypeOK
  /\ present \in Machines

\* Bound: while phones transfer, the settings are saved once, on a directory in order, and
\* the receiver does not fail.
Transferring == present \intersect Transfers # {}

\* Bound: beside a daemon the app starts on a new directory, its settings are left as they
\* are, and nobody is killed.
Beside == "desktop" \in present /\ present \intersect Daemons # {}

Init ==
  /\ ServiceInit /\ DaemonInit /\ DesktopInit /\ LiveInit
  /\ present \in Machines
  /\ \A t \in Transfers \ present : moved[t] = New
  /\ Transferring => dir.cert = "earlier"
  /\ Beside => dir.key = None
  /\ present \intersect Daemons = {} \/ dir.key = None => sock = None

\* The desktop's receiver answers phones while it runs; it has stopped when their requests
\* have, and the next one knows nothing of them.
Answering == \E h \in Handles : rcv[h].pc \in {"running", "stopping"}
Finishing == \E t \in Transfers : Flush(t) \/ Finish(t) \/ (t \in Uploads /\ FinishFails(t))

Desktops(step) ==
  /\ "desktop" \in present
  /\ step
  /\ (\E h \in Handles : rcv[h].pc = "stopping" /\ rcv'[h].pc = "stopped") => ~Moving
  /\ IF \E h \in Handles : rcv[h].pc = "stopped" /\ rcv'[h].pc = "closed"
       THEN Replace ELSE UNCHANGED liveVars
  /\ UNCHANGED <<daemonVars, present>>

DesktopStep ==
  \/ Desktops(DesktopNext) /\ (Transferring => made' <= 1) /\ (Beside => made' = 0)
  \/ ~Transferring /\ \E h \in Handles : Desktops(Faults(h) /\ UNCHANGED desktopVars)

\* The app is killed, and may be started again.
DesktopKill ==
  /\ "desktop" \in present /\ ~Transferring /\ ~Beside /\ app.up # "new" /\ kills < MaxKills
  /\ Release(Handles)
  /\ app' = [up |-> "new", set |-> Defaults, h |-> None, err |-> FALSE]
  /\ call' = [c \in Calls |-> Idle]
  /\ kills' = kills + 1
  /\ UNCHANGED <<stored, made, sock, ctl, liveVars, present>>

PhoneStep ==
  /\ \/ Answering /\ Finishing
     \/ (\E h \in Handles : rcv[h].pc = "running") /\ LiveNext
     \/ Apply
  /\ \A t \in Transfers \ present : moved'[t] = moved[t]
  /\ UNCHANGED <<serviceVars, daemonVars, desktopVars, present>>

Alone == UNCHANGED <<desktopVars, liveVars, present>>

DaemonStep == \E d \in Daemons \intersect present : DaemonNext(d) /\ Alone /\ (Beside => kills' = 0)

Next == DesktopStep \/ DesktopKill \/ PhoneStep \/ DaemonStep

Spec == Init /\ [][Next]_vars

\* Every process and goroutine that can go on does, and so do the requests of phones, which
\* end when their receiver does.  Nobody has to start or stop anything, and nothing fails.
Fairness ==
  /\ \A d \in Daemons : WF_vars(d \in present /\ DaemonProgress(d) /\ Alone)
  /\ WF_vars(Desktops(CallProgress))
  /\ \A h \in Handles : WF_vars(Desktops(HandleProgress(h)))
  /\ WF_vars(Answering /\ Finishing /\ PhoneStep)

FairSpec == Spec /\ Fairness
=============================================================================
