------------------------------- MODULE Daemon -------------------------------
(***************************************************************************)
(* gedad: a receiver without a screen (cli/internal/daemon), and the       *)
(* control socket through which it is administered (cli/internal/control). *)
(* The two run as one unit.  A daemon is killed, told to stop and started  *)
(* again; a socket file a killed daemon left behind is found by dialling.  *)
(***************************************************************************)
EXTENDS Service

CONSTANTS
  Daemons,    \* daemons that may be started on the state directory
  ConfigOf,   \* the configuration file of each
  MaxKills    \* bound: times a process is killed

ASSUME DaemonAssumption ==
  Daemons \subseteq Receivers /\ ConfigOf \in [Daemons -> Config] /\ MaxKills \in Nat

VARIABLES
  sock,  \* the file at the path of the control socket: None, or who bound it
  ctl,   \* the control socket of each daemon
  kills  \* times a process was killed

daemonVars == <<sock, ctl, kills>>

DaemonTypeOK ==
  /\ sock \in Daemons \union {None, "stale"}
  /\ ctl \in [Daemons -> {"off", "stat", "dial", "remove", "listen", "up", "unlink", "ended", "failed"}]
  /\ kills \in 0..MaxKills

DaemonInit ==
  /\ sock \in {None, "stale"}
  /\ ctl = [d \in Daemons |-> "off"]
  /\ kills = 0

-----------------------------------------------------------------------------
CtlMoves(d, pc) == ctl' = [ctl EXCEPT ![d] = pc] /\ UNCHANGED <<serviceVars, kills>>

\* daemon.New; an Open that failed ends the process.
Start(d) == Open(d, ConfigOf[d]) /\ UNCHANGED daemonVars

GivesUp(d) == rcv[d].pc = "failed" /\ Release({d}) /\ UNCHANGED daemonVars

\* Daemon.Run: the receiver and the control socket in one group.
Serve(d) ==
  /\ ctl[d] = "off"
  /\ Run(d)
  /\ ctl' = [ctl EXCEPT ![d] = "stat"]
  /\ UNCHANGED <<sock, kills>>

\* control.Listen, one system call after another.
Stat(d) ==
  /\ ctl[d] = "stat"
  /\ CtlMoves(d, IF sock = None THEN "listen" ELSE "dial")
  /\ UNCHANGED sock

Answers == sock \in Daemons /\ ctl[sock] = "up"

\* Mutant of Dial: a daemon that finds the path taken dials until nobody has it.
DialAgain(d) ==
  /\ ctl[d] = "dial"
  /\ CtlMoves(d, IF sock = None THEN "listen" ELSE "dial")
  /\ UNCHANGED sock

Dial(d) ==
  /\ ctl[d] = "dial"
  /\ CtlMoves(d, IF Answers THEN "failed" ELSE "remove")
  /\ UNCHANGED sock

Remove(d) ==
  /\ ctl[d] = "remove"
  /\ CtlMoves(d, IF sock = None THEN "failed" ELSE "listen")
  /\ sock' = None

Listen(d) ==
  /\ ctl[d] = "listen"
  /\ IF sock = None THEN sock' = d /\ CtlMoves(d, "up")
       ELSE UNCHANGED sock /\ CtlMoves(d, "failed")

\* The group's context is done when either part has failed, or the process was told to stop.
Done(d) == rcv[d].pc # "closed" /\ (rcv[d].ctx \/ rcv[d].pc = "stopped")

\* Shutdown closes the listener, which unlinks the path; control.Serve then removes the
\* path once more, when the last request was answered.
Close(d) ==
  /\ ctl[d] = "up" /\ Done(d)
  /\ sock' = None
  /\ CtlMoves(d, "unlink")

Unlink(d) ==
  /\ ctl[d] = "unlink"
  /\ sock' = None
  /\ CtlMoves(d, "ended")

CtlFails(d) ==
  /\ ctl[d] = "failed" /\ rcv[d].pc # "closed" /\ ~rcv[d].ctx
  /\ Cancel(d)
  /\ UNCHANGED <<dir, lock, ports, daemonVars>>

Signal(d) ==
  /\ rcv[d].pc \in {"open"} \union Serving /\ ~rcv[d].ctx
  /\ Cancel(d)
  /\ UNCHANGED <<dir, lock, ports, daemonVars>>

\* Both parts have returned: the receiver is closed and the process ends.
Exit(d) ==
  /\ rcv[d].pc = "stopped" /\ ctl[d] \in {"ended", "failed"}
  /\ Release({d})
  /\ ctl' = [ctl EXCEPT ![d] = "off"]
  /\ UNCHANGED <<sock, kills>>

Kill(d) ==
  /\ rcv[d].pc # "closed" /\ kills < MaxKills
  /\ Release({d})
  /\ ctl' = [ctl EXCEPT ![d] = "off"]
  /\ sock' = IF sock = d THEN "stale" ELSE sock
  /\ kills' = kills + 1

DaemonProgress(d) ==
  \/ Progress(d) /\ UNCHANGED daemonVars
  \/ GivesUp(d) \/ Serve(d) \/ Stat(d) \/ Dial(d) \/ Remove(d) \/ Listen(d)
  \/ Close(d) \/ Unlink(d) \/ CtlFails(d) \/ Exit(d)

DaemonNext(d) ==
  \/ DaemonProgress(d) \/ Start(d) \/ Signal(d) \/ Kill(d)
  \/ Faults(d) /\ UNCHANGED daemonVars

-----------------------------------------------------------------------------
Up(d) == rcv[d].pc = "running" /\ ctl[d] = "up"

\* A daemon that is started serves with its control socket, or it ends: half of it never
\* goes on without the other (Daemon.Run: "silently half-working is the worst outcome").
\* The one way to half-work, which happens, is told apart: Serve with a failed accept loop
\* waits for the context that its error would end.
StartsSettle == \A d \in Daemons :
  rcv[d].pc # "closed" ~> rcv[d].pc \in {"closed", "deaf"} \/ Up(d)
=============================================================================
