------------------------------ MODULE Desktop ------------------------------
(***************************************************************************)
(* The desktop app (desktop/internal/app): its settings, kept in the       *)
(* ledger key by key (desktop/internal/settings), and the receiver that is *)
(* built from them and taken down and built again when they change.  The   *)
(* welcome screen and the login item are left out.                         *)
(*                                                                         *)
(* Calls come from the window.  A call holds the app's mutex only while it *)
(* reads or writes the app's fields; every such section, and every         *)
(* statement it sends to the ledger, is a step.                            *)
(***************************************************************************)
EXTENDS Service

CONSTANTS
  Handles,   \* receivers the app may open, one after another
  Calls,     \* calls of the window that may be in progress at one time
  Defaults,  \* the settings of a first run
  Choices,   \* settings the user may save
  MaxCalls   \* bound: number of calls made

\* settings.Settings, which is a service.Config as well (ServiceConfig): port stands for all
\* that only a restart applies and only the app reads.
Settings == [port: Ports, name: Names]

ASSUME DesktopAssumption ==
  Handles \subseteq Receivers /\ Choices \union {Defaults} \subseteq Settings /\ MaxCalls \in Nat

VARIABLES
  stored,  \* the app's own keys of the settings table; the template's is dir.name
  app,     \* the App
  call,    \* the calls
  made     \* number of calls made

desktopVars == <<stored, app, call, made>>

Keys == {"port", "name"}

Idle == [pc |-> "idle"]
Call == [pc: {"load", "save", "write", "apply", "stop", "wait", "start", "opening", "template", "finished"},
         for: {"start", "save", "shutdown"}, next: Settings, prev: Settings,
         todo: SUBSET Keys, h: Handles \union {None}]

DesktopTypeOK ==
  /\ stored \in Ports \union {None}
  /\ app \in [up: {"new", "up", "quit"}, set: Settings, h: Handles \union {None}, err: BOOLEAN]
  /\ call \in [Calls -> Call \union {Idle}]
  /\ made \in 0..MaxCalls

DesktopInit ==
  /\ stored = None
  /\ app = [up |-> "new", set |-> Defaults, h |-> None, err |-> FALSE]
  /\ call = [c \in Calls |-> Idle]
  /\ made = 0

-----------------------------------------------------------------------------
Goes(c, pc) == call' = [call EXCEPT ![c].pc = pc]
Returns(c)  == call' = [call EXCEPT ![c] = Idle]

FirstStep == [start |-> "load", save |-> "write", shutdown |-> "stop"]

Called(c, for, next) ==
  /\ call[c] = Idle
  /\ call' = [call EXCEPT ![c] = [pc |-> FirstStep[for], for |-> for,
                                  next |-> next, prev |-> app.set, todo |-> Keys, h |-> None]]
  /\ UNCHANGED <<serviceVars, stored>>

\* App.Start, at the start of the process.
AppStart(c) ==
  /\ app.up = "new"
  /\ app' = [app EXCEPT !.up = "up"]
  /\ Called(c, "start", Defaults)
  /\ UNCHANGED made

SaveSettings(c, next) ==
  /\ app.up = "up" /\ made < MaxCalls
  /\ \A k \in Calls : call[k] # Idle => call[k].for # "start"
  /\ Called(c, "save", next)
  /\ made' = made + 1
  /\ UNCHANGED app

Shutdown(c) ==
  /\ app.up = "up"
  /\ app' = [app EXCEPT !.up = "quit"]
  /\ Called(c, "shutdown", app.set)
  /\ UNCHANGED made

\* settings.Load: what is missing is the default.
LoadedSettings == [port |-> IF stored = None THEN Defaults.port ELSE stored,
                   name |-> IF dir.name = None THEN Defaults.name ELSE dir.name]

\* loadSettings: the ledger is opened on its own, read and closed again.  Until the welcome
\* screen is done the settings are written down.
Load(c) ==
  /\ call[c].pc = "load"
  /\ \E pc \in {"write"} \union (IF stored = None THEN {} ELSE {"apply"}) :
       call' = [call EXCEPT ![c].next = LoadedSettings, ![c].prev = LoadedSettings, ![c].pc = pc]
  /\ UNCHANGED <<serviceVars, stored, app, made>>

\* settings.Save: one statement for each key, in the order of a Go map, through the running
\* receiver's handle or one of its own.
Write(c, k) ==
  /\ call[c].pc = "write" /\ k \in call[c].todo
  /\ IF k = "name" THEN dir' = [dir EXCEPT !.name = call[c].next.name] /\ UNCHANGED stored
       ELSE stored' = call[c].next.port /\ UNCHANGED dir
  /\ call' = [call EXCEPT ![c].todo = @ \ {k},
                          ![c].pc = IF call[c].todo = {k} THEN "apply" ELSE "write"]
  /\ UNCHANGED <<lock, ports, rcv, app, made>>

\* A statement fails: the call returns the error with some keys written.  Nothing runs after
\* a failed start.
WriteFails(c) ==
  /\ call[c].pc \in {"load", "write"}
  /\ Returns(c)
  /\ app' = IF call[c].for = "start" THEN [app EXCEPT !.up = "quit"] ELSE app
  /\ UNCHANGED <<serviceVars, stored, made>>

\* Mutant of NeedsRestart: it looks at the wrong setting.
NeedsRestartByName(a, b) == a.name # b.name

\* settings.NeedsRestart.
NeedsRestart(a, b) == a.port # b.port

Applies(c) ==
  /\ call[c].pc = "apply"
  /\ app' = [app EXCEPT !.set = call[c].next]
  /\ \/ call[c].for = "start" /\ Goes(c, "start")
     \/ /\ call[c].for = "save"
        /\ Goes(c, IF NeedsRestart(call[c].prev, call[c].next) THEN "stop" ELSE "template")
  /\ UNCHANGED <<serviceVars, stored, made>>

\* setTemplate, when a receiver is running.
SetTemplate(c) ==
  /\ call[c].pc = "template"
  /\ dir' = IF app.h = None THEN dir ELSE [dir EXCEPT !.name = call[c].next.name]
  /\ Returns(c)
  /\ UNCHANGED <<lock, ports, rcv, stored, app, made>>

\* Mutant of StopReceiver: the receiver is not told to stop.
StopQuietly(c) ==
  /\ call[c].pc = "stop"
  /\ app' = [app EXCEPT !.h = None]
  /\ call' = [call EXCEPT ![c].h = app.h, ![c].pc = "wait"]
  /\ UNCHANGED <<serviceVars, stored, made>>

\* stopReceiver: the receiver is taken out of the app and told to stop, waited for, closed.
StopReceiver(c) ==
  /\ call[c].pc = "stop"
  /\ app' = [app EXCEPT !.h = None]
  /\ call' = [call EXCEPT ![c].h = app.h, ![c].pc = "wait"]
  /\ IF app.h = None THEN UNCHANGED rcv ELSE Cancel(app.h)
  /\ UNCHANGED <<dir, lock, ports, stored, made>>

\* Mutant of Waited: the next receiver does not wait for the last one to stop and be closed.
WaitedNot(c) ==
  /\ call[c].pc = "wait"
  /\ IF call[c].for = "shutdown" THEN Returns(c)
       ELSE call' = [call EXCEPT ![c].pc = "start", ![c].h = None]
  /\ UNCHANGED <<serviceVars, stored, app, made>>

Waited(c) ==
  LET h == call[c].h IN
  /\ call[c].pc = "wait"
  /\ h # None => rcv[h].pc = "stopped"
  /\ Release({h})
  /\ IF call[c].for = "shutdown" THEN Returns(c)
       ELSE call' = [call EXCEPT ![c].pc = "start", ![c].h = None]
  /\ UNCHANGED <<stored, app, made>>

\* startReceiver.
StartReceiver(c, h) ==
  /\ call[c].pc = "start"
  /\ Open(h, call[c].next)
  /\ call' = [call EXCEPT ![c].pc = "opening", ![c].h = h]
  /\ UNCHANGED <<stored, app, made>>

StartFailed(c) ==
  /\ call[c].pc = "opening" /\ rcv[call[c].h].pc = "failed"
  /\ app' = [app EXCEPT !.err = TRUE]
  /\ Release({call[c].h})
  /\ Returns(c)
  /\ UNCHANGED <<stored, made>>

\* The receiver is the app's from here on; its Run starts on a goroutine of its own.
Started(c) ==
  /\ call[c].pc = "opening" /\ rcv[call[c].h].pc = "open"
  /\ app' = [app EXCEPT !.h = call[c].h, !.err = FALSE]
  /\ Returns(c)
  /\ UNCHANGED <<serviceVars, stored, made>>

\* That goroutine: Run, and its error, unless the receiver was told to stop.
Goroutine(h) ==
  /\ \A c \in Calls : call[c].pc = "opening" => call[c].h # h
  /\ Run(h) \/ Stop(h) \/ Drained(h)
  /\ app' = [app EXCEPT !.err = @ \/ (app.h = h /\ rcv'[h].pc = "stopped" /\ rcv'[h].err)]
  /\ UNCHANGED <<stored, call, made>>

CallProgress == \E c \in Calls :
  \/ Load(c) \/ \E k \in Keys : Write(c, k)
  \/ Applies(c) \/ SetTemplate(c) \/ StopReceiver(c) \/ Waited(c)
  \/ \E h \in Handles : StartReceiver(c, h)
  \/ StartFailed(c) \/ Started(c)

HandleProgress(h) ==
  \/ Goroutine(h)
  \/ rcv[h].pc \in Opening /\ Progress(h) /\ UNCHANGED desktopVars

DesktopNext ==
  \/ CallProgress \/ \E h \in Handles : HandleProgress(h)
  \/ \E c \in Calls : \/ AppStart(c) \/ Shutdown(c) \/ WriteFails(c)
                      \/ \E next \in Choices : SaveSettings(c, next)

-----------------------------------------------------------------------------
Busy == \E c \in Calls : call[c] # Idle

\* The app never has two receivers on one ledger (stopReceiver: "the ledger must be closed
\* before the next service opens it").
OneReceiver == \A g, h \in Handles : rcv[g].pc # "closed" /\ rcv[h].pc # "closed" => g = h

\* With no call in progress, the window is right about the receiver: it serves the settings
\* that are shown, or an error is (SaveSettings: "validates, stores, and applies"; Start: "The
\* error is kept and reported through Status").
WindowIsRight == app.up = "up" /\ ~Busy =>
  \/ app.err
  \/ app.h # None /\ rcv[app.h].pc # "stopped" /\ rcv[app.h].set.port = app.set.port

\* A call of the window returns, whatever becomes of the receiver.
CallsReturn == \A c \in Calls : call[c] # Idle ~> call[c] = Idle
=============================================================================
