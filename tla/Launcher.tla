------------------------------- MODULE Launcher -------------------------------
(***************************************************************************)
(* The Windows launcher (launcher/LauncherForm.cs): a form that starts,    *)
(* watches and stops one adapter process.  Its handlers are async methods  *)
(* on the one UI thread: what a method does between two awaits is a step,  *)
(* and any other handler may run at an await.  A handler in progress is a  *)
(* flow.  Processes die when they like; their Exited event is raised on a  *)
(* pool thread and queued to the UI thread.                                *)
(*                                                                         *)
(* Left out: status texts and the pinned error, the saved key, files.  The *)
(* health and port probes may answer anything at any time, because any     *)
(* program may hold port 4010.                                             *)
(***************************************************************************)
EXTENDS Naturals, FiniteSets

CONSTANTS
  Flows,  \* handlers that can be in progress at once: a bound
  Procs,  \* adapter processes that can be started: a bound
  None    \* no process

ASSUME NoneIsNoProcess == None \notin Procs

VARIABLES
  ui,          \* the form's fields
  flow,        \* what each handler in progress waits for
  started,     \* processes started so far
  live,        \* those that run
  killed,      \* those Kill was called on with success
  disposed,    \* Process objects that were disposed
  raised,      \* those whose Exited event was raised
  queue,       \* HandleAdapterExited calls waiting for the UI thread
  overlapped,  \* a start was in flight together with another start or an exit
  killFailed   \* some Kill threw

vars == <<ui, flow, started, live, killed, disposed, raised, queue, overlapped, killFailed>>
procs == <<started, live, raised>>

Idle == [kind |-> "none", at |-> "idle", proc |-> None]
Kinds == {"start", "stop", "restart", "check", "timer", "exit", "clean"}
Places == {"health", "port", "init", "wait", "refresh", "checking", "cleaning", "exited"}

TypeOK ==
  /\ ui \in [adapter : (started \ disposed) \cup {None},
             stopping : (started \ disposed) \cup {None},
             busy : BOOLEAN, stopEnabled : BOOLEAN,
             exitRequested : BOOLEAN, timer : BOOLEAN, open : BOOLEAN]
  /\ flow \in [Flows -> {Idle} \cup [kind : Kinds, at : Places, proc : Procs \cup {None}]]
  /\ started \subseteq Procs
  /\ live \subseteq started /\ killed \subseteq started /\ disposed \subseteq started
  /\ raised \subseteq started \ live
  /\ queue \subseteq raised
  /\ overlapped \in BOOLEAN /\ killFailed \in BOOLEAN

(* A start whose process is not launched yet.                              *)
Starting(f) == flow[f].at \in {"health", "port", "init"}

Init ==
  /\ ui = [adapter |-> None, stopping |-> None, busy |-> FALSE, stopEnabled |-> FALSE,
           exitRequested |-> FALSE, timer |-> TRUE, open |-> TRUE]
  /\ flow = [f \in Flows |-> Idle]
  /\ started = {} /\ live = {} /\ killed = {} /\ disposed = {} /\ raised = {}
  /\ queue = {}
  /\ overlapped = FALSE /\ killFailed = FALSE

-------------------------------------------------------------------------------
(* What the methods do to the fields.                                      *)

SetBusy(u, b) == [u EXCEPT !.busy = b, !.stopEnabled = ~b /\ u.adapter \in live]

(* Mutant: the released process stays in _adapter.                         *)
ReleaseAdapterKeepsField(u, p) ==
  [u EXCEPT !.stopping = IF @ = p THEN None ELSE @, !.stopEnabled = FALSE]

ReleaseAdapter(u, p) ==
  [u EXCEPT !.adapter = IF @ = p THEN None ELSE @,
            !.stopping = IF @ = p THEN None ELSE @,
            !.stopEnabled = FALSE]

Disposing(p) == disposed' = disposed \cup ({p} \ {None})

Goto(f, kind, at, p) == flow' = [flow EXCEPT ![f] = [kind |-> kind, at |-> at, proc |-> p]]
End(f) == flow' = [flow EXCEPT ![f] = Idle]

(* The form closes: Dispose releases the adapter, the message loop ends    *)
(* and no continuation runs any more.                                      *)
Close(u) ==
  /\ ui' = [ReleaseAdapter(u, u.adapter) EXCEPT !.open = FALSE]
  /\ flow' = [f \in Flows |-> Idle]
  /\ queue' = {}

(* StartAsync up to its first await.  The runtime may turn out invalid.    *)
StartPrefix(f, u) ==
  \/ /\ ~u.busy /\ u.adapter \notin live
     /\ Goto(f, "start", "health", None)
     /\ overlapped' = (overlapped \/ u.exitRequested \/ \E g \in Flows \ {f} : Starting(g))
  \/ /\ End(f)
     /\ UNCHANGED overlapped

(* What the caller of StopAsync does with its answer, fields being u and   *)
(* p just released.                                                        *)
AfterStop(f, u, p) ==
  \/ /\ flow[f].kind = "stop"
     /\ ui' = u /\ End(f) /\ Disposing(p) /\ UNCHANGED <<queue, overlapped>>
  \/ /\ flow[f].kind = "restart"
     /\ ui' = u /\ StartPrefix(f, u) /\ Disposing(p) /\ UNCHANGED queue
  \/ /\ flow[f].kind = "exit"
     /\ Close(u) /\ disposed' = disposed \cup ({p, u.adapter} \ {None}) /\ UNCHANGED overlapped

-------------------------------------------------------------------------------
(* Clicks, menu items and the timer: a handler begins.                     *)

ClickStart(f) ==
  /\ ui.open /\ flow[f] = Idle
  /\ ~ui.busy
  /\ StartPrefix(f, ui)
  /\ UNCHANGED <<ui, procs, killed, disposed, queue, killFailed>>

(* StopAsync up to its first await, for the stop and restart buttons and   *)
(* the exit item, with the fields u.                                       *)
StopNothing(f, kind, u) ==
  /\ u.adapter = None
  /\ ui' = [u EXCEPT !.stopEnabled = FALSE]
  /\ Goto(f, kind, "refresh", None)
  /\ UNCHANGED <<killed, disposed, killFailed>>

StopExited(f, kind, u) ==
  /\ u.adapter # None /\ u.adapter \notin live
  /\ ui' = ReleaseAdapter(u, u.adapter)
  /\ Disposing(u.adapter)
  /\ Goto(f, kind, "refresh", None)
  /\ UNCHANGED <<killed, killFailed>>

StopKills(f, kind, u) ==
  /\ u.adapter \in live
  /\ ui' = [SetBusy(u, TRUE) EXCEPT !.stopping = u.adapter]
  /\ killed' = killed \cup {u.adapter}
  /\ Goto(f, kind, "exited", u.adapter)
  /\ UNCHANGED <<disposed, killFailed>>

(* Mutant: the process is released although it still runs.                 *)
StopFailsReleases(f, u) ==
  /\ u.adapter \in live
  /\ ui' = SetBusy(ReleaseAdapter(ui, u.adapter), FALSE)
  /\ Disposing(u.adapter)
  /\ killFailed' = TRUE
  /\ UNCHANGED <<flow, killed>>

(* Mutant: the exception leaves the method past SetBusy(false).            *)
StopFailsBusy(f, u) ==
  /\ u.adapter \in live
  /\ ui' = [SetBusy(u, TRUE) EXCEPT !.exitRequested = ui.exitRequested, !.timer = ui.timer]
  /\ killFailed' = TRUE
  /\ UNCHANGED <<flow, killed, disposed>>

(* Kill throws: StopAsync answers false, and an exit is called off.        *)
StopFails(f, u) ==
  /\ u.adapter \in live
  /\ ui' = [SetBusy([u EXCEPT !.stopping = None], FALSE)
              EXCEPT !.exitRequested = ui.exitRequested, !.timer = ui.timer]
  /\ killFailed' = TRUE
  /\ UNCHANGED <<flow, killed, disposed>>

StopAsync(f, kind, u) ==
  /\ \/ StopNothing(f, kind, u) \/ StopExited(f, kind, u)
     \/ StopKills(f, kind, u) \/ StopFails(f, u)
  /\ UNCHANGED <<procs, queue>>

ClickStop(f) ==
  /\ ui.open /\ flow[f] = Idle
  /\ ui.stopEnabled
  /\ \E kind \in {"stop", "restart"} : StopAsync(f, kind, ui)
  /\ UNCHANGED overlapped

ExitLauncher(f) ==
  /\ ui.open /\ flow[f] = Idle
  /\ ~ui.exitRequested
  /\ StopAsync(f, "exit", [ui EXCEPT !.exitRequested = TRUE, !.timer = FALSE])
  /\ overlapped' = (overlapped \/ \E g \in Flows : Starting(g))

(* The tray's item checks even while busy.                                 *)
Check(f) ==
  /\ ui.open /\ flow[f] = Idle
  /\ ui' = SetBusy(ui, TRUE)
  /\ Goto(f, "check", "refresh", None)
  /\ UNCHANGED <<procs, killed, disposed, queue, overlapped, killFailed>>

CleanStaleRegistry(f) ==
  /\ ui.open /\ flow[f] = Idle
  /\ ~ui.busy
  /\ ui' = SetBusy(ui, TRUE)
  /\ Goto(f, "clean", "cleaning", None)
  /\ UNCHANGED <<procs, killed, disposed, queue, overlapped, killFailed>>

Tick(f) ==
  /\ ui.open /\ flow[f] = Idle
  /\ ui.timer
  /\ Goto(f, "timer", "refresh", None)
  /\ UNCHANGED <<ui, procs, killed, disposed, queue, overlapped, killFailed>>

(* The window's close box hides it, unless an exit has been asked for.     *)
CloseBox ==
  /\ ui.open
  /\ ui.exitRequested
  /\ Close(ui)
  /\ Disposing(ui.adapter)
  /\ UNCHANGED <<procs, killed, overlapped, killFailed>>

-------------------------------------------------------------------------------
(* Continuations: what a handler does when its await is over.              *)

HealthAnswered(f) ==
  /\ flow[f].at = "health"
  /\ End(f) \/ Goto(f, "start", "port", None)
  /\ UNCHANGED <<ui, procs, killed, disposed, queue, overlapped, killFailed>>

(* A free port, and a key: the start becomes busy only here.               *)
PortAnswered(f) ==
  /\ flow[f].at = "port"
  /\ \/ /\ End(f)
        /\ UNCHANGED ui
     \/ /\ Goto(f, "start", "init", None)
        /\ ui' = SetBusy(ui, TRUE)
  /\ UNCHANGED <<procs, killed, disposed, queue, overlapped, killFailed>>

GlobalInitDone(f, p) ==
  /\ flow[f].at = "init"
  /\ started' = started \cup {p} /\ live' = live \cup {p}
  /\ ui' = [ui EXCEPT !.adapter = p, !.stopEnabled = TRUE]
  /\ Goto(f, "start", "wait", None)
  /\ UNCHANGED <<raised, killed, disposed, queue, overlapped, killFailed>>

(* The last await of a handler that was busy is over, or it failed.        *)
NotBusy(f) ==
  /\ flow[f].at \in {"init", "wait", "checking", "cleaning"}
  /\ ui' = SetBusy(ui, FALSE)
  /\ End(f)
  /\ UNCHANGED <<procs, killed, disposed, queue, overlapped, killFailed>>

(* RefreshStatusAsync looks at the adapter after its probe.                *)
Refreshed(healthy) ==
  [ui EXCEPT !.stopEnabled = @ /\ (healthy \/ ui.adapter \in live)]

RefreshAnswered(f) ==
  /\ flow[f].at = "refresh"
  /\ \E healthy \in BOOLEAN :
       \/ /\ flow[f].kind = "timer"
          /\ ui' = Refreshed(healthy) /\ End(f) /\ UNCHANGED <<queue, disposed, overlapped>>
       \/ /\ flow[f].kind = "check"
          /\ ui' = Refreshed(healthy) /\ Goto(f, "check", "checking", None)
          /\ UNCHANGED <<queue, disposed, overlapped>>
       \/ AfterStop(f, Refreshed(healthy), None)
  /\ UNCHANGED <<procs, killed, killFailed>>

(* Mutant: the buttons are set before the old process is released.         *)
ExitAwaitedReleasesLast(f) ==
  LET p == flow[f].proc IN
  /\ flow[f].at = "exited"
  /\ p \in raised
  /\ AfterStop(f, ReleaseAdapter(SetBusy(ui, FALSE), p), p)
  /\ UNCHANGED <<procs, killed, killFailed>>

(* WaitForExitAsync returns when the Exited event is raised.               *)
ExitAwaited(f) ==
  LET p == flow[f].proc IN
  /\ flow[f].at = "exited"
  /\ p \in raised
  /\ AfterStop(f, SetBusy(ReleaseAdapter(ui, p), FALSE), p)
  /\ UNCHANGED <<procs, killed, killFailed>>

-------------------------------------------------------------------------------
(* The process and its Exited event.                                       *)

Die(p) ==
  /\ p \in live
  /\ live' = live \ {p}
  /\ UNCHANGED <<ui, flow, started, killed, disposed, raised, queue, overlapped, killFailed>>

(* A disposed Process is no longer watched.                                *)
RaiseExited(p) ==
  /\ ui.open
  /\ p \in started \ (live \cup disposed \cup raised)
  /\ raised' = raised \cup {p}
  /\ queue' = queue \cup {p}
  /\ UNCHANGED <<ui, flow, started, live, killed, disposed, overlapped, killFailed>>

(* Mutant: the callback does not look at _stoppingAdapter.                 *)
HandleAdapterExitedAlways(p) ==
  /\ p \in queue
  /\ queue' = queue \ {p}
  /\ ui' = IF ui.adapter = p THEN ReleaseAdapter(ui, p) ELSE ui
  /\ disposed' = disposed \cup ({p} \cap {ui.adapter})
  /\ UNCHANGED <<flow, procs, killed, overlapped, killFailed>>

HandleAdapterExited(p) ==
  /\ p \in queue
  /\ queue' = queue \ {p}
  /\ \/ /\ ui.adapter = p /\ ui.stopping # p
        /\ ui' = ReleaseAdapter(ui, p)
        /\ Disposing(p)
     \/ /\ ui.adapter # p \/ ui.stopping = p
        /\ UNCHANGED <<ui, disposed>>
  /\ UNCHANGED <<flow, procs, killed, overlapped, killFailed>>

(* The launcher is gone.                                                   *)
Gone == ~ui.open /\ UNCHANGED vars

Clicked(f) ==
  \/ ClickStart(f) \/ ClickStop(f) \/ ExitLauncher(f)
  \/ Check(f) \/ CleanStaleRegistry(f) \/ Tick(f)

Continued(f) ==
  \/ HealthAnswered(f) \/ PortAnswered(f)
  \/ \E p \in Procs \ started : GlobalInitDone(f, p)
  \/ NotBusy(f) \/ RefreshAnswered(f) \/ ExitAwaited(f)

Next ==
  \/ \E f \in Flows : Clicked(f) \/ Continued(f)
  \/ CloseBox
  \/ \E p \in Procs : Die(p) \/ RaiseExited(p) \/ HandleAdapterExited(p)
  \/ Gone

Spec == Init /\ [][Next]_vars

(* Probes time out, one-shot commands and killed processes end, and the    *)
(* UI thread runs what is posted to it; and the user answers the question  *)
(* that clean-registry asks in a modal box (LauncherForm.cs:649), which is *)
(* part of the wait at "cleaning".  Nothing forces a click, a crash of the *)
(* adapter or the end of one that was not killed.                          *)
FairSpec ==
  /\ Spec
  /\ \A f \in Flows : WF_vars(Continued(f))
  /\ \A p \in Procs : /\ WF_vars(p \in killed /\ Die(p))
                      /\ WF_vars(RaiseExited(p))
                      /\ WF_vars(HandleAdapterExited(p))

-------------------------------------------------------------------------------
(* Properties.                                                             *)

(* A process that runs and was not told to end is the one in _adapter, so  *)
(* the launcher can still stop it, also when the window is gone; unless a  *)
(* start was in flight together with another start or with an exit, which  *)
(* StartAsync and ExitLauncherAsync do not exclude.                        *)
ChildrenAreManaged == overlapped \/ live \ killed \subseteq {ui.adapter}

(* When no handler is busy and the adapter runs, the stop button can be    *)
(* pressed: neither a status refresh nor the release of an older process,  *)
(* both of which disable it, is the last to write it.                      *)
StopIsOffered == ui.open /\ ~ui.busy /\ ui.adapter \in live => ui.stopEnabled

(* HandleAdapterExited never disposes a process StopAsync waits for: its   *)
(* await would never end.  _stoppingAdapter sees to that, as long as       *)
(* it is not cleared by a second StopAsync whose Kill failed.              *)
CallbackSparesAwaited ==
  [][\A p \in queue \ queue' :
       ui'.open /\ p \in disposed' \ disposed =>
         killFailed \/ \A f \in Flows : flow[f].at = "exited" => flow[f].proc # p]_vars

(* A launcher that is busy becomes free again or closes: no interleaving   *)
(* of handlers leaves it with every button disabled, as long as the        *)
(* question of clean-registry is answered.                                 *)
BusyEnds == ui.open /\ ui.busy ~> ~(ui.open /\ ui.busy)

(* launcher/README.md:10: "Choosing [exit] from the tray first stops the   *)
(* adapter process started by that launcher, then exits".  Violated: a     *)
(* start that is still on its way launches the adapter after ExitLauncher  *)
(* found nothing to stop.                                                  *)
ExitStopsAdapter == ~ui.open => live \subseteq killed
===============================================================================
