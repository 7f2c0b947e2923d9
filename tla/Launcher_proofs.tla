----------------------------- MODULE Launcher_proofs -----------------------------
(***************************************************************************)
(* Proofs about Launcher, for any number of handlers in progress and any   *)
(* number of adapter processes.                                            *)
(***************************************************************************)
EXTENDS Launcher, TLAPS

Fields(s) ==
  [adapter : s \cup {None}, stopping : s \cup {None},
   busy : BOOLEAN, stopEnabled : BOOLEAN,
   exitRequested : BOOLEAN, timer : BOOLEAN, open : BOOLEAN]

FlowStates == {Idle} \cup [kind : Kinds, at : Places, proc : Procs \cup {None}]

(* The type in three parts.                                                *)
UiOK == ui \in Fields(started \ disposed)
FlowOK == flow \in [Flows -> FlowStates]
ProcsOK ==
  /\ started \subseteq Procs
  /\ live \subseteq started /\ killed \subseteq started /\ disposed \subseteq started
  /\ raised \subseteq started \ live
  /\ queue \subseteq raised
  /\ overlapped \in BOOLEAN /\ killFailed \in BOOLEAN

LEMMA TypeParts == TypeOK <=> UiOK /\ FlowOK /\ ProcsOK
  BY DEF TypeOK, UiOK, FlowOK, ProcsOK, Fields, FlowStates

(* A handler changes its own flow only.                                    *)
LEMMA GotoTyped ==
  ASSUME FlowOK, NEW f \in Flows, NEW kind \in Kinds, NEW at \in Places,
         NEW p \in Procs \cup {None}, Goto(f, kind, at, p)
  PROVE  /\ FlowOK'
         /\ flow'[f] = [kind |-> kind, at |-> at, proc |-> p]
         /\ \A g \in Flows \ {f} : flow'[g] = flow[g]
  BY DEF FlowOK, Goto, FlowStates

LEMMA EndTyped ==
  ASSUME FlowOK, NEW f \in Flows, End(f)
  PROVE  /\ FlowOK'
         /\ flow'[f] = Idle
         /\ \A g \in Flows \ {f} : flow'[g] = flow[g]
  BY DEF FlowOK, End, FlowStates

(* Kinds and places of a flow in progress. *)
LEMMA FlowTyped ==
  ASSUME FlowOK, NEW f \in Flows, flow[f].at # "idle"
  PROVE  flow[f].kind \in Kinds /\ flow[f].at \in Places /\ flow[f].proc \in Procs \cup {None}
  BY DEF FlowOK, FlowStates, Idle

LEMMA KindsAndPlaces ==
  /\ {"start", "stop", "restart", "check", "timer", "exit", "clean"} \subseteq Kinds
  /\ {"health", "port", "init", "wait", "refresh", "checking", "cleaning", "exited"} \subseteq Places
  BY DEF Kinds, Places

(* What the methods do to the fields.                                      *)
Same(u, v) == v.exitRequested = u.exitRequested /\ v.timer = u.timer /\ v.open = u.open

LEMMA ReleaseFields ==
  ASSUME NEW s, NEW u \in Fields(s), NEW p
  PROVE  LET v == ReleaseAdapter(u, p) IN
         /\ v \in Fields(s \ {p}) /\ Same(u, v) /\ v.busy = u.busy /\ ~v.stopEnabled
         /\ v.adapter = IF u.adapter = p THEN None ELSE u.adapter
         /\ v.stopping = IF u.stopping = p THEN None ELSE u.stopping
  BY DEF Fields, ReleaseAdapter, Same

LEMMA BusyFields ==
  ASSUME NEW s, NEW u \in Fields(s), NEW b \in BOOLEAN
  PROVE  LET v == SetBusy(u, b) IN
         /\ v \in Fields(s) /\ Same(u, v) /\ v.busy = b
         /\ v.stopEnabled = (~b /\ u.adapter \in live)
         /\ v.adapter = u.adapter /\ v.stopping = u.stopping
  BY DEF Fields, SetBusy, Same

Wanted(u) == u.exitRequested = TRUE
Offered(u) == u.adapter \in live => u.stopEnabled

LEMMA FreeFields ==
  ASSUME NEW s, NEW u \in Fields(s), NEW v, v = SetBusy(u, FALSE)
  PROVE  /\ v \in Fields(s) /\ v.adapter = u.adapter
         /\ Offered(v) /\ (Wanted(v) <=> Wanted(u))
<1>1. SetBusy(u, FALSE) \in Fields(s)
  BY BusyFields
<1>2. QED BY <1>1 DEF Fields, SetBusy, Offered, Wanted

LEMMA UnstopFields ==
  ASSUME NEW s, NEW u \in Fields(s)
  PROVE  \E w \in Fields(s) : w = [u EXCEPT !.stopping = None] /\ w.adapter = u.adapter
<1>1. [u EXCEPT !.stopping = None] \in Fields(s) /\ [u EXCEPT !.stopping = None].adapter = u.adapter
  BY DEF Fields
<1>2. QED BY <1>1

(* An invalid runtime or a start that may not begin ends the flow.         *)
LEMMA PrefixTyped ==
  ASSUME FlowOK, overlapped \in BOOLEAN, NEW f \in Flows, NEW u \in Fields(started), StartPrefix(f, u)
  PROVE  /\ FlowOK' /\ overlapped' \in BOOLEAN
         /\ overlapped => overlapped'
         /\ \A g \in Flows \ {f} : flow'[g] = flow[g]
         /\ \/ flow'[f] = Idle
            \/ /\ u.adapter \notin live
               /\ u.exitRequested \/ (\E g \in Flows \ {f} : Starting(g)) => overlapped'
<1>1. CASE Goto(f, "start", "health", None)
  BY <1>1, GotoTyped, EndTyped, KindsAndPlaces DEF StartPrefix, Starting, Fields
<1>2. CASE End(f)
  BY <1>2, EndTyped DEF StartPrefix
<1>3. QED BY <1>1, <1>2 DEF StartPrefix

------------------------------------------------------------------------------
(* The invariant.                                                          *)

ExitWanted == ui.exitRequested

(* An exit is in progress only when it was asked for. *)
ExitAsked == \A f \in Flows : flow[f].kind = "exit" => ExitWanted

(* As long as no start overlaps another or an exit: what runs and was not  *)
(* told to end is in _adapter; nothing runs when a start is on its way or  *)
(* an exit was asked for; and not both are.                                *)
Managed ==
  /\ live \ killed \subseteq {ui.adapter}
  /\ \A f, g \in Flows : Starting(f) /\ Starting(g) => f = g
  /\ \A f \in Flows : Starting(f) => live \subseteq killed /\ ~ExitWanted
  /\ ExitWanted => live \subseteq killed

Parts == UiOK /\ FlowOK /\ ProcsOK
Inv == Parts /\ StopIsOffered /\ ExitAsked /\ (~overlapped => Managed)

(* No start begins. *)
Calm == \A g \in Flows : Starting(g)' => Starting(g)

(* Steps in which no process begins and no start is begun. *)
LEMMA ManagedStays ==
  ASSUME ~overlapped => Managed, overlapped => overlapped',
         live' \ killed' \subseteq live \ killed,
         ui'.adapter = ui.adapter \/ ui.adapter \notin live' \ killed',
         Calm,
         ExitWanted' => \/ ExitWanted \/ overlapped'
                        \/ live' \subseteq killed' /\ \A f \in Flows : ~Starting(f)
  PROVE  ~overlapped' => Managed'
  BY DEF Managed, Calm

(* StopAsync begins: nothing runs, or it has been told to end. *)
LEMMA ManagedStop ==
  ASSUME ~overlapped => Managed, overlapped => overlapped', Calm,
         NEW kind, ExitWanted' => ExitWanted \/ kind = "exit",
         kind = "exit" => overlapped' \/ \A g \in Flows : ~Starting(g),
         live' = live, killed \subseteq killed', ~overlapped => live \subseteq killed',
         ui'.adapter = ui.adapter \/ ui.adapter \notin live' \ killed'
  PROVE  ~overlapped' => Managed'
<1>1. live' \ killed' \subseteq live \ killed
  OBVIOUS
<1>2. ExitWanted' => \/ ExitWanted \/ overlapped'
                     \/ live' \subseteq killed' /\ \A f \in Flows : ~Starting(f)
  OBVIOUS
<1>3. QED BY <1>1, <1>2, ManagedStays

(* The same when f may begin a start, u being its fields. *)
LEMMA ManagedStart ==
  ASSUME ~overlapped => Managed, NEW f \in Flows,
         overlapped => overlapped',
         live' \ killed' \subseteq live \ killed,
         ui'.adapter = ui.adapter \/ ui.adapter \notin live' \ killed',
         ExitWanted' => ExitWanted,
         \A g \in Flows \ {f} : Starting(g)' => Starting(g),
         Starting(f)' => \/ overlapped'
                        \/ /\ ui'.adapter \notin live' \ killed' /\ ~ExitWanted
                           /\ \A g \in Flows \ {f} : ~Starting(g)
  PROVE  ~overlapped' => Managed'
  BY DEF Managed

LEMMA IdleFacts == Idle.kind # "exit" /\ Idle.at = "idle"
  BY DEF Idle

LEMMA NoneFacts == ProcsOK => None \notin started /\ None \notin live
  BY NoneIsNoProcess DEF ProcsOK

LEMMA StartClickKeeps ==
  ASSUME Inv, NEW f \in Flows, ClickStart(f)
  PROVE  Inv'
<1> USE IdleFacts DEF Inv, Parts
<1>1. /\ ui \in Fields(started) /\ FlowOK' /\ overlapped' \in BOOLEAN
      /\ overlapped => overlapped'
      /\ \A g \in Flows \ {f} : flow'[g] = flow[g]
      /\ \/ flow'[f] = Idle
         \/ /\ ui.adapter \notin live
            /\ ui.exitRequested \/ (\E g \in Flows \ {f} : Starting(g)) => overlapped'
  <2>1. ui \in Fields(started) /\ overlapped \in BOOLEAN
    BY DEF UiOK, Fields, ProcsOK
  <2>2. QED BY <2>1, PrefixTyped DEF ClickStart
<1>2. Parts' /\ StopIsOffered'
  BY <1>1 DEF ClickStart, procs, UiOK, ProcsOK, StopIsOffered
<1>3. flow'[f].kind # "exit"
  BY <1>1 DEF ClickStart, StartPrefix, Goto, End, FlowOK
<1>4. ExitAsked'
  BY <1>1, <1>3 DEF ExitAsked, ExitWanted, ClickStart
<1>5. ~overlapped' => Managed'
  BY <1>1, ManagedStart DEF ClickStart, procs, Starting, ExitWanted
<1>6. QED BY <1>2, <1>4, <1>5

LEMMA GotoCalm ==
  ASSUME Inv, NEW f \in Flows, NEW kind \in Kinds,
         NEW at \in {"refresh", "checking", "cleaning", "exited", "wait"},
         NEW p \in Procs \cup {None}, Goto(f, kind, at, p),
         kind = "exit" \/ ExitWanted => ExitWanted'
  PROVE  FlowOK' /\ Calm /\ ExitAsked'
<1>1. at \in Places /\ at \notin {"health", "port", "init"}
  BY KindsAndPlaces
<1>2. /\ FlowOK' /\ flow'[f] = [kind |-> kind, at |-> at, proc |-> p]
      /\ \A g \in Flows \ {f} : flow'[g] = flow[g]
  BY <1>1, GotoTyped DEF Inv, Parts
<1>3. QED BY <1>1, <1>2 DEF Calm, Starting, ExitAsked, Inv

LEMMA EndCalm ==
  ASSUME Inv, NEW f \in Flows, End(f), ExitWanted => ExitWanted'
  PROVE  FlowOK' /\ Calm /\ ExitAsked'
  BY EndTyped, IdleFacts DEF Calm, Starting, ExitAsked, Inv, Parts

LEMMA SameFlows ==
  ASSUME Inv, UNCHANGED flow, ExitWanted => ExitWanted'
  PROVE  FlowOK' /\ ExitAsked' /\ Calm
  BY DEF Inv, Parts, FlowOK, ExitAsked, Starting, Calm

LEMMA BusyClickKeeps ==
  ASSUME Inv, NEW f \in Flows, Check(f) \/ CleanStaleRegistry(f) \/ Tick(f)
  PROVE  Inv'
<1> USE DEF Inv, Parts
<1>1. /\ ui' \in Fields(started \ disposed)
      /\ ui'.busy \/ (ui'.busy = ui.busy /\ ui'.stopEnabled = ui.stopEnabled)
      /\ ui'.open = ui.open /\ ui'.adapter = ui.adapter /\ ExitWanted' = ExitWanted
      /\ UNCHANGED <<procs, killed, disposed, queue, overlapped, killFailed>>
  <2>1. ui \in Fields(started \ disposed)
    BY DEF UiOK
  <2>2. CASE Tick(f)
    BY <2>1, <2>2 DEF Tick, procs, ExitWanted
  <2>3. CASE Check(f) \/ CleanStaleRegistry(f)
    <3>1. ui' = SetBusy(ui, TRUE)
      BY <2>3 DEF Check, CleanStaleRegistry
    <3>2. QED BY <2>1, <2>3, <3>1, BusyFields DEF Check, CleanStaleRegistry, Same, ExitWanted
  <2>4. QED BY <2>2, <2>3
<1>2. FlowOK' /\ Calm /\ ExitAsked'
  BY <1>1, GotoCalm, KindsAndPlaces DEF Check, CleanStaleRegistry, Tick
<1>3. Parts' /\ StopIsOffered'
  BY <1>1, <1>2 DEF UiOK, ProcsOK, StopIsOffered, procs
<1>4. ~overlapped' => Managed'
  <2>1. live' \ killed' \subseteq live \ killed /\ (overlapped => overlapped')
    BY <1>1 DEF procs
  <2>2. ui'.adapter = ui.adapter /\ (ExitWanted' => ExitWanted)
    BY <1>1
  <2> HIDE DEF Inv
  <2>3. ~overlapped => Managed
    BY DEF Inv
  <2>4. QED BY <1>2, <2>1, <2>2, <2>3, ManagedStays
<1>5. QED BY <1>2, <1>3, <1>4

(* StopAsync is called with the form's fields, or with those of an exit.   *)
LEMMA StopKeeps ==
  ASSUME Inv, NEW f \in Flows, NEW kind \in {"stop", "restart", "exit"},
         NEW u \in Fields(started \ disposed),
         u.adapter = ui.adapter, u.stopping = ui.stopping, u.busy = ui.busy,
         u.stopEnabled = ui.stopEnabled, u.open = ui.open,
         kind = "exit" \/ ExitWanted => u.exitRequested,
         u.exitRequested => ExitWanted \/ kind = "exit",
         StopAsync(f, kind, u),
         overlapped' \in BOOLEAN, overlapped => overlapped',
         kind = "exit" /\ (\E g \in Flows : Starting(g)) => overlapped'
  PROVE  Inv'
<1> USE KindsAndPlaces, NoneFacts DEF Inv, Parts
<1>1. kind \in Kinds /\ ui \in Fields(started \ disposed) /\ None \in Procs \cup {None}
  BY DEF UiOK
<1>2. CASE StopNothing(f, kind, u)
  <2>1. /\ ui' \in Fields(started \ disposed) /\ ui'.adapter = None /\ ui.adapter = None
        /\ ExitWanted' = u.exitRequested
        /\ UNCHANGED <<procs, queue, killed, disposed, killFailed>>
    BY <1>2 DEF StopNothing, StopAsync, Fields, ExitWanted
  <2>2. FlowOK' /\ Calm /\ ExitAsked'
    BY <1>1, <1>2, <2>1, GotoCalm DEF StopNothing
  <2>3. Parts' /\ StopIsOffered'
    BY <2>1, <2>2 DEF UiOK, ProcsOK, StopIsOffered, procs
  <2>4. ~overlapped' => Managed'
    <3>1. ~overlapped => live \subseteq killed'
      BY <2>1 DEF Managed
    <3>2. live' = live /\ killed \subseteq killed'
      BY <2>1 DEF procs
    <3>3. ui'.adapter = ui.adapter \/ ui.adapter \notin live' \ killed'
      BY <2>1, <3>2
    <3>4. ExitWanted' => ExitWanted \/ kind = "exit"
      BY <2>1
    <3>5. kind = "exit" => overlapped' \/ \A g \in Flows : ~Starting(g)
      OBVIOUS
    <3> HIDE DEF Inv
    <3>6. ~overlapped => Managed
      BY DEF Inv
    <3>7. QED BY <2>2, <3>1, <3>2, <3>3, <3>4, <3>5, <3>6, ManagedStop
  <2>5. QED BY <2>2, <2>3, <2>4
<1>3. CASE StopExited(f, kind, u)
  <2>1. /\ ui.adapter \in started \ disposed /\ ui.adapter \notin live
        /\ ui' \in Fields(started \ disposed')
        /\ ExitWanted' = u.exitRequested /\ ui'.adapter = None
        /\ disposed' = disposed \cup {ui.adapter}
        /\ UNCHANGED <<procs, queue, killed, killFailed>>
    <3>1. u.adapter \in started \ disposed /\ u.adapter # None
      BY <1>3 DEF StopExited, Fields
    <3>2. ReleaseAdapter(u, u.adapter) \in Fields((started \ disposed) \ {u.adapter})
      BY ReleaseFields
    <3>3. disposed' = disposed \cup {u.adapter}
      BY <1>3, <3>1 DEF StopExited, Disposing
    <3>4. (started \ disposed) \ {u.adapter} = started \ disposed'
      BY <3>3
    <3>5. QED BY <1>3, <3>1, <3>2, <3>3, <3>4, ReleaseFields DEF StopExited, StopAsync, Same, ExitWanted
  <2>2. FlowOK' /\ Calm /\ ExitAsked'
    BY <1>1, <1>3, <2>1, GotoCalm DEF StopExited
  <2>3. Parts' /\ StopIsOffered'
    BY <2>1, <2>2 DEF UiOK, ProcsOK, StopIsOffered, procs
  <2>4. ~overlapped' => Managed'
    <3>1. ~overlapped => live \subseteq killed'
      BY <2>1 DEF Managed
    <3>2. live' = live /\ killed \subseteq killed'
      BY <2>1 DEF procs
    <3>3. ui'.adapter = ui.adapter \/ ui.adapter \notin live' \ killed'
      BY <2>1, <3>2
    <3>4. ExitWanted' => ExitWanted \/ kind = "exit"
      BY <2>1
    <3>5. kind = "exit" => overlapped' \/ \A g \in Flows : ~Starting(g)
      OBVIOUS
    <3> HIDE DEF Inv
    <3>6. ~overlapped => Managed
      BY DEF Inv
    <3>7. QED BY <2>2, <3>1, <3>2, <3>3, <3>4, <3>5, <3>6, ManagedStop
  <2>5. QED BY <2>2, <2>3, <2>4
<1>4. CASE StopKills(f, kind, u)
  <2>1. /\ ui.adapter \in live /\ ui.adapter \in started \ disposed
        /\ ui' \in Fields(started \ disposed) /\ ui'.busy
        /\ ExitWanted' = u.exitRequested /\ ui'.adapter = ui.adapter
        /\ killed' = killed \cup {ui.adapter}
        /\ UNCHANGED <<procs, queue, disposed, killFailed>>
    <3>1. u.adapter \in live /\ u.adapter \in started \ disposed
      BY <1>4 DEF StopKills, Fields
    <3>2. SetBusy(u, TRUE) \in Fields(started \ disposed)
      BY BusyFields
    <3>3. [SetBusy(u, TRUE) EXCEPT !.stopping = u.adapter] \in Fields(started \ disposed)
      BY <3>1, <3>2 DEF Fields
    <3>4. QED BY <1>4, <3>1, <3>2, <3>3, BusyFields DEF StopKills, StopAsync, Same, Fields, ExitWanted
  <2>2. FlowOK' /\ Calm /\ ExitAsked'
    BY <1>1, <1>4, <2>1, GotoCalm DEF StopKills, ProcsOK
  <2>3. Parts' /\ StopIsOffered'
    BY <2>1, <2>2 DEF UiOK, ProcsOK, StopIsOffered, procs
  <2>4. ~overlapped' => Managed'
    <3>1. ~overlapped => live \subseteq killed'
      BY <2>1 DEF Managed
    <3>2. live' = live /\ killed \subseteq killed'
      BY <2>1 DEF procs
    <3>3. ui'.adapter = ui.adapter \/ ui.adapter \notin live' \ killed'
      BY <2>1, <3>2
    <3>4. ExitWanted' => ExitWanted \/ kind = "exit"
      BY <2>1
    <3>5. kind = "exit" => overlapped' \/ \A g \in Flows : ~Starting(g)
      OBVIOUS
    <3> HIDE DEF Inv
    <3>6. ~overlapped => Managed
      BY DEF Inv
    <3>7. QED BY <2>2, <3>1, <3>2, <3>3, <3>4, <3>5, <3>6, ManagedStop
  <2>5. QED BY <2>2, <2>3, <2>4
<1>5. CASE StopFails(f, u)
  <2>1. /\ ui' \in Fields(started \ disposed)
        /\ (ui.adapter \in live => ui'.stopEnabled)
        /\ ExitWanted' = ExitWanted /\ ui'.adapter = ui.adapter
        /\ UNCHANGED <<procs, queue, killed, disposed, flow>> /\ killFailed' = TRUE
    <3>1. PICK w \in Fields(started \ disposed) :
            w = [u EXCEPT !.stopping = None] /\ w.adapter = u.adapter
      BY UnstopFields
    <3>a. PICK v : v = SetBusy(w, FALSE)
      OBVIOUS
    <3>2. v \in Fields(started \ disposed) /\ v.adapter = w.adapter /\ Offered(v)
      BY <3>a, FreeFields
    <3>3. ui' = [v EXCEPT !.exitRequested = ui.exitRequested, !.timer = ui.timer]
      BY <1>5, <3>1, <3>a DEF StopFails
    <3>4. ui.exitRequested \in BOOLEAN /\ ui.timer \in BOOLEAN
      BY <1>1 DEF Fields
    <3>5. /\ ui' \in Fields(started \ disposed) /\ ui'.adapter = v.adapter
          /\ ui'.stopEnabled = v.stopEnabled /\ ui'.exitRequested = ui.exitRequested
      BY <3>2, <3>3, <3>4 DEF Fields
    <3>6. QED BY <1>5, <3>1, <3>2, <3>5 DEF StopFails, StopAsync, ExitWanted, Offered
  <2>2. FlowOK' /\ ExitAsked' /\ Calm
    BY <2>1, SameFlows
  <2>3. Parts' /\ StopIsOffered'
    BY <2>1, <2>2 DEF UiOK, ProcsOK, StopIsOffered, procs
  <2>4. ~overlapped' => Managed'
    <3>1. live' \ killed' \subseteq live \ killed
      BY <2>1 DEF procs
    <3>2. ui'.adapter = ui.adapter /\ (ExitWanted' => ExitWanted)
      BY <2>1
    <3> HIDE DEF Inv
    <3>3. ~overlapped => Managed
      BY DEF Inv
    <3>4. QED BY <2>2, <3>1, <3>2, <3>3, ManagedStays
  <2>5. QED BY <2>2, <2>3, <2>4
<1>6. QED BY <1>2, <1>3, <1>4, <1>5 DEF StopAsync

(* The caller's own fields, or those an exit sets. *)
LEMMA ClickStopKeeps ==
  ASSUME Inv, NEW f \in Flows, ClickStop(f)
  PROVE  Inv'
<1>1. PICK kind \in {"stop", "restart"} : StopAsync(f, kind, ui)
  BY DEF ClickStop
<1>2. ui \in Fields(started \ disposed) /\ overlapped' = overlapped /\ overlapped \in BOOLEAN
  BY DEF Inv, Parts, UiOK, ProcsOK, ClickStop
<1>3. kind # "exit" /\ kind \in {"stop", "restart", "exit"} /\ (ExitWanted <=> ui.exitRequested)
  BY DEF ExitWanted
<1>4. QED BY <1>1, <1>2, <1>3, StopKeeps

LEMMA ExitKeeps ==
  ASSUME Inv, NEW f \in Flows, ExitLauncher(f)
  PROVE  Inv'
<1>1. PICK u \in Fields(started \ disposed) :
        /\ u = [ui EXCEPT !.exitRequested = TRUE, !.timer = FALSE]
        /\ u.adapter = ui.adapter /\ u.stopping = ui.stopping /\ u.busy = ui.busy
        /\ u.stopEnabled = ui.stopEnabled /\ u.open = ui.open /\ u.exitRequested
  <2>1. [ui EXCEPT !.exitRequested = TRUE, !.timer = FALSE] \in Fields(started \ disposed)
    BY DEF Inv, Parts, UiOK, Fields
  <2>2. QED BY <2>1 DEF Inv, Parts, UiOK, Fields
<1>2. StopAsync(f, "exit", u) /\ overlapped' = (overlapped \/ \E g \in Flows : Starting(g))
  BY <1>1 DEF ExitLauncher
<1>3. overlapped \in BOOLEAN
  BY DEF Inv, Parts, ProcsOK
<1>4. QED BY <1>1, <1>2, <1>3, StopKeeps

(* The form closes after an exit was asked for. *)
LEMMA CloseKeeps ==
  ASSUME Inv, ExitWanted, NEW d, NEW u \in Fields(started \ d), Close(u),
         d \subseteq started, u.exitRequested, disposed' = d \cup ({u.adapter} \ {None}),
         UNCHANGED <<procs, killed, overlapped, killFailed>>
  PROVE  Inv'
<1>1. PICK v \in Fields((started \ d) \ {u.adapter}) :
        v = ReleaseAdapter(u, u.adapter) /\ v.adapter = None /\ v.exitRequested
  BY ReleaseFields DEF Same
<1>2. (started \ d) \ {u.adapter} \subseteq started' \ disposed'
  BY DEF procs
<1>3. /\ ui' \in Fields(started' \ disposed') /\ ui'.adapter = None /\ ~ui'.open
      /\ ui'.exitRequested
  BY <1>1, <1>2 DEF Close, Fields
<1>4. u.adapter \in started \cup {None}
  BY DEF Fields
<1>5. /\ flow' = [f \in Flows |-> Idle] /\ queue' = {} /\ UNCHANGED <<live, started, raised>>
  BY DEF Close, procs
<1>6. Parts' /\ StopIsOffered' /\ ExitAsked'
  BY <1>3, <1>4, <1>5, IdleFacts
  DEF Inv, Parts, UiOK, FlowOK, FlowStates, ProcsOK, StopIsOffered, ExitAsked
<1>7. ~overlapped' => Managed'
  <2>1. \A f \in Flows : ~Starting(f)'
    BY <1>5, IdleFacts DEF Starting
  <2>2. ~overlapped => live' \subseteq killed'
    BY <1>5 DEF Inv, Managed
  <2>3. QED BY <2>1, <2>2 DEF Managed
<1>8. QED BY <1>6, <1>7 DEF Inv

LEMMA CloseBoxKeeps ==
  ASSUME Inv, CloseBox
  PROVE  Inv'
<1>1. ui \in Fields(started \ disposed) /\ disposed \subseteq started
  BY DEF Inv, Parts, UiOK, ProcsOK
<1>2. /\ ExitWanted /\ ui.exitRequested /\ Close(ui)
      /\ disposed' = disposed \cup ({ui.adapter} \ {None})
      /\ UNCHANGED <<procs, killed, overlapped, killFailed>>
  BY DEF CloseBox, ExitWanted, Disposing
<1>3. QED BY <1>1, <1>2, CloseKeeps

------------------------------------------------------------------------------
(* Continuations.                                                          *)

(* A step that touches only the fields and the flows, starts nothing and   *)
(* keeps the adapter.                                                      *)
LEMMA FieldsOnlyKeeps ==
  ASSUME Inv, FlowOK', Calm, ExitAsked', ui' \in Fields(started \ disposed),
         ui'.adapter = ui.adapter, ExitWanted' = ExitWanted,
         UNCHANGED <<procs, killed, disposed, queue, overlapped, killFailed>>,
         StopIsOffered'
  PROVE  Inv'
<1>1. Parts'
  BY DEF Inv, Parts, UiOK, ProcsOK, procs
<1>2. live' \ killed' \subseteq live \ killed /\ (overlapped => overlapped')
  BY DEF procs
<1>3. ~overlapped => Managed
  BY DEF Inv
<1>4. ~overlapped' => Managed'
  BY <1>2, <1>3, ManagedStays
<1>5. QED BY <1>1, <1>4 DEF Inv

LEMMA HealthKeeps ==
  ASSUME Inv, NEW f \in Flows, HealthAnswered(f)
  PROVE  Inv'
<1>1. /\ ui' = ui /\ UNCHANGED <<procs, killed, disposed, queue, overlapped, killFailed>>
      /\ ui \in Fields(started \ disposed) /\ Starting(f)
  BY DEF HealthAnswered, Inv, Parts, UiOK, Starting
<1>2. ExitWanted' = ExitWanted /\ StopIsOffered'
  BY <1>1 DEF ExitWanted, StopIsOffered, Inv, procs
<1>3. FlowOK' /\ Calm /\ ExitAsked'
  <2>1. CASE End(f)
    BY <1>2, <2>1, EndCalm
  <2>2. CASE Goto(f, "start", "port", None)
    <3>1. /\ FlowOK' /\ flow'[f] = [kind |-> "start", at |-> "port", proc |-> None]
          /\ \A g \in Flows \ {f} : flow'[g] = flow[g]
      BY <2>2, GotoTyped, KindsAndPlaces DEF Inv, Parts
    <3>2. QED BY <1>1, <1>2, <3>1 DEF Calm, Starting, ExitAsked, Inv
  <2>3. QED BY <2>1, <2>2 DEF HealthAnswered
<1>4. QED BY <1>1, <1>2, <1>3, FieldsOnlyKeeps

LEMMA PortKeeps ==
  ASSUME Inv, NEW f \in Flows, PortAnswered(f)
  PROVE  Inv'
<1>1. /\ UNCHANGED <<procs, killed, disposed, queue, overlapped, killFailed>>
      /\ ui \in Fields(started \ disposed) /\ Starting(f)
  BY DEF PortAnswered, Inv, Parts, UiOK, Starting
<1>2. CASE End(f) /\ ui' = ui
  <2>1. ExitWanted' = ExitWanted /\ StopIsOffered'
    BY <1>1, <1>2 DEF ExitWanted, StopIsOffered, Inv, procs
  <2>2. FlowOK' /\ Calm /\ ExitAsked'
    BY <1>2, <2>1, EndCalm
  <2>3. QED BY <1>1, <1>2, <2>1, <2>2, FieldsOnlyKeeps
<1>3. CASE Goto(f, "start", "init", None) /\ ui' = SetBusy(ui, TRUE)
  <2>1. /\ ui' \in Fields(started \ disposed) /\ ui'.busy /\ ui'.adapter = ui.adapter
        /\ ExitWanted' = ExitWanted
    BY <1>1, <1>3, BusyFields DEF Same, ExitWanted
  <2>2. /\ FlowOK' /\ flow'[f] = [kind |-> "start", at |-> "init", proc |-> None]
        /\ \A g \in Flows \ {f} : flow'[g] = flow[g]
    BY <1>3, GotoTyped, KindsAndPlaces DEF Inv, Parts
  <2>3. Calm /\ ExitAsked' /\ StopIsOffered'
    BY <1>1, <2>1, <2>2 DEF Calm, Starting, ExitAsked, StopIsOffered, Inv
  <2>4. QED BY <1>1, <2>1, <2>2, <2>3, FieldsOnlyKeeps
<1>4. QED BY <1>2, <1>3 DEF PortAnswered

(* The process that begins here is the only one nobody told to end. *)
LEMMA GlobalInitKeeps ==
  ASSUME Inv, NEW f \in Flows, NEW p \in Procs \ started, GlobalInitDone(f, p)
  PROVE  Inv'
<1>1. /\ ui' = [ui EXCEPT !.adapter = p, !.stopEnabled = TRUE]
      /\ ui \in Fields(started \ disposed) /\ Starting(f)
      /\ started' = started \cup {p} /\ live' = live \cup {p}
      /\ UNCHANGED <<raised, killed, disposed, queue, overlapped, killFailed>>
  BY DEF GlobalInitDone, Inv, Parts, UiOK, Starting
<1>2. /\ FlowOK' /\ flow'[f] = [kind |-> "start", at |-> "wait", proc |-> None]
      /\ \A g \in Flows \ {f} : flow'[g] = flow[g]
  BY GotoTyped, KindsAndPlaces DEF GlobalInitDone, Inv, Parts
<1>3. p \notin disposed /\ p \notin raised
  BY DEF Inv, Parts, ProcsOK
<1>4. /\ ui' \in Fields(started' \ disposed') /\ ui'.adapter = p /\ ui'.stopEnabled
      /\ ui'.exitRequested = ui.exitRequested
  BY <1>1, <1>3 DEF Fields
<1>5. ExitWanted' = ExitWanted
  BY <1>4 DEF ExitWanted
<1>6. Parts' /\ StopIsOffered'
  BY <1>1, <1>2, <1>3, <1>4 DEF Inv, Parts, UiOK, ProcsOK, StopIsOffered
<1>7. ExitAsked' /\ Calm /\ ~Starting(f)'
  BY <1>1, <1>2, <1>5 DEF ExitAsked, Calm, Starting, Inv
<1>8. ~overlapped' => Managed'
  <2>1. SUFFICES ASSUME ~overlapped PROVE Managed'
    BY <1>1
  <2>2. Managed
    BY <2>1 DEF Inv
  <2>3. live \subseteq killed /\ ~ExitWanted /\ \A g \in Flows : Starting(g) => g = f
    BY <1>1, <2>2 DEF Managed
  <2>4. live' \ killed' \subseteq {ui'.adapter}
    BY <1>1, <1>4, <2>3
  <2>5. \A g \in Flows : ~Starting(g)'
    BY <1>7, <2>3 DEF Calm
  <2>6. QED BY <1>5, <2>3, <2>4, <2>5 DEF Managed
<1>9. QED BY <1>6, <1>7, <1>8 DEF Inv

LEMMA NotBusyKeeps ==
  ASSUME Inv, NEW f \in Flows, NotBusy(f)
  PROVE  Inv'
<1>1. /\ UNCHANGED <<procs, killed, disposed, queue, overlapped, killFailed>>
      /\ ui \in Fields(started \ disposed) /\ End(f) /\ ui' = SetBusy(ui, FALSE)
  BY DEF NotBusy, Inv, Parts, UiOK
<1>2. /\ ui' \in Fields(started \ disposed) /\ ui'.adapter = ui.adapter
      /\ (ui.adapter \in live => ui'.stopEnabled) /\ ExitWanted' = ExitWanted
  <2>1. PICK v : v = SetBusy(ui, FALSE)
    OBVIOUS
  <2>2. /\ v \in Fields(started \ disposed) /\ v.adapter = ui.adapter
        /\ Offered(v) /\ (Wanted(v) <=> Wanted(ui))
    BY <1>1, <2>1, FreeFields
  <2>3. v.exitRequested = ui.exitRequested
    BY <1>1, <2>2 DEF Wanted, Fields
  <2>4. ui.adapter \in live => v.stopEnabled
    BY <2>2 DEF Offered
  <2>5. ui' = v
    BY <1>1, <2>1
  <2>6. ExitWanted' = ExitWanted
    BY <2>3, <2>5 DEF ExitWanted
  <2>7. QED BY <2>2, <2>4, <2>5, <2>6
<1>3. FlowOK' /\ Calm /\ ExitAsked'
  BY <1>1, <1>2, EndCalm
<1>4. StopIsOffered'
  BY <1>1, <1>2 DEF StopIsOffered, procs
<1>5. QED BY <1>1, <1>2, <1>3, <1>4, FieldsOnlyKeeps

(* The caller of StopAsync goes on with the fields u, p being released. *)
LEMMA AfterStopKeeps ==
  ASSUME Inv, NEW f \in Flows, NEW p \in started \cup {None},
         NEW d, d = disposed \cup ({p} \ {None}), NEW u \in Fields(started \ d),
         flow[f].at # "idle", p \notin live,
         u.adapter = ui.adapter \/ ui.adapter \notin live,
         u.exitRequested = ui.exitRequested,
         u.open /\ ~u.busy /\ u.adapter \in live => u.stopEnabled,
         AfterStop(f, u, p), UNCHANGED <<procs, killed, killFailed>>
  PROVE  Inv'
<1>1. d \subseteq started /\ u \in Fields(started) /\ overlapped \in BOOLEAN
  BY DEF Inv, Parts, ProcsOK, Fields
<1>2. CASE /\ flow[f].kind \in {"stop", "restart"}
           /\ ui' = u /\ Disposing(p) /\ UNCHANGED queue
           /\ \/ End(f) /\ UNCHANGED overlapped
              \/ StartPrefix(f, u)
  <2>1. /\ FlowOK' /\ overlapped' \in BOOLEAN /\ (overlapped => overlapped')
        /\ \A g \in Flows \ {f} : flow'[g] = flow[g]
        /\ \/ flow'[f] = Idle
           \/ /\ u.adapter \notin live
              /\ u.exitRequested \/ (\E g \in Flows \ {f} : Starting(g)) => overlapped'
    BY <1>1, <1>2, PrefixTyped, EndTyped DEF Inv, Parts
  <2>2. flow'[f].kind # "exit"
    <3>1. CASE End(f)
      BY <3>1, IdleFacts, EndTyped DEF Inv, Parts
    <3>2. CASE Goto(f, "start", "health", None)
      BY <3>2 DEF Goto, FlowOK, Inv, Parts
    <3>3. QED BY <1>2, <3>1, <3>2 DEF StartPrefix
  <2>3. disposed' = d
    BY <1>2 DEF Disposing
  <2>4. Parts' /\ StopIsOffered'
    BY <1>1, <1>2, <2>1, <2>3 DEF Inv, Parts, UiOK, ProcsOK, StopIsOffered, procs
  <2>5. ExitWanted' = ExitWanted /\ (u.exitRequested <=> ExitWanted)
    BY <1>2 DEF ExitWanted
  <2>6. ExitAsked'
    BY <2>1, <2>2, <2>5 DEF ExitAsked, Inv
  <2>7. ~overlapped' => Managed'
    <3>1. live' \ killed' = live \ killed /\ ui'.adapter = u.adapter
      BY <1>2 DEF procs
    <3>2. \A g \in Flows \ {f} : Starting(g)' => Starting(g)
      BY <2>1 DEF Starting
    <3>3. Starting(f)' => \/ overlapped'
                          \/ /\ ui'.adapter \notin live' \ killed' /\ ~ExitWanted
                             /\ \A g \in Flows \ {f} : ~Starting(g)
      BY <2>1, <2>5, <3>1, IdleFacts DEF Starting
    <3>4. ~overlapped => Managed
      BY DEF Inv
    <3>5. ui'.adapter = ui.adapter \/ ui.adapter \notin live' \ killed'
      BY <3>1
    <3>6. QED BY <2>1, <2>5, <3>1, <3>2, <3>3, <3>4, <3>5, ManagedStart
  <2>8. QED BY <2>4, <2>6, <2>7 DEF Inv
<1>3. CASE /\ flow[f].kind = "exit" /\ Close(u) /\ UNCHANGED overlapped
           /\ disposed' = disposed \cup ({p, u.adapter} \ {None})
  <2>1. ExitWanted /\ u.exitRequested
    BY <1>3 DEF Inv, ExitAsked, ExitWanted
  <2>2. disposed' = d \cup ({u.adapter} \ {None})
    BY <1>3
  <2>3. QED BY <1>1, <1>3, <2>1, <2>2, CloseKeeps
<1>4. QED BY <1>2, <1>3 DEF AfterStop

(* A refresh takes the stop button back only when the adapter is gone. *)
LEMMA RefreshKeeps ==
  ASSUME Inv, NEW f \in Flows, RefreshAnswered(f)
  PROVE  Inv'
<1>1. /\ UNCHANGED <<procs, killed, killFailed>> /\ flow[f].at = "refresh"
      /\ ui \in Fields(started \ disposed)
  BY DEF RefreshAnswered, Inv, Parts, UiOK
<1>2. PICK healthy \in BOOLEAN :
        \/ /\ flow[f].kind = "timer"
           /\ ui' = Refreshed(healthy) /\ End(f) /\ UNCHANGED <<queue, disposed, overlapped>>
        \/ /\ flow[f].kind = "check"
           /\ ui' = Refreshed(healthy) /\ Goto(f, "check", "checking", None)
           /\ UNCHANGED <<queue, disposed, overlapped>>
        \/ AfterStop(f, Refreshed(healthy), None)
  BY DEF RefreshAnswered
<1>3. PICK u \in Fields(started \ disposed) :
        /\ u = Refreshed(healthy)
        /\ u.adapter = ui.adapter /\ u.exitRequested = ui.exitRequested
        /\ u.open = ui.open /\ u.busy = ui.busy
        /\ ui.adapter \in live => u.stopEnabled = ui.stopEnabled
  <2>1. ui.stopEnabled \in BOOLEAN
    BY <1>1 DEF Fields
  <2>2. (ui.stopEnabled /\ (healthy \/ ui.adapter \in live)) \in BOOLEAN
    OBVIOUS
  <2>3. Refreshed(healthy) \in Fields(started \ disposed)
    BY <1>1, <2>2 DEF Refreshed, Fields
  <2>4. QED BY <1>1, <2>1, <2>3 DEF Refreshed, Fields
<1>4. u.open /\ ~u.busy /\ u.adapter \in live => u.stopEnabled
  BY <1>3 DEF Inv, StopIsOffered
<1>5. CASE /\ ui' = u /\ (End(f) \/ Goto(f, "check", "checking", None))
           /\ UNCHANGED <<queue, disposed, overlapped>>
  <2>1. ExitWanted' = ExitWanted
    BY <1>3, <1>5 DEF ExitWanted
  <2>2. FlowOK' /\ Calm /\ ExitAsked'
    BY <1>5, <2>1, EndCalm, GotoCalm, KindsAndPlaces
  <2>3. StopIsOffered'
    BY <1>1, <1>4, <1>5 DEF StopIsOffered, procs
  <2>4. QED BY <1>1, <1>3, <1>5, <2>1, <2>2, <2>3, FieldsOnlyKeeps
<1>6. CASE AfterStop(f, u, None)
  <2>1. disposed = disposed \cup ({None} \ {None}) /\ None \notin live
    BY NoneFacts DEF Inv, Parts
  <2>2. QED BY <1>1, <1>3, <1>4, <1>6, <2>1, AfterStopKeeps
<1>7. QED BY <1>2, <1>3, <1>5, <1>6

LEMMA ExitAwaitedKeeps ==
  ASSUME Inv, NEW f \in Flows, ExitAwaited(f)
  PROVE  Inv'
<1> DEFINE p == flow[f].proc
<1>1. /\ p \in raised /\ p \in started /\ p \notin live /\ p # None
      /\ ui \in Fields(started \ disposed) /\ flow[f].at # "idle"
      /\ UNCHANGED <<procs, killed, killFailed>>
  BY NoneFacts DEF ExitAwaited, Inv, Parts, ProcsOK, UiOK
<1>2. AfterStop(f, SetBusy(ReleaseAdapter(ui, p), FALSE), p)
  BY DEF ExitAwaited
<1> HIDE DEF p
<1>3. PICK v \in Fields((started \ disposed) \ {p}) :
        /\ v = ReleaseAdapter(ui, p) /\ Same(ui, v)
        /\ v.adapter = IF ui.adapter = p THEN None ELSE ui.adapter
  BY <1>1, ReleaseFields
<1>a. PICK u : u = SetBusy(v, FALSE)
  OBVIOUS
<1>4. /\ u \in Fields((started \ disposed) \ {p}) /\ u.adapter = v.adapter
      /\ Offered(u) /\ (Wanted(u) <=> Wanted(v))
  BY <1>a, FreeFields
<1> DEFINE d == disposed \cup ({p} \ {None})
<1>5. (started \ disposed) \ {p} = started \ d
  BY <1>1
<1>6. AfterStop(f, u, p) /\ u.exitRequested = ui.exitRequested
  BY <1>1, <1>2, <1>3, <1>a, <1>4 DEF Same, Wanted, Fields
<1>7. u.adapter = ui.adapter \/ ui.adapter \notin live
  BY <1>1, <1>3, <1>4
<1>8. u.open /\ ~u.busy /\ u.adapter \in live => u.stopEnabled
  BY <1>4 DEF Offered
<1>9. d = disposed \cup ({p} \ {None}) /\ u \in Fields(started \ d)
  BY <1>4, <1>5
<1> HIDE DEF d
<1>10. QED BY <1>1, <1>6, <1>7, <1>8, <1>9, AfterStopKeeps

------------------------------------------------------------------------------
(* The process and its Exited event.                                       *)

LEMMA DieKeeps ==
  ASSUME Inv, NEW p \in Procs, Die(p)
  PROVE  Inv'
<1>1. /\ live' = live \ {p}
      /\ UNCHANGED <<ui, flow, started, killed, disposed, raised, queue, overlapped, killFailed>>
  BY DEF Die
<1>2. Parts' /\ StopIsOffered'
  BY <1>1 DEF Inv, Parts, UiOK, FlowOK, ProcsOK, StopIsOffered
<1>3. ExitWanted' = ExitWanted
  BY <1>1 DEF ExitWanted
<1>4. ExitAsked' /\ Calm
  BY <1>1, <1>3, SameFlows
<1>5. ~overlapped' => Managed'
  BY <1>1, <1>3, <1>4, ManagedStays DEF Inv
<1>6. QED BY <1>2, <1>4, <1>5 DEF Inv

LEMMA RaisedKeeps ==
  ASSUME Inv, NEW p \in Procs, RaiseExited(p)
  PROVE  Inv'
<1>1. /\ p \in started \ live /\ raised' = raised \cup {p} /\ queue' = queue \cup {p}
      /\ UNCHANGED <<ui, flow, started, live, killed, disposed, overlapped, killFailed>>
  BY DEF RaiseExited
<1>2. Parts' /\ StopIsOffered'
  BY <1>1 DEF Inv, Parts, UiOK, FlowOK, ProcsOK, StopIsOffered
<1>3. ExitWanted' = ExitWanted
  BY <1>1 DEF ExitWanted
<1>4. ExitAsked' /\ Calm
  BY <1>1, <1>3, SameFlows
<1>5. ~overlapped' => Managed'
  BY <1>1, <1>3, <1>4, ManagedStays DEF Inv
<1>6. QED BY <1>2, <1>4, <1>5 DEF Inv

LEMMA ExitedKeeps ==
  ASSUME Inv, NEW p \in Procs, HandleAdapterExited(p)
  PROVE  Inv'
<1>1. /\ p \in queue /\ p \in started /\ p \notin live /\ p # None
      /\ queue' = queue \ {p} /\ ui \in Fields(started \ disposed)
      /\ UNCHANGED <<flow, procs, killed, overlapped, killFailed>>
  BY NoneFacts DEF HandleAdapterExited, Inv, Parts, ProcsOK, UiOK
<1>2. /\ ui' \in Fields(started \ disposed') /\ disposed' \subseteq started
      /\ ui'.adapter = ui.adapter \/ ui.adapter \notin live
      /\ ExitWanted' = ExitWanted
      /\ ui'.open /\ ~ui'.busy /\ ui'.adapter \in live => ui'.stopEnabled
  <2>1. CASE /\ ui.adapter = p /\ ui' = ReleaseAdapter(ui, p) /\ Disposing(p)
    <3>1. PICK v \in Fields((started \ disposed) \ {p}) :
            v = ReleaseAdapter(ui, p) /\ Same(ui, v) /\ v.adapter = None
      BY <1>1, <2>1, ReleaseFields
    <3>2. disposed' = disposed \cup {p} /\ (started \ disposed) \ {p} = started \ disposed'
      BY <1>1, <2>1 DEF Disposing
    <3>3. disposed' \subseteq started /\ None \notin live
      BY <1>1, <3>2, NoneFacts DEF Inv, Parts, ProcsOK
    <3>4. QED BY <1>1, <2>1, <3>1, <3>2, <3>3 DEF Same, ExitWanted
  <2>2. CASE UNCHANGED <<ui, disposed>>
    BY <1>1, <2>2 DEF Inv, Parts, ProcsOK, StopIsOffered, ExitWanted
  <2>3. QED BY <2>1, <2>2 DEF HandleAdapterExited
<1>3. FlowOK' /\ ExitAsked' /\ Calm
  BY <1>1, <1>2, SameFlows
<1>4. Parts' /\ StopIsOffered'
  BY <1>1, <1>2, <1>3 DEF Inv, Parts, UiOK, ProcsOK, StopIsOffered, procs
<1>5. ~overlapped' => Managed'
  <2>1. live' \ killed' \subseteq live \ killed /\ (overlapped => overlapped')
    BY <1>1 DEF procs
  <2>2. ui'.adapter = ui.adapter \/ ui.adapter \notin live' \ killed'
    BY <1>1, <1>2 DEF procs
  <2>3. ~overlapped => Managed
    BY DEF Inv
  <2>4. QED BY <1>2, <1>3, <2>1, <2>2, <2>3, ManagedStays
<1>6. QED BY <1>3, <1>4, <1>5 DEF Inv

------------------------------------------------------------------------------
(* The theorems.                                                           *)

LEMMA InitInv == Init => Inv
<1> SUFFICES ASSUME Init PROVE Inv
  OBVIOUS
<1>1. Parts /\ StopIsOffered
  BY NoneFacts DEF Init, Parts, UiOK, Fields, FlowOK, FlowStates, ProcsOK, StopIsOffered
<1>2. ~ExitWanted
  BY DEF Init, ExitWanted
<1>3. ExitAsked /\ \A f \in Flows : ~Starting(f)
  BY IdleFacts DEF Init, ExitAsked, Starting
<1>4. Managed
  BY <1>2, <1>3 DEF Init, Managed
<1>5. QED BY <1>1, <1>3, <1>4 DEF Inv

LEMMA StepInv ==
  ASSUME Inv, [Next]_vars
  PROVE  Inv'
<1>1. ASSUME NEW f \in Flows, Clicked(f) PROVE Inv'
  BY <1>1, StartClickKeeps, ClickStopKeeps, ExitKeeps, BusyClickKeeps DEF Clicked
<1>2. ASSUME NEW f \in Flows, Continued(f) PROVE Inv'
  BY <1>2, HealthKeeps, PortKeeps, GlobalInitKeeps, NotBusyKeeps, RefreshKeeps, ExitAwaitedKeeps
  DEF Continued
<1>3. CASE CloseBox
  BY <1>3, CloseBoxKeeps
<1>4. ASSUME NEW p \in Procs, Die(p) \/ RaiseExited(p) \/ HandleAdapterExited(p) PROVE Inv'
  BY <1>4, DieKeeps, RaisedKeeps, ExitedKeeps
<1>5. CASE UNCHANGED vars
  BY <1>5 DEF vars, procs, Inv, Parts, UiOK, FlowOK, ProcsOK, StopIsOffered, ExitAsked,
              ExitWanted, Managed, Starting
<1>6. QED BY <1>1, <1>2, <1>3, <1>4, <1>5 DEF Next, Gone

LEMMA Invariance == Spec => []Inv
  BY InitInv, StepInv, PTL DEF Spec

(* The form's fields, the flows and the sets of processes keep their       *)
(* types: no disposed process is in _adapter or _stoppingAdapter.          *)
THEOREM TypeCorrect == Spec => []TypeOK
<1>1. Inv => TypeOK
  BY TypeParts DEF Inv, Parts
<1>2. QED BY <1>1, Invariance, PTL

(* While an adapter runs and no handler is busy, it can be stopped.        *)
THEOREM StopOffered == Spec => []StopIsOffered
<1>1. Inv => StopIsOffered
  BY DEF Inv
<1>2. QED BY <1>1, Invariance, PTL

(* Whatever the handlers, the timer and the Exited events interleave to,   *)
(* an adapter that runs and was not told to end is the one in _adapter;    *)
(* unless a start was in flight together with another start or an exit.    *)
THEOREM ChildrenManaged == Spec => []ChildrenAreManaged
<1>1. Inv => ChildrenAreManaged
  BY DEF Inv, Managed, ChildrenAreManaged
<1>2. QED BY <1>1, Invariance, PTL

------------------------------------------------------------------------------
(* The Exited callback and StopAsync.                                      *)

(* As long as no Kill failed: a process that is in _adapter and awaited by *)
(* a StopAsync is in _stoppingAdapter.                                     *)
Spared ==
  \A f \in Flows : flow[f].at = "exited" =>
    flow[f].proc \in started /\ (ui.adapter = flow[f].proc => ui.stopping = flow[f].proc)

(* From the fields u to v no process enters _adapter, and the one that     *)
(* stays there stays in _stoppingAdapter too.                              *)
Keeping(u, v) ==
  \A p \in started : v.adapter = p => u.adapter = p /\ (u.stopping = p => v.stopping = p)

LEMMA KeepingTwice ==
  ASSUME NEW u, NEW v, NEW w, Keeping(u, v), Keeping(v, w)
  PROVE  Keeping(u, w)
  BY DEF Keeping

LEMMA BusyKeeping ==
  ASSUME NEW s, NEW u \in Fields(s), NEW b \in BOOLEAN
  PROVE  Keeping(u, SetBusy(u, b))
  BY BusyFields DEF Keeping

LEMMA ReleaseKeeping ==
  ASSUME Inv, NEW s, NEW u \in Fields(s), NEW p
  PROVE  Keeping(u, ReleaseAdapter(u, p))
<1>1. None \notin started
  BY NoneFacts DEF Inv, Parts
<1>2. PICK v : v = ReleaseAdapter(u, p)
  OBVIOUS
<1>3. /\ v.adapter = IF u.adapter = p THEN None ELSE u.adapter
      /\ v.stopping = IF u.stopping = p THEN None ELSE u.stopping
  BY <1>2 DEF ReleaseAdapter, Fields
<1>4. QED BY <1>1, <1>2, <1>3 DEF Keeping

(* No StopAsync begins to wait. *)
SameAwaited == \A f \in Flows : flow'[f].at = "exited" => flow'[f] = flow[f]

LEMMA SparedStays ==
  ASSUME Spared, SameAwaited, started \subseteq started', Keeping(ui, ui')
  PROVE  Spared'
  BY DEF Spared, SameAwaited, Keeping

LEMMA GotoAwaited ==
  ASSUME FlowOK, NEW f \in Flows, NEW kind, NEW at, at # "exited", NEW p, Goto(f, kind, at, p)
  PROVE  SameAwaited
  BY DEF FlowOK, Goto, SameAwaited

LEMMA EndAwaited ==
  ASSUME FlowOK, NEW f \in Flows, End(f)
  PROVE  SameAwaited
  BY DEF FlowOK, End, SameAwaited, Idle

LEMMA CloseSpares ==
  ASSUME NEW u, Close(u)
  PROVE  Spared'
  BY DEF Close, Spared, Idle

LEMMA StopSpares ==
  ASSUME Inv, Spared, NEW f \in Flows, NEW kind, NEW u \in Fields(started),
         u.adapter = ui.adapter, u.stopping = ui.stopping, StopAsync(f, kind, u)
  PROVE  killFailed' \/ Spared'
<1>1. started' = started /\ Keeping(ui, u) /\ FlowOK
  BY DEF StopAsync, procs, Keeping, Inv, Parts
<1>2. CASE StopNothing(f, kind, u)
  <2>1. Keeping(u, ui')
    BY <1>2 DEF StopNothing, Keeping, Fields
  <2>2. SameAwaited
    BY <1>1, <1>2, GotoAwaited DEF StopNothing
  <2>3. QED BY <1>1, <2>1, <2>2, KeepingTwice, SparedStays
<1>3. CASE StopExited(f, kind, u)
  <2>1. Keeping(u, ui')
    BY <1>3, ReleaseKeeping DEF StopExited
  <2>2. SameAwaited
    BY <1>1, <1>3, GotoAwaited DEF StopExited
  <2>3. QED BY <1>1, <2>1, <2>2, KeepingTwice, SparedStays
<1>4. CASE StopKills(f, kind, u)
  <2>1. ui'.adapter = u.adapter /\ ui'.stopping = u.adapter /\ u.adapter \in started
    <3>1. SetBusy(u, TRUE) \in Fields(started) /\ SetBusy(u, TRUE).adapter = u.adapter
      BY BusyFields
    <3>2. u.adapter \in started
      BY <1>4 DEF StopKills, Inv, Parts, ProcsOK
    <3>3. ui' = [SetBusy(u, TRUE) EXCEPT !.stopping = u.adapter]
      BY <1>4 DEF StopKills
    <3>4. QED BY <3>1, <3>2, <3>3 DEF Fields
  <2>2. \A g \in Flows : flow'[g].at = "exited" =>
          flow'[g] = flow[g] \/ flow'[g].proc = u.adapter
    BY <1>1, <1>4 DEF StopKills, Goto, FlowOK
  <2>3. QED BY <1>1, <2>1, <2>2 DEF Spared
<1>5. CASE StopFails(f, u)
  BY <1>5 DEF StopFails
<1>6. QED BY <1>2, <1>3, <1>4, <1>5 DEF StopAsync

LEMMA AfterStopSpares ==
  ASSUME Inv, Spared, NEW f \in Flows, NEW u, NEW p, Keeping(ui, u),
         AfterStop(f, u, p), started' = started
  PROVE  Spared'
<1>1. CASE ui' = u /\ (End(f) \/ StartPrefix(f, u))
  <2>1. SameAwaited
    BY <1>1, EndAwaited, GotoAwaited DEF StartPrefix, Inv, Parts
  <2>2. QED BY <1>1, <2>1, SparedStays
<1>2. CASE Close(u)
  BY <1>2, CloseSpares
<1>3. QED BY <1>1, <1>2 DEF AfterStop

LEMMA RefreshKeeping ==
  ASSUME NEW s, ui \in Fields(s), NEW healthy
  PROVE  Keeping(ui, Refreshed(healthy))
  BY DEF Keeping, Refreshed, Fields

LEMMA ClickedSpares ==
  ASSUME Inv, Spared, NEW f \in Flows, Clicked(f)
  PROVE  killFailed' \/ Spared'
<1>1. ui \in Fields(started \ disposed) /\ ui \in Fields(started) /\ FlowOK
  BY DEF Inv, Parts, UiOK, Fields
<1>2. CASE ClickStart(f)
  <2>1. SameAwaited
    BY <1>1, <1>2, EndAwaited, GotoAwaited DEF ClickStart, StartPrefix
  <2>2. started' = started /\ Keeping(ui, ui')
    BY <1>2 DEF ClickStart, procs, Keeping
  <2>3. QED BY <2>1, <2>2, SparedStays
<1>3. CASE ClickStop(f)
  BY <1>1, <1>3, StopSpares DEF ClickStop
<1>4. CASE ExitLauncher(f)
  <2>1. PICK u \in Fields(started) :
          /\ u = [ui EXCEPT !.exitRequested = TRUE, !.timer = FALSE]
          /\ u.adapter = ui.adapter /\ u.stopping = ui.stopping
    <3>1. [ui EXCEPT !.exitRequested = TRUE, !.timer = FALSE] \in Fields(started)
      BY <1>1 DEF Fields
    <3>2. QED BY <1>1, <3>1 DEF Fields
  <2>2. QED BY <1>4, <2>1, StopSpares DEF ExitLauncher
<1>5. CASE Check(f) \/ CleanStaleRegistry(f) \/ Tick(f)
  <2>1. SameAwaited
    BY <1>1, <1>5, GotoAwaited DEF Check, CleanStaleRegistry, Tick
  <2>2. Keeping(ui, SetBusy(ui, TRUE)) /\ Keeping(ui, ui)
    BY <1>1, BusyKeeping DEF Keeping
  <2>3. started' = started /\ Keeping(ui, ui')
    BY <1>5, <2>2 DEF Check, CleanStaleRegistry, Tick, procs
  <2>4. QED BY <2>1, <2>3, SparedStays
<1>6. QED BY <1>2, <1>3, <1>4, <1>5 DEF Clicked

LEMMA ContinuedSpares ==
  ASSUME Inv, Spared, NEW f \in Flows, Continued(f)
  PROVE  Spared'
<1>1. ui \in Fields(started \ disposed) /\ FlowOK
  BY DEF Inv, Parts, UiOK
<1>2. CASE HealthAnswered(f) \/ PortAnswered(f) \/ NotBusy(f)
  <2>1. SameAwaited
    BY <1>1, <1>2, EndAwaited, GotoAwaited DEF HealthAnswered, PortAnswered, NotBusy
  <2>2. Keeping(ui, ui) /\ Keeping(ui, SetBusy(ui, TRUE)) /\ Keeping(ui, SetBusy(ui, FALSE))
    BY <1>1, BusyKeeping DEF Keeping
  <2>3. started' = started /\ Keeping(ui, ui')
    BY <1>2, <2>2 DEF HealthAnswered, PortAnswered, NotBusy, procs
  <2>4. QED BY <2>1, <2>3, SparedStays
<1>3. ASSUME NEW p \in Procs \ started, GlobalInitDone(f, p) PROVE Spared'
  <2>1. SameAwaited
    BY <1>1, <1>3, GotoAwaited DEF GlobalInitDone
  <2>2. started \subseteq started' /\ ui'.adapter \notin started
    BY <1>1, <1>3 DEF GlobalInitDone, Fields
  <2>3. QED BY <2>1, <2>2, SparedStays DEF Keeping
<1>4. CASE RefreshAnswered(f)
  <2>1. PICK healthy \in BOOLEAN :
          \/ ui' = Refreshed(healthy) /\ (End(f) \/ Goto(f, "check", "checking", None))
          \/ AfterStop(f, Refreshed(healthy), None)
    BY <1>4 DEF RefreshAnswered
  <2>2. Keeping(ui, Refreshed(healthy)) /\ started' = started
    BY <1>1, <1>4, RefreshKeeping DEF RefreshAnswered, procs
  <2>3. CASE ui' = Refreshed(healthy) /\ (End(f) \/ Goto(f, "check", "checking", None))
    <3>1. SameAwaited
      BY <1>1, <2>3, EndAwaited, GotoAwaited
    <3>2. QED BY <2>2, <2>3, <3>1, SparedStays
  <2>4. CASE AfterStop(f, Refreshed(healthy), None)
    BY <2>2, <2>4, AfterStopSpares
  <2>5. QED BY <2>1, <2>3, <2>4
<1>5. CASE ExitAwaited(f)
  <2> DEFINE p == flow[f].proc
  <2>1. PICK v \in Fields((started \ disposed) \ {p}) :
          v = ReleaseAdapter(ui, p) /\ AfterStop(f, SetBusy(v, FALSE), p)
    BY <1>1, <1>5, ReleaseFields DEF ExitAwaited
  <2>2. Keeping(ui, v) /\ Keeping(v, SetBusy(v, FALSE))
    BY <1>1, <2>1, ReleaseKeeping, BusyKeeping
  <2>3. Keeping(ui, SetBusy(v, FALSE)) /\ started' = started
    BY <1>5, <2>2, KeepingTwice DEF ExitAwaited, procs
  <2>4. QED BY <2>1, <2>3, AfterStopSpares
<1>6. QED BY <1>2, <1>3, <1>4, <1>5 DEF Continued

LEMMA EventSpares ==
  ASSUME Inv, Spared, NEW p \in Procs, Die(p) \/ RaiseExited(p) \/ HandleAdapterExited(p)
  PROVE  Spared'
<1>1. flow' = flow /\ started' = started /\ ui \in Fields(started \ disposed)
  BY DEF Die, RaiseExited, HandleAdapterExited, procs, Inv, Parts, UiOK
<1>2. Keeping(ui, ui) /\ Keeping(ui, ReleaseAdapter(ui, p))
  BY <1>1, ReleaseKeeping DEF Keeping
<1>3. Keeping(ui, ui')
  BY <1>2 DEF Die, RaiseExited, HandleAdapterExited
<1>4. QED BY <1>1, <1>3, SparedStays DEF SameAwaited

LEMMA StepSpares ==
  ASSUME Inv, killFailed \/ Spared, [Next]_vars
  PROVE  (killFailed \/ Spared)'
<1>1. killFailed => killFailed'
  BY DEF Next, vars, Gone, Clicked, Continued, ClickStart, ClickStop, ExitLauncher, Check,
         CleanStaleRegistry, Tick, StopAsync, StopNothing, StopExited, StopKills, StopFails,
         HealthAnswered, PortAnswered, GlobalInitDone, NotBusy, RefreshAnswered, ExitAwaited,
         CloseBox, Die, RaiseExited, HandleAdapterExited
<1>2. CASE Spared
  <2>1. ASSUME NEW f \in Flows, Clicked(f) \/ Continued(f) PROVE killFailed' \/ Spared'
    BY <1>2, <2>1, ClickedSpares, ContinuedSpares
  <2>2. CASE CloseBox
    BY <2>2, CloseSpares DEF CloseBox
  <2>3. ASSUME NEW p \in Procs, Die(p) \/ RaiseExited(p) \/ HandleAdapterExited(p) PROVE Spared'
    BY <1>2, <2>3, EventSpares
  <2>4. CASE UNCHANGED vars
    BY <1>2, <2>4 DEF vars, Spared
  <2>5. QED BY <2>1, <2>2, <2>3, <2>4 DEF Next, Gone
<1>3. QED BY <1>1, <1>2

LEMMA CloseShuts ==
  ASSUME NEW s, NEW u \in Fields(s), Close(u)
  PROVE  ~ui'.open
<1>1. PICK v : v \in Fields(s \ {u.adapter}) /\ v = ReleaseAdapter(u, u.adapter)
  BY ReleaseFields
<1>2. ui' = [v EXCEPT !.open = FALSE]
  BY <1>1 DEF Close
<1>3. QED BY <1>1, <1>2 DEF Fields

(* While the form is open, only the callback takes p out of the queue.     *)
LEMMA CallbackTakes ==
  ASSUME Inv, [Next]_vars, NEW p \in queue \ queue', ui'.open
  PROVE  HandleAdapterExited(p)
<1>1. p \in Procs /\ ui \in Fields(started \ disposed)
  BY DEF Inv, Parts, ProcsOK, UiOK
<1>2. ASSUME NEW f \in Flows, Clicked(f) PROVE FALSE
  BY <1>2 DEF Clicked, ClickStart, ClickStop, ExitLauncher, Check, CleanStaleRegistry, Tick, StopAsync
<1>3. ASSUME NEW f \in Flows, NEW s, NEW u \in Fields(s), NEW q, AfterStop(f, u, q) PROVE FALSE
  BY <1>3, CloseShuts DEF AfterStop
<1>4. ASSUME NEW f \in Flows, RefreshAnswered(f) PROVE FALSE
  <2>1. PICK healthy \in BOOLEAN : AfterStop(f, Refreshed(healthy), None)
    BY <1>4 DEF RefreshAnswered
  <2>2. (ui.stopEnabled /\ (healthy \/ ui.adapter \in live)) \in BOOLEAN
    OBVIOUS
  <2>3. Refreshed(healthy) \in Fields(started \ disposed)
    BY <1>1, <2>2 DEF Refreshed, Fields
  <2>4. QED BY <1>3, <2>1, <2>3
<1>5. ASSUME NEW f \in Flows, ExitAwaited(f) PROVE FALSE
  <2> DEFINE q == flow[f].proc
  <2>1. PICK v \in Fields((started \ disposed) \ {q}) :
          v = ReleaseAdapter(ui, q) /\ AfterStop(f, SetBusy(v, FALSE), q)
    BY <1>1, <1>5, ReleaseFields DEF ExitAwaited
  <2>2. SetBusy(v, FALSE) \in Fields((started \ disposed) \ {q})
    BY BusyFields
  <2>3. QED BY <1>3, <2>1, <2>2
<1>6. ASSUME NEW f \in Flows, Continued(f) PROVE FALSE
  BY <1>4, <1>5, <1>6 DEF Continued, HealthAnswered, PortAnswered, GlobalInitDone, NotBusy
<1>7. ~CloseBox
  BY <1>1, CloseShuts DEF CloseBox
<1>8. ASSUME NEW q \in Procs, Die(q) \/ RaiseExited(q) PROVE FALSE
  BY <1>8 DEF Die, RaiseExited
<1>9. ASSUME NEW q \in Procs, HandleAdapterExited(q) PROVE HandleAdapterExited(p)
  <2>1. q = p
    BY <1>9 DEF HandleAdapterExited
  <2>2. QED BY <1>9, <2>1
<1>10. ~UNCHANGED vars
  BY DEF vars
<1>11. QED BY <1>2, <1>6, <1>7, <1>8, <1>9, <1>10 DEF Next, Gone

(* The callback leaves alone a process that a StopAsync waits for: its     *)
(* Process object is not disposed while WaitForExitAsync watches it.       *)
THEOREM AwaitedSpared == Spec => CallbackSparesAwaited
<1> DEFINE Spares ==
      \A p \in queue \ queue' :
        ui'.open /\ p \in disposed' \ disposed =>
          killFailed \/ \A f \in Flows : flow[f].at = "exited" => flow[f].proc # p
<1>1. ASSUME Inv, killFailed \/ Spared, [Next]_vars PROVE Spares
  <2>1. SUFFICES ASSUME NEW p \in queue \ queue', ui'.open, p \in disposed' \ disposed, Spared
                 PROVE  \A f \in Flows : flow[f].at = "exited" => flow[f].proc # p
    BY <1>1
  <2>2. HandleAdapterExited(p)
    BY <1>1, <2>1, CallbackTakes
  <2>3. ui.adapter = p /\ ui.stopping # p
    BY <2>1, <2>2 DEF HandleAdapterExited
  <2>4. QED BY <2>1, <2>3 DEF Spared
<1>2. Init => killFailed \/ Spared
  BY IdleFacts DEF Init, Spared
<1>3. Spec => [](killFailed \/ Spared)
  BY <1>2, Invariance, StepSpares, PTL DEF Spec
<1>4. QED BY <1>1, <1>3, Invariance, PTL DEF Spec, CallbackSparesAwaited
==============================================================================
