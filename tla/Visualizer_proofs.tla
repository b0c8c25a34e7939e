------------------------- MODULE Visualizer_proofs -------------------------
(***************************************************************************)
(* Theorems about Visualizer: whatever the period, the number of sources   *)
(* and the length of the run, no message of PyViz::Pause is lost or shown  *)
(* twice, and a simulation that has been stopped runs two periods more at  *)
(* most.                                                                   *)
(***************************************************************************)
EXTENDS Visualizer, TLAPS

SimPlaces == {"loop", "wait", "clear", "check", "acquire", "run", "ended"}
GtkPlaces == {"main", "drain", "try", "after", "quit", "join", "ended"}

ThreadTypes ==
  /\ simAt \in SimPlaces
  /\ gtkAt \in GtkPlaces
  /\ go \in BOOLEAN
  /\ quit \in BOOLEAN
  /\ playing \in BOOLEAN

\* Only between the lock and the dialog does update_view_timeout hold messages.
MessagesInStep ==
  /\ pauseMessages \in Nat
  /\ messages \in Nat
  /\ gtkAt # "after" => messages = 0
  /\ unseen = messages + pauseMessages

\* The simulation thread has passed go.wait () and will run a period.
AboutToRun == simAt \in {"acquire", "run"} \/ (simAt = "check" /\ ~quit)

\* A go that has been set and not been used up.
GoIsSet == go /\ ~quit

\* The thread is woken by a go that it has not cleared yet, and only quitting
\* sets one while paused.
GoInStep ==
  /\ simAt = "clear" => go
  /\ gtkAt \in {"quit", "join"} => quit

\* A period that has run, one that will run and a go together make two.
RunsInStep ==
  /\ pausedRuns \in {0, 1, 2}
  /\ playing => pausedRuns = 0
  /\ AboutToRun \/ GoIsSet => pausedRuns # 2
  /\ AboutToRun /\ GoIsSet => pausedRuns = 0

\* The inductive invariant.
ThreadsInStep ==
  /\ ThreadTypes
  /\ MessagesInStep
  /\ GoInStep
  /\ RunsInStep

LEMMA InitInStep == Init => ThreadsInStep
<1> SUFFICES ASSUME Init PROVE ThreadsInStep
  OBVIOUS
<1>1. ThreadTypes
  BY DEF Init, ThreadTypes, SimPlaces, GtkPlaces
<1>2. MessagesInStep
  BY DEF Init, MessagesInStep
<1>3. GoInStep
  BY DEF Init, GoInStep
<1>4. RunsInStep
  BY DEF Init, RunsInStep, AboutToRun, GoIsSet
<1> QED
  BY <1>1, <1>2, <1>3, <1>4 DEF ThreadsInStep

-----------------------------------------------------------------------------
(* The simulation thread.                                                  *)

\* What the simulation thread leaves alone.
LEMMA SimLeaves ==
  ASSUME SimStep
  PROVE  UNCHANGED <<messages, gtkAt, quit, playing>>
BY DEF SimStep, viewVars

\* A step of the simulation thread before it runs a period.
LEMMA SimWaits ==
  ASSUME ThreadsInStep, SimStep, ~SimRun
  PROVE  /\ SimLoop \/ SimWoken \/ SimClear \/ SimCheck \/ SimAcquire
         /\ UNCHANGED <<pauseMessages, unseen, pausedRuns>>
BY DEF SimStep

LEMMA SimKeepsTypes == ThreadsInStep /\ SimStep => ThreadTypes'
<1> SUFFICES ASSUME ThreadsInStep, SimStep PROVE ThreadTypes'
  OBVIOUS
<1>1. gtkAt' \in GtkPlaces /\ quit' \in BOOLEAN /\ playing' \in BOOLEAN
  BY SimLeaves DEF ThreadsInStep, ThreadTypes
<1>2. simAt' \in SimPlaces /\ go' \in BOOLEAN
  BY DEF SimStep, SimLoop, SimWoken, SimClear, SimCheck, SimAcquire, SimRun, SimMoves,
         SimPlaces, ThreadsInStep, ThreadTypes
<1> QED
  BY <1>1, <1>2 DEF ThreadTypes

LEMMA SimKeepsMessages == ThreadsInStep /\ SimStep => MessagesInStep'
<1> SUFFICES ASSUME ThreadsInStep, SimStep PROVE MessagesInStep'
  OBVIOUS
<1> USE DEF ThreadsInStep, MessagesInStep
<1>1. messages' = messages /\ gtkAt' = gtkAt
  BY SimLeaves
<1>2. CASE SimRun
  <2>1. PICK new \in 0 .. MaxMessages :
          pauseMessages' = pauseMessages + new /\ unseen' = unseen + new
    BY <1>2 DEF SimRun, Collected
  <2>2. new \in Nat
    BY VisualizerAssumption, <2>1
  <2> QED
    BY <1>1, <2>1, <2>2
<1>3. CASE ~SimRun
  BY <1>1, <1>3, SimWaits
<1> QED
  BY <1>2, <1>3

LEMMA SimKeepsGo == ThreadsInStep /\ SimStep => GoInStep'
<1> SUFFICES ASSUME ThreadsInStep, SimStep PROVE GoInStep'
  OBVIOUS
<1>1. gtkAt' = gtkAt /\ quit' = quit
  BY SimLeaves
<1>2. simAt' = "clear" => go'
  BY DEF SimStep, SimLoop, SimWoken, SimClear, SimCheck, SimAcquire, SimRun, SimMoves
<1> QED
  BY <1>1, <1>2 DEF GoInStep, ThreadsInStep

LEMMA SimKeepsRuns == ThreadsInStep /\ SimStep => RunsInStep'
<1> SUFFICES ASSUME ThreadsInStep, SimStep PROVE RunsInStep'
  OBVIOUS
<1>1. quit' = quit /\ playing' = playing
  BY SimLeaves
<1>2. CASE SimRun
  <2>1. AboutToRun /\ simAt' = "loop" /\ go' = go
    <3>1. SimMoves("run", "loop") /\ UNCHANGED go
      BY <1>2, Zenon DEF SimRun
    <3> QED
      BY <3>1 DEF SimMoves, AboutToRun
  <2>2. ~AboutToRun' /\ GoIsSet' = GoIsSet
    BY <1>1, <2>1 DEF AboutToRun, GoIsSet
  <2>3. /\ pausedRuns \in {0, 1}
        /\ playing => pausedRuns = 0
        /\ GoIsSet => pausedRuns = 0
    BY <2>1 DEF ThreadsInStep, RunsInStep
  <2>4. \/ pausedRuns' = pausedRuns
        \/ ~playing /\ pausedRuns' = pausedRuns + 1
    BY <1>2 DEF SimRun
  <2>5. pausedRuns' \in {0, 1, 2}
    BY <2>3, <2>4
  <2>6. playing => pausedRuns' = 0
    BY <2>3, <2>4
  <2>7. GoIsSet => pausedRuns' # 2
    BY <2>3, <2>4
  <2> QED
    BY <1>1, <2>2, <2>5, <2>6, <2>7 DEF RunsInStep
<1>3. CASE ~SimRun
  <2>1. pausedRuns' = pausedRuns
    BY <1>3, SimWaits
  <2>2. \/ AboutToRun' = AboutToRun /\ GoIsSet' = GoIsSet
        \/ ~AboutToRun'
        \/ GoIsSet /\ ~GoIsSet'
    <3>1. CASE SimLoop
      BY <1>1, <3>1 DEF SimLoop, SimMoves, AboutToRun
    <3>2. CASE SimWoken
      BY <1>1, <3>2 DEF SimWoken, SimMoves, AboutToRun
    <3>3. CASE SimClear
      BY <1>1, <3>3 DEF SimClear, SimMoves, AboutToRun, GoIsSet, ThreadsInStep, GoInStep
    <3>4. CASE SimCheck
      BY <1>1, <3>4 DEF SimCheck, SimMoves, AboutToRun, GoIsSet
    <3>5. CASE SimAcquire
      BY <1>1, <3>5 DEF SimAcquire, SimMoves, AboutToRun, GoIsSet
    <3> QED
      BY <1>3, SimWaits, <3>1, <3>2, <3>3, <3>4, <3>5
  <2>3. GoIsSet' => GoIsSet
    BY <1>1, <1>3, SimWaits DEF GoIsSet, SimLoop, SimWoken, SimClear, SimCheck, SimAcquire
  <2> QED
    BY <1>1, <2>1, <2>2, <2>3 DEF ThreadsInStep, RunsInStep
<1> QED
  BY <1>2, <1>3

LEMMA SimKeepsInStep == ThreadsInStep /\ SimStep => ThreadsInStep'
BY SimKeepsTypes, SimKeepsMessages, SimKeepsGo, SimKeepsRuns DEF ThreadsInStep


-----------------------------------------------------------------------------
(* The GTK thread.                                                         *)

\* What the GTK thread and the user leave alone.
LEMMA GtkLeaves ==
  ASSUME GtkStep \/ UserStep
  PROVE  simAt' = simAt
BY DEF GtkStep, UserStep, UpdateModel, TimerFires, LockIsHeld, TryAgain, UpdateView,
       AfterView, WakeToQuit, Join, TogglePlay, ChangeSpeed, Quit, simVars

LEMMA GtkKeepsTypes == ThreadsInStep /\ (GtkStep \/ UserStep) => ThreadTypes'
<1> SUFFICES ASSUME ThreadsInStep, GtkStep \/ UserStep PROVE ThreadTypes'
  OBVIOUS
<1> USE DEF ThreadsInStep, ThreadTypes, GtkPlaces
<1>1. simAt' \in SimPlaces
  BY GtkLeaves
<1>2. CASE UpdateModel \/ LockIsHeld \/ TryAgain \/ UpdateView \/ WakeToQuit \/ Join
  BY <1>1, <1>2 DEF UpdateModel, LockIsHeld, TryAgain, UpdateView, WakeToQuit, Join,
                    sharedVars, BackTo
<1>3. CASE \E source \in Sources : TimerFires(source)
  BY <1>1, <1>3 DEF TimerFires, sharedVars
<1>4. CASE AfterView
  <2>1. gtkAt' \in GtkPlaces
    BY <1>4 DEF AfterView, BackTo
  <2>2. go' \in BOOLEAN /\ quit' \in BOOLEAN /\ playing' \in BOOLEAN
    BY <1>4, Zenon DEF AfterView, WhenPaused
  <2> QED
    BY <1>1, <2>1, <2>2
<1>5. CASE UserStep
  BY <1>1, <1>5 DEF UserStep, TogglePlay, ChangeSpeed, Quit, sharedVars
<1> QED
  BY <1>2, <1>3, <1>4, <1>5 DEF GtkStep

LEMMA GtkKeepsMessages == ThreadsInStep /\ (GtkStep \/ UserStep) => MessagesInStep'
<1> SUFFICES ASSUME ThreadsInStep, GtkStep \/ UserStep PROVE MessagesInStep'
  OBVIOUS
<1> USE DEF ThreadsInStep, MessagesInStep
<1>1. CASE UpdateModel \/ LockIsHeld \/ TryAgain \/ WakeToQuit \/ Join
  <2>1. UNCHANGED <<pauseMessages, messages, unseen>>
    BY <1>1 DEF UpdateModel, LockIsHeld, TryAgain, WakeToQuit, Join, viewVars, sharedVars
  <2>2. (gtkAt # "after" /\ gtkAt' # "after") \/ gtkAt' = gtkAt
    BY <1>1 DEF UpdateModel, LockIsHeld, TryAgain, WakeToQuit, Join, BackTo
  <2> QED
    BY <2>1, <2>2
<1>2. CASE \E source \in Sources : TimerFires(source)
  <2>1. UNCHANGED <<pauseMessages, messages, unseen>>
    BY <1>2 DEF TimerFires, viewVars, sharedVars
  <2>2. gtkAt # "after" /\ gtkAt' # "after"
    BY <1>2 DEF TimerFires, PicksOther, InMainLoop
  <2> QED
    BY <2>1, <2>2
<1>3. CASE UpdateView
  <2>1. /\ gtkAt = "try"
        /\ gtkAt' = "after"
        /\ messages' = pauseMessages
        /\ pauseMessages' = 0
        /\ unseen' = unseen
    BY <1>3 DEF UpdateView, TakeMessages
  <2> QED
    BY <2>1
<1>4. CASE AfterView
  <2>1. /\ unseen' = unseen - messages
        /\ messages' = 0
        /\ pauseMessages' = pauseMessages
    BY <1>4, Zenon DEF AfterView
  <2> QED
    BY <2>1
<1>5. CASE UserStep
  <2>1. UNCHANGED <<pauseMessages, messages, unseen>>
    BY <1>5 DEF UserStep, TogglePlay, ChangeSpeed, Quit, viewVars, sharedVars
  <2>2. gtkAt # "after" /\ gtkAt' # "after"
    BY <1>5 DEF UserStep, TogglePlay, ChangeSpeed, Quit, PicksOther, InMainLoop
  <2> QED
    BY <2>1, <2>2
<1> QED
  BY <1>1, <1>2, <1>3, <1>4, <1>5 DEF GtkStep

LEMMA GtkKeepsGo == ThreadsInStep /\ (GtkStep \/ UserStep) => GoInStep'
<1> SUFFICES ASSUME ThreadsInStep, GtkStep \/ UserStep PROVE GoInStep'
  OBVIOUS
<1> USE DEF ThreadsInStep, GoInStep
<1>1. simAt' = simAt
  BY GtkLeaves
<1>2. go => go'
  BY DEF GtkStep, UserStep, UpdateModel, TimerFires, LockIsHeld, TryAgain, UpdateView,
         AfterView, WhenPaused, WakeToQuit, Join, TogglePlay, ChangeSpeed, Quit, sharedVars
<1>3. quit => quit'
  BY DEF GtkStep, UserStep, UpdateModel, TimerFires, LockIsHeld, TryAgain, UpdateView,
         AfterView, WakeToQuit, Join, TogglePlay, ChangeSpeed, Quit, sharedVars
<1>4. gtkAt' \in {"quit", "join"} => gtkAt \in {"quit", "join"} \/ quit'
  BY DEF GtkStep, UserStep, UpdateModel, TimerFires, LockIsHeld, TryAgain, UpdateView,
         AfterView, WakeToQuit, Join, TogglePlay, ChangeSpeed, Quit, BackTo
<1> QED
  BY <1>1, <1>2, <1>3, <1>4

LEMMA GtkKeepsRuns == ThreadsInStep /\ (GtkStep \/ UserStep) => RunsInStep'
<1> SUFFICES ASSUME ThreadsInStep, GtkStep \/ UserStep PROVE RunsInStep'
  OBVIOUS
<1>1. simAt' = simAt
  BY GtkLeaves
<1>2. CASE /\ UNCHANGED <<playing, pausedRuns>>
           /\ quit => quit'
           /\ GoIsSet' => GoIsSet
  BY <1>1, <1>2 DEF ThreadsInStep, RunsInStep, AboutToRun
<1>3. CASE pausedRuns' = 0
  BY <1>3 DEF RunsInStep
<1>4. CASE UpdateModel \/ LockIsHeld \/ TryAgain \/ UpdateView \/ Join
  BY <1>2, <1>4 DEF UpdateModel, LockIsHeld, TryAgain, UpdateView, Join, sharedVars, GoIsSet
<1>5. CASE \E source \in Sources : TimerFires(source)
  BY <1>2, <1>5 DEF TimerFires, sharedVars, GoIsSet
<1>6. CASE WakeToQuit
  BY <1>2, <1>6 DEF WakeToQuit, GoIsSet, ThreadsInStep, GoInStep
<1>7. CASE AfterView
  <2>1. CASE playing
    <3>1. pausedRuns' = pausedRuns \/ pausedRuns' = 0
      BY <1>7 DEF AfterView
    <3>2. pausedRuns = 0
      BY <2>1 DEF ThreadsInStep, RunsInStep
    <3> QED
      BY <1>3, <3>1, <3>2
  <2>2. CASE ~playing
    <3>1. UNCHANGED <<playing, pausedRuns, go, quit>>
      BY <1>7, <2>2 DEF AfterView, WhenPaused, ThreadsInStep, ThreadTypes
    <3> QED
      BY <1>2, <3>1 DEF GoIsSet
  <2> QED
    BY <2>1, <2>2
<1>8. CASE UserStep
  <2>1. CASE TogglePlay
    BY <1>3, <2>1 DEF TogglePlay
  <2>2. CASE ChangeSpeed \/ Quit
    BY <1>2, <2>2 DEF ChangeSpeed, Quit, sharedVars, GoIsSet
  <2> QED
    BY <1>8, <2>1, <2>2 DEF UserStep
<1> QED
  BY <1>4, <1>5, <1>6, <1>7, <1>8 DEF GtkStep

LEMMA GtkKeepsInStep == ThreadsInStep /\ (GtkStep \/ UserStep) => ThreadsInStep'
BY GtkKeepsTypes, GtkKeepsMessages, GtkKeepsGo, GtkKeepsRuns DEF ThreadsInStep

-----------------------------------------------------------------------------

\* ThreadsInStep reads only some of the variables.
LEMMA StutterKeepsInStep == ThreadsInStep /\ UNCHANGED pyvizVars => ThreadsInStep'
BY DEF ThreadsInStep, ThreadTypes, MessagesInStep, GoInStep, RunsInStep, AboutToRun, GoIsSet,
       pyvizVars, simVars, viewVars, timerVars, sharedVars

\* The inductive invariant of the two threads of core.py: where each is, which
\* messages it holds and whether go has been set agree.
THEOREM ThreadsInStepCorrect == Spec => []ThreadsInStep
<1>1. Init => ThreadsInStep
  BY InitInStep
<1>2. ThreadsInStep /\ [Next]_pyvizVars => ThreadsInStep'
  BY SimKeepsInStep, GtkKeepsInStep, StutterKeepsInStep DEF Next
<1> QED
  BY <1>1, <1>2, PTL DEF Spec

\* Every message of PyViz::Pause that SimulationThread.run collects comes to a
\* dialog of update_view_timeout exactly once.
THEOREM MessagesShownOnce == Spec => []PauseMessagesShownOnce
<1>1. ThreadsInStep => PauseMessagesShownOnce
  BY DEF ThreadsInStep, MessagesInStep, PauseMessagesShownOnce
<1> QED
  BY <1>1, ThreadsInStepCorrect, PTL

\* After playing has stopped, SimulationThread.run runs two periods at most,
\* whatever the handlers of the GTK thread that are waiting for the lock do.
THEOREM PausedStopsSoon == Spec => []StopsSoon
<1>1. ThreadsInStep => StopsSoon
  BY DEF ThreadsInStep, RunsInStep, StopsSoon
<1> QED
  BY <1>1, ThreadsInStepCorrect, PTL

=============================================================================
