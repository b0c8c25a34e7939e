----------------------------- MODULE Visualizer -----------------------------
(***************************************************************************)
(* The two threads of the ns-3 visualizer (PyViz): the thread that runs    *)
(* the simulation, class SimulationThread of                               *)
(* src/src/visualizer/visualizer/core.py, and the GTK thread, class        *)
(* Visualizer of the same file, that lets it run period by period, shows   *)
(* its state and stops it.  They share the simulation lock, the event go,  *)
(* the target time, the flag quit and the pause messages.                  *)
(*                                                                         *)
(* The GTK thread waits for the lock by running the GTK main loop, so that *)
(* its handlers nest: `frames' are the calls of update_view_timeout that   *)
(* are waiting.  What it does with the lock held is one step here: the     *)
(* other thread sees nothing of it before the lock is free.                *)
(***************************************************************************)
EXTENDS Integers, Sequences

CONSTANTS
  Sources,     \* identifiers of GLib sources
  Periods,     \* simulated time between two views, SAMPLE_PERIOD * speed
  MaxTime,     \* bound: the simulated time no run goes beyond
  MaxMessages  \* bound: calls of PyViz::Pause in one run

ASSUME VisualizerAssumption ==
  /\ Sources \subseteq Nat \ {0}
  /\ Periods \subseteq Nat \ {0}
  /\ MaxTime \in Nat
  /\ MaxMessages \in Nat

\* GLib's identifiers are positive.
None == 0

VARIABLES
  simAt,          \* where SimulationThread.run is
  go, quit,       \* SimulationThread.go, .quit
  lockFree,       \* SimulationThread.lock
  targetTime,     \* SimulationThread.target_time
  pauseMessages,  \* number of SimulationThread.pause_messages
  now,            \* Simulator::Now ()
  gtkAt,          \* where the GTK thread is
  frames,         \* calls of update_view_timeout, by their source
  timers,         \* sources of update_view_timeout that are attached
  timeoutId,      \* Visualizer._update_timeout_id
  playing,        \* play_button.get_active ()
  period,         \* Visualizer.sample_period
  updates,        \* idle calls of update_model that are pending
  messages,       \* number of update_view_timeout's local pause_messages
  unseen,         \* history: number of messages of PyViz::Pause not yet in a dialog
  pausedRuns      \* history: periods simulated since playing was stopped

simVars == <<simAt, lockFree, now>>
viewVars == <<targetTime, messages>>
timerVars == <<frames, timers, timeoutId>>
sharedVars == <<go, quit, pauseMessages, updates>>
pyvizVars == <<simVars, viewVars, timerVars, sharedVars, gtkAt, playing, period,
               unseen, pausedRuns>>

Init ==
  /\ simAt = "loop"
  /\ go = FALSE
  /\ quit = FALSE
  /\ lockFree = TRUE
  /\ targetTime = 0
  /\ pauseMessages = 0
  /\ now = 0
  /\ gtkAt = "main"
  /\ frames = << >>
  /\ timers = {}
  /\ timeoutId = None
  /\ playing = FALSE
  /\ period \in Periods
  /\ updates = 0
  /\ messages = 0
  /\ unseen = 0
  /\ pausedRuns = 0

-----------------------------------------------------------------------------
(* SimulationThread.run.                                                   *)

SimMoves(from, to) == simAt = from /\ simAt' = to

\* while not self.quit
SimLoop ==
  /\ SimMoves("loop", IF quit THEN "ended" ELSE "wait")
  /\ UNCHANGED <<go, lockFree, now>>

\* self.go.wait ()
SimWoken ==
  /\ go
  /\ SimMoves("wait", "clear")
  /\ UNCHANGED <<go, lockFree, now>>

\* self.go.clear ()
SimClear ==
  /\ SimMoves("clear", "check")
  /\ go' = FALSE
  /\ UNCHANGED <<lockFree, now>>

\* if self.quit: break
SimCheck ==
  /\ SimMoves("check", IF quit THEN "ended" ELSE "acquire")
  /\ UNCHANGED <<go, lockFree, now>>

SimAcquire ==
  /\ lockFree
  /\ SimMoves("acquire", "run")
  /\ lockFree' = FALSE
  /\ UNCHANGED <<go, now>>

\* Broken: messages that have not been shown are replaced.
Collected_Replaced(new) == new

\* pause_messages.extend (GetPauseMessages ())
Collected(new) == pauseMessages + new

\* SimulatorRunUntil, which runs nothing when the target time is reached, and
\* else goes on to it: PyViz::Pause does not end it, as nothing reads m_stop, so
\* that several events may leave a message.  (An end of the simulation before
\* the target, by Simulator::Stop, is left out.)  Then the messages are collected
\* and update_model is queued.
SimRun ==
  /\ SimMoves("run", "loop")
  /\ \E new \in 0 .. MaxMessages :
        /\ \/ now < targetTime /\ now' = targetTime
           \/ now >= targetTime /\ now' = now /\ new = 0
        /\ pauseMessages' = Collected(new)
        /\ unseen' = unseen + new
  /\ updates' = updates + 1
  /\ lockFree' = TRUE
  /\ pausedRuns' = IF now < targetTime /\ ~playing THEN pausedRuns + 1 ELSE pausedRuns
  /\ UNCHANGED go

SimStep ==
  /\ \/ /\ SimLoop \/ SimWoken \/ SimClear \/ SimCheck \/ SimAcquire
        /\ UNCHANGED <<pauseMessages, unseen, updates, pausedRuns>>
     \/ SimRun
  /\ UNCHANGED <<viewVars, timerVars, quit, gtkAt, playing, period>>

-----------------------------------------------------------------------------
(* The sources of the GTK main loop.                                       *)

\* A main loop is running and picks a source: the outermost one, or the one
\* inside update_view_timeout that runs while the simulator is busy.
InMainLoop == gtkAt \in {"main", "drain"}

\* update_model is queued with a priority above those of the update timer
\* and of the user's events.
PicksOther == InMainLoop /\ updates = 0

\* Where the GTK thread goes on after a handler of a loop over callers fs.
BackTo(fs) == IF fs # << >> THEN "drain" ELSE IF quit THEN "ended" ELSE "main"

\* GLib.source_remove, for which an identifier no longer in use is an error
\* that is only logged.
RemoveTimer == timers \ {timeoutId}

\* _start_update_timer.
StartUpdateTimer ==
  LET unused == Sources \ (timers \union {timeoutId} \union {frames[i] : i \in DOMAIN frames})
  IN /\ unused # {}
     /\ timeoutId' = CHOOSE s \in unused : TRUE
     /\ timers' = RemoveTimer \union {timeoutId'}

\* update_model, which waits for the lock, blocking the GTK thread; what it
\* reads, the samples of the last run, is not modelled.
UpdateModel ==
  /\ InMainLoop
  /\ updates > 0
  /\ lockFree
  /\ updates' = updates - 1
  /\ UNCHANGED <<simVars, viewVars, timerVars, go, quit, pauseMessages, gtkAt,
                 playing, period, unseen, pausedRuns>>

\* The update timer calls update_view_timeout; GLib does not call a source
\* that is being called.
TimerFires(source) ==
  /\ PicksOther
  /\ source \in timers
  /\ \A i \in DOMAIN frames : frames[i] # source
  /\ frames' = Append(frames, source)
  /\ gtkAt' = "try"
  /\ UNCHANGED <<simVars, viewVars, timers, timeoutId, sharedVars, playing, period,
                 unseen, pausedRuns>>

-----------------------------------------------------------------------------
(* update_view_timeout.                                                    *)

\* The lock is taken: run the GTK main loop.
LockIsHeld ==
  /\ gtkAt = "try"
  /\ ~lockFree
  /\ gtkAt' = "drain"
  /\ UNCHANGED <<simVars, viewVars, timerVars, sharedVars, playing, period, unseen,
                 pausedRuns>>

\* No GTK event is pending: try the lock again.
TryAgain ==
  /\ gtkAt = "drain"
  /\ updates = 0
  /\ gtkAt' = "try"
  /\ UNCHANGED <<simVars, viewVars, timerVars, sharedVars, playing, period, unseen,
                 pausedRuns>>

TakeMessages ==
  /\ messages' = pauseMessages
  /\ pauseMessages' = 0

\* With the lock: take the messages, draw, and set the next target time.
UpdateView ==
  /\ gtkAt = "try"
  /\ lockFree
  /\ TakeMessages
  /\ targetTime' = IF now + period <= MaxTime THEN now + period ELSE now
  /\ gtkAt' = "after"
  /\ UNCHANGED <<simVars, timerVars, go, quit, updates, playing, period,
                 unseen, pausedRuns>>

\* Broken: a timer left behind is kept.
WhenPaused_KeepsTimer(source) ==
  /\ timers' = IF playing THEN RemoveTimer ELSE timers
  /\ timeoutId' = None
  /\ UNCHANGED go

\* Broken: the simulation is told to go on before the button is looked at.
WhenPaused_LetsRun(source) ==
  /\ go' = TRUE
  /\ UNCHANGED <<timers, timeoutId>>

\* The timer ends: _update_timeout_id is cleared and False returned.  When it
\* is the dialog that stops, _on_play_button_toggled has removed a timer, too.
WhenPaused(source) ==
  /\ timers' = (IF playing THEN RemoveTimer ELSE timers) \ {source}
  /\ timeoutId' = None
  /\ UNCHANGED go

\* The rest of update_view_timeout, after the lock is released: a dialog
\* stops playing, and only while playing the simulation may go on.
AfterView ==
  /\ gtkAt = "after"
  /\ LET source == frames[Len(frames)]
         callers == SubSeq(frames, 1, Len(frames) - 1)
         stops == messages > 0
     IN /\ unseen' = unseen - messages
        /\ messages' = 0
        /\ playing' = (playing /\ ~stops)
        /\ pausedRuns' = IF playing /\ stops THEN 0 ELSE pausedRuns
        /\ \/ /\ playing'
              /\ go' = TRUE
              /\ UNCHANGED <<timers, timeoutId>>
           \/ /\ ~playing'
              /\ WhenPaused(source)
        /\ frames' = callers
        /\ gtkAt' = BackTo(callers)
  /\ UNCHANGED <<simVars, targetTime, quit, pauseMessages, updates, period>>

-----------------------------------------------------------------------------
(* The user.                                                               *)

\* _on_play_button_toggled.
TogglePlay ==
  /\ PicksOther /\ ~quit
  /\ playing' = ~playing
  /\ \/ ~playing /\ StartUpdateTimer
     \/ playing /\ timers' = RemoveTimer /\ UNCHANGED timeoutId
  /\ pausedRuns' = 0
  /\ UNCHANGED <<simVars, viewVars, frames, sharedVars, gtkAt, period, unseen>>

\* _speed_changed.
ChangeSpeed ==
  /\ PicksOther /\ ~quit
  /\ period' \in Periods
  /\ StartUpdateTimer
  /\ UNCHANGED <<simVars, viewVars, frames, sharedVars, gtkAt, playing, unseen,
                 pausedRuns>>

\* _quit, up to self.simulation.quit = True.
Quit ==
  /\ PicksOther /\ ~quit
  /\ timers' = RemoveTimer
  /\ timeoutId' = None
  /\ quit' = TRUE
  /\ gtkAt' = "quit"
  /\ UNCHANGED <<simVars, viewVars, frames, go, pauseMessages, updates, playing, period,
                 unseen, pausedRuns>>

\* Broken: the simulation thread is not woken.
WakeToQuit_Forgotten ==
  /\ gtkAt = "quit"
  /\ gtkAt' = "join"
  /\ UNCHANGED <<simVars, viewVars, timerVars, sharedVars, playing, period, unseen,
                 pausedRuns>>

\* self.simulation.go.set ()
WakeToQuit ==
  /\ gtkAt = "quit"
  /\ go' = TRUE
  /\ gtkAt' = "join"
  /\ UNCHANGED <<simVars, viewVars, timerVars, quit, pauseMessages, updates, playing,
                 period, unseen, pausedRuns>>

\* self.simulation.join () and Gtk.main_quit ()
Join ==
  /\ gtkAt = "join"
  /\ simAt = "ended"
  /\ gtkAt' = BackTo(frames)
  /\ UNCHANGED <<simVars, viewVars, timerVars, sharedVars, playing, period, unseen,
                 pausedRuns>>

-----------------------------------------------------------------------------

\* What the GTK thread does without the user.
GtkStep ==
  \/ UpdateModel
  \/ \E source \in Sources : TimerFires(source)
  \/ LockIsHeld \/ TryAgain \/ UpdateView \/ AfterView
  \/ WakeToQuit \/ Join

UserStep == TogglePlay \/ ChangeSpeed \/ Quit

Next == SimStep \/ GtkStep \/ UserStep

Spec == Init /\ [][Next]_pyvizVars

\* Both threads are scheduled, GLib calls a timer that keeps being due, and an
\* update timer is not due again at once, so that the loop over pending events
\* ends.
FairSpec ==
  /\ Spec
  /\ WF_pyvizVars(SimStep)
  /\ WF_pyvizVars(GtkStep)
  /\ SF_pyvizVars(TryAgain)
  /\ \A source \in Sources : WF_pyvizVars(TimerFires(source))

-----------------------------------------------------------------------------

\* Every message of PyViz::Pause comes to a dialog exactly once, although
\* the simulation may run again before the GTK thread looks for messages, and
\* several calls of update_view_timeout may be waiting to look.
PauseMessagesShownOnce == unseen = messages + pauseMessages

\* Once playing has stopped, by the user or by a message, simulated time moves
\* on by two periods at most: the one under way and one already asked for.
StopsSoon == pausedRuns <= 2

\* When playing stops the update timer stops, also one left behind by a
\* change of the speed while a view was waiting for the lock, once the user
\* leaves the speed alone.
PauseStopsTimers ==
  <>[][~UserStep]_pyvizVars => (~playing ~> (playing \/ quit \/ timers = {}))

\* Closing the window ends both threads, wherever the simulation thread is
\* and however many handlers are waiting for the lock.
QuitEnds == quit ~> (simAt = "ended" /\ gtkAt = "ended")
=============================================================================
