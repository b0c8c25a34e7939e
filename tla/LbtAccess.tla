------------------------------ MODULE LbtAccess ------------------------------
(***************************************************************************)
(* Listen before talk of an eNodeB in an unlicensed band that it shares    *)
(* with the Wi-Fi network, class LbtAccessManager of                       *)
(* src/src/laa-wifi-coexistence/model/lbt-access-manager.{h,cc}: the       *)
(* eNodeB's PHY asks for the channel, a Wi-Fi PHY in energy detection mode *)
(* tells when the channel is busy and for how long, and the manager grants *)
(* a transmission opportunity (TXOP) at once when the channel has been     *)
(* idle for the defer time, and after a defer time and a random number of  *)
(* slots when it has not.  HARQ feedback moves the contention window.      *)
(*                                                                         *)
(* Time is in ticks, and the times the code keeps are kept relative to     *)
(* Simulator::Now (): Tick moves them all.  An event that is scheduled is  *)
(* the time that is left until it runs.                                    *)
(***************************************************************************)
EXTENDS Integers, FiniteSetsExt

CONSTANTS
  Slot,           \* m_slotTime, 9 us
  Defer,          \* m_deferTime, 43 us
  CwMin,          \* m_cwMin, 15
  CwMax,          \* m_cwMax, 63 or 1023
  HarqDelay,      \* m_harqFeedbackDelay, 5 ms
  HarqExpiry,     \* m_harqFeedbackExpirationTime, 100 ms
  BusyDurations,  \* for how long the channel is said to be busy
  RequestGap      \* the least time between a TXOP and the next request, 1 TTI

ASSUME LbtAssumption ==
  /\ {Slot, Defer, RequestGap} \subseteq Nat \ {0}
  /\ {CwMin, CwMax} \subseteq Nat
  /\ CwMin <= CwMax
  /\ {HarqDelay, HarqExpiry} \subseteq Nat
  /\ RequestGap <= HarqDelay
  /\ HarqDelay <= HarqExpiry
  /\ BusyDurations \subseteq Nat \ {0}

VARIABLES
  state,           \* m_state
  backoffCount,    \* m_backoffCount
  grantRequested,  \* m_grantRequested
  sinceBackoff,    \* now - m_backoffStartTime, 0 but in WAIT_FOR_BACKOFF
  lastBusy,        \* m_lastBusyTime - now, not below -(Defer + 1)
  deferEvent,      \* m_waitForDeferEventId
  backoffEvent,    \* m_waitForBackoffEventId
  busyEvent,       \* m_waitForBusyEventId
  cw,              \* m_cw
  txopHistory,     \* m_txopHistory, as the ages of the TXOPs; ages above
                   \* HarqExpiry are not told apart
  channelBusy,     \* history: the time the channel will be busy, or minus the
                   \* time it has been idle, not below -(Defer + 1)
  owed,            \* history: the backoff drawn less the time it was served,
                   \* -1 when it was served for longer than that
  interruptions,   \* history: how often it was interrupted while it was served
  matured          \* history: a TXOP became HarqDelay old after cw last moved

accessVars == <<state, backoffCount, grantRequested, sinceBackoff, lastBusy,
                deferEvent, backoffEvent, busyEvent>>
historyVars == <<channelBusy, owed, interruptions, matured>>
lbtVars == <<accessVars, cw, txopHistory, historyVars>>

NotScheduled == -1
Events == {deferEvent, backoffEvent, busyEvent}

LbtInit ==
  /\ state = "IDLE"
  /\ backoffCount = 0
  /\ grantRequested = FALSE
  /\ sinceBackoff = 0
  /\ lastBusy = 0
  /\ deferEvent = NotScheduled
  /\ backoffEvent = NotScheduled
  /\ busyEvent = NotScheduled
  /\ cw = CwMin
  /\ txopHistory = {}
  /\ channelBusy = 0
  /\ owed = 0
  /\ interruptions = 0
  /\ matured = FALSE

-----------------------------------------------------------------------------
(* Time.                                                                   *)

Due(event) == event = 0
SomethingDue == \E event \in Events : Due(event)

Later(event) == IF event = NotScheduled THEN event ELSE event - 1
Older(time) == IF time = -(Defer + 1) THEN time ELSE time - 1

\* The simulator moves on when every event that is due has run.
Tick ==
  /\ ~SomethingDue
  /\ deferEvent' = Later(deferEvent)
  /\ backoffEvent' = Later(backoffEvent)
  /\ busyEvent' = Later(busyEvent)
  /\ lastBusy' = Older(lastBusy)
  /\ channelBusy' = Older(channelBusy)
  /\ sinceBackoff' = IF state = "WAIT_FOR_BACKOFF" THEN sinceBackoff + 1 ELSE 0
  /\ txopHistory' = {Min({age, HarqExpiry}) + 1 : age \in txopHistory}
  /\ owed' = IF grantRequested /\ channelBusy <= -Defer /\ owed >= 0
             THEN owed - 1 ELSE owed
  /\ matured' = (matured \/ HarqDelay - 1 \in txopHistory)
  /\ UNCHANGED <<state, backoffCount, grantRequested, cw, interruptions>>

-----------------------------------------------------------------------------
(* The manager.                                                            *)

\* SetGrant: the grant goes to the PHY, and TXOPs for which no feedback is
\* expected any more are forgotten.
SetGrant ==
  /\ state' = "TXOP_GRANTED"
  /\ grantRequested' = FALSE
  /\ txopHistory' = {age \in txopHistory : age <= HarqExpiry} \union {0}
  /\ owed' = 0
  /\ interruptions' = 0
  /\ UNCHANGED <<lastBusy, cw, channelBusy, matured>>

\* Broken: the end of the busy period is the end of the last signal.
StayBusy_Shrinks(duration) ==
  /\ lastBusy' = duration
  /\ busyEvent' = IF busyEvent = NotScheduled /\ grantRequested'
                  THEN lastBusy' ELSE busyEvent
  /\ UNCHANGED <<state, deferEvent, backoffEvent, sinceBackoff>>

\* TransitionToBusy in state BUSY.
StayBusy(duration) ==
  /\ lastBusy' = Max({lastBusy, duration})
  /\ busyEvent' = IF busyEvent = NotScheduled /\ grantRequested'
                  THEN lastBusy' ELSE busyEvent
  /\ UNCHANGED <<state, deferEvent, backoffEvent, sinceBackoff>>

\* Broken: a slot that was cut short does not count.
SlotsServed_WholeOnly == sinceBackoff \div Slot

\* Slots served, full and fractional.
SlotsServed == Min({backoffCount, (sinceBackoff + Slot - 1) \div Slot})

\* Broken: the event of the defer time is not cancelled.
GoBusy_KeepsDefer(duration) ==
  /\ backoffCount' = IF state = "WAIT_FOR_BACKOFF" THEN backoffCount - SlotsServed
                     ELSE backoffCount
  /\ backoffEvent' = IF state = "WAIT_FOR_BACKOFF" THEN NotScheduled ELSE backoffEvent
  /\ busyEvent' = duration
  /\ lastBusy' = duration
  /\ sinceBackoff' = 0
  /\ state' = "BUSY"
  /\ UNCHANGED deferEvent

\* TransitionToBusy in the other states.
GoBusy(duration) ==
  /\ backoffCount' = IF state = "WAIT_FOR_BACKOFF" THEN backoffCount - SlotsServed
                     ELSE backoffCount
  /\ deferEvent' = IF state = "WAIT_FOR_DEFER" THEN NotScheduled ELSE deferEvent
  /\ backoffEvent' = IF state = "WAIT_FOR_BACKOFF" THEN NotScheduled ELSE backoffEvent
  /\ busyEvent' = duration
  /\ lastBusy' = duration
  /\ sinceBackoff' = 0
  /\ state' = "BUSY"

\* DoRequestAccess by LteEnbPhy::RequestChannelAccess, which does not ask again
\* while it waits (and would be ignored).
GrantAtOnce ==
  /\ -lastBusy >= Defer
  /\ SetGrant
  /\ UNCHANGED <<backoffCount, sinceBackoff, deferEvent, backoffEvent, busyEvent>>

DrawBackoff ==
  /\ -lastBusy < Defer
  /\ grantRequested' = TRUE
  /\ backoffCount' \in 0 .. cw
  /\ owed' = backoffCount' * Slot
  /\ interruptions' = 0
  /\ CASE state = "IDLE" ->
            /\ deferEvent' = Defer + lastBusy
            /\ state' = "WAIT_FOR_DEFER"
            /\ UNCHANGED <<sinceBackoff, lastBusy, backoffEvent, busyEvent>>
       [] state # "IDLE" /\ lastBusy > 0 ->
            StayBusy(lastBusy)
       [] OTHER ->
            UNCHANGED <<state, sinceBackoff, lastBusy, deferEvent, backoffEvent, busyEvent>>
  /\ UNCHANGED <<cw, txopHistory, channelBusy, matured>>

RequestAccess ==
  /\ ~grantRequested
  /\ \A age \in txopHistory : age >= RequestGap
  /\ GrantAtOnce \/ DrawBackoff

\* TransitionFromBusy
TransitionFromBusy ==
  /\ Due(busyEvent)
  /\ CASE lastBusy > 0 ->
            busyEvent' = lastBusy /\ UNCHANGED <<state, deferEvent>>
       [] lastBusy <= 0 /\ grantRequested ->
            busyEvent' = NotScheduled /\ deferEvent' = Defer /\ state' = "WAIT_FOR_DEFER"
       [] OTHER ->
            busyEvent' = NotScheduled /\ state' = "IDLE" /\ UNCHANGED deferEvent
  /\ UNCHANGED <<backoffCount, grantRequested, sinceBackoff, lastBusy, backoffEvent,
                 cw, txopHistory, historyVars>>

\* RequestAccessAfterDefer: the event does not outlive its state.
RequestAccessAfterDefer ==
  /\ Due(deferEvent)
  /\ deferEvent' = NotScheduled
  /\ IF backoffCount = 0
     THEN SetGrant /\ UNCHANGED <<sinceBackoff, backoffEvent>>
     ELSE /\ sinceBackoff' = 0
          /\ backoffEvent' = backoffCount * Slot
          /\ state' = "WAIT_FOR_BACKOFF"
          /\ UNCHANGED <<grantRequested, lastBusy, cw, txopHistory, historyVars>>
  /\ UNCHANGED <<backoffCount, busyEvent>>

\* Broken: the count is left as it was.
RequestAccessAfterBackoff_KeepsCount ==
  /\ Due(backoffEvent)
  /\ backoffEvent' = NotScheduled
  /\ sinceBackoff' = 0
  /\ SetGrant
  /\ UNCHANGED <<backoffCount, deferEvent, busyEvent>>

\* RequestAccessAfterBackoff
RequestAccessAfterBackoff ==
  /\ Due(backoffEvent)
  /\ backoffEvent' = NotScheduled
  /\ sinceBackoff' = 0
  /\ SetGrant
  /\ backoffCount' = 0
  /\ UNCHANGED <<deferEvent, busyEvent>>

\* NotifyMaybeCcaBusyStartNow, before or after what else is due at the time.
\* Only the end of the backoff comes first: it was scheduled a slot ago or
\* more, and the arrival of the signal when it was sent, which is less.
NotifyMaybeCcaBusyStart ==
  \E duration \in BusyDurations :
    /\ ~Due(backoffEvent)
    /\ IF state = "BUSY"
       THEN StayBusy(duration) /\ UNCHANGED backoffCount
       ELSE GoBusy(duration)
    /\ channelBusy' = Max({channelBusy, duration})
    /\ interruptions' = IF grantRequested /\ channelBusy < -Defer /\ owed > 0
                        THEN interruptions + 1 ELSE interruptions
    /\ UNCHANGED <<grantRequested, cw, txopHistory, owed, matured>>

\* Broken: the TXOPs that were considered stay in the history.
StillExpected_All(age) == TRUE

\* A TXOP whose feedback cannot have come yet.
StillExpected(age) == age < HarqDelay

\* UpdateFailedCw
FailedCw == Min({2 * (cw + 1) - 1, CwMax})

\* UpdateCwBasedOnHarq: only the first feedback after a TXOP is considered, and
\* is lost if it holds neither ACK nor NACK.  Whether there are NACKS enough
\* for UpdateFailedCw is up to the feedback and to m_cwUpdateRule.
UpdateCwBasedOnHarq ==
  /\ \E age \in txopHistory : age >= HarqDelay
  /\ txopHistory' = {age \in txopHistory : StillExpected(age)}
  /\ cw' \in {FailedCw, CwMin, cw}
  /\ matured' = (matured /\ cw' = cw)
  /\ UNCHANGED <<accessVars, channelBusy, owed, interruptions>>

LbtNext ==
  \/ Tick
  \/ RequestAccess
  \/ TransitionFromBusy
  \/ RequestAccessAfterDefer
  \/ RequestAccessAfterBackoff
  \/ NotifyMaybeCcaBusyStart
  \/ UpdateCwBasedOnHarq

LbtSpec == LbtInit /\ [][LbtNext]_lbtVars

\* The simulator runs every event that is scheduled, and time passes.
LbtFairSpec == /\ LbtSpec
               /\ WF_lbtVars(Tick)
               /\ WF_lbtVars(TransitionFromBusy)
               /\ WF_lbtVars(RequestAccessAfterDefer)
               /\ WF_lbtVars(RequestAccessAfterBackoff)

-----------------------------------------------------------------------------
(* Properties.                                                             *)

LbtStates == {"IDLE", "BUSY", "WAIT_FOR_DEFER", "WAIT_FOR_BACKOFF", "TXOP_GRANTED"}

LbtTypeOK ==
  /\ state \in LbtStates
  /\ backoffCount \in 0 .. CwMax
  /\ grantRequested \in BOOLEAN
  /\ matured \in BOOLEAN
  /\ \A event \in Events : event \in Int /\ event >= NotScheduled
  /\ lastBusy \in Int
  /\ channelBusy \in Int
  /\ cw \in CwMin .. CwMax
  /\ txopHistory \subseteq 0 .. HarqExpiry + 1
  /\ sinceBackoff \in Nat
  /\ interruptions \in Nat
  /\ owed \in Int

\* A TXOP that began at this very time.
JustGranted == 0 \in txopHistory

\* A TXOP begins only when the channel has been idle for the whole defer time,
\* whatever busy periods were extended, cut into the defer time or into the
\* backoff, or ended while the request was made.
GrantOnlyAfterDefer ==
  [][~JustGranted /\ JustGranted' => channelBusy <= -Defer]_lbtVars

\* A request that was not granted at once is granted when its backoff has been
\* served in idle time after the defer time: not later than drawn, and earlier
\* only by the rest of a slot for each interruption (TransitionToBusy counts a
\* slot that is cut short).
BackoffIsServed ==
  [][grantRequested /\ ~grantRequested'
       => 0 <= owed /\ owed <= (Slot - 1) * interruptions]_lbtVars

\* The manager waits for exactly one event, the one of its state, and a
\* request always waits for one: what TransitionToBusy cancels is what runs.
RequestIsPending ==
  /\ deferEvent # NotScheduled <=> state = "WAIT_FOR_DEFER"
  /\ backoffEvent # NotScheduled <=> state = "WAIT_FOR_BACKOFF"
  /\ busyEvent # NotScheduled <=> state = "BUSY"
  /\ grantRequested => state \in {"BUSY", "WAIT_FOR_DEFER", "WAIT_FOR_BACKOFF"}

\* The assertions of TransitionToBusy, "was idle but m_backoff nonzero" and
\* timeSinceBackoffStart < m_backoffCount * m_slotTime, hold whenever the PHY
\* may say that the channel is busy.
AssertionsHold ==
  ~Due(backoffEvent) =>
    /\ state = "IDLE" => backoffCount = 0
    /\ state = "WAIT_FOR_BACKOFF" => sinceBackoff < backoffCount * Slot

\* Feedback moves the contention window once for a TXOP: after a move, no
\* other before another TXOP is old enough to have feedback.
CwMovesOncePerTxop == [][cw' # cw => matured]_lbtVars

\* A request is granted as long as the channel is now and then idle for longer
\* than the defer time, however little longer and however it is used between:
\* the count of an interrupted backoff goes down.
RequestIsGranted ==
  []<>(channelBusy < -Defer) => (grantRequested ~> ~grantRequested)

-----------------------------------------------------------------------------
(* Why a TXOP begins only after the defer time: the event that is pending  *)
(* is where the channel says it is.                                        *)

\* What the manager knows of the channel is what the channel is.
KnowsChannel ==
  /\ lastBusy = channelBusy
  /\ lastBusy >= -(Defer + 1)

EventInStep ==
  /\ state = "BUSY" => busyEvent <= lastBusy
  /\ state # "BUSY" => lastBusy <= 0
  /\ state = "WAIT_FOR_DEFER" => deferEvent = Defer + lastBusy
  /\ state = "WAIT_FOR_BACKOFF" => backoffEvent = backoffCount * Slot - sinceBackoff
  /\ state \in {"WAIT_FOR_BACKOFF", "TXOP_GRANTED"} => lastBusy <= -Defer

RequestInStep ==
  /\ ~grantRequested => backoffCount = 0
  /\ state \in {"WAIT_FOR_DEFER", "WAIT_FOR_BACKOFF"} => grantRequested

\* The inductive invariant.
LbtInStep ==
  /\ LbtTypeOK
  /\ RequestIsPending
  /\ KnowsChannel
  /\ EventInStep
  /\ RequestInStep

=============================================================================
