--------------------------- MODULE LbtAccess_proofs ---------------------------
(***************************************************************************)
(* Proofs about LbtAccess: the inductive invariant LbtInStep; that a TXOP  *)
(* begins only when the channel has been idle for the defer time; that a   *)
(* backoff is served as drawn, whatever interrupts it (BackoffInStep); and *)
(* that feedback moves the contention window once for a TXOP.              *)
(***************************************************************************)
EXTENDS LbtAccess, TLAPS

LEMMA MaxOfTwo ==
  ASSUME NEW a \in Int, NEW b \in Int
  PROVE  Max({a, b}) \in Int /\ Max({a, b}) = IF a >= b THEN a ELSE b
<1>1. \E x \in {a, b} : \A y \in {a, b} : x >= y
  OBVIOUS
<1>2. /\ Max({a, b}) \in {a, b}
      /\ \A y \in {a, b} : Max({a, b}) >= y
  BY <1>1 DEF Max
<1> QED BY <1>2

LEMMA MinOfTwo ==
  ASSUME NEW a \in Int, NEW b \in Int
  PROVE  Min({a, b}) \in Int /\ Min({a, b}) = IF a <= b THEN a ELSE b
<1>1. \E x \in {a, b} : \A y \in {a, b} : x <= y
  OBVIOUS
<1>2. /\ Min({a, b}) \in {a, b}
      /\ \A y \in {a, b} : Min({a, b}) <= y
  BY <1>1 DEF Min
<1> QED BY <1>2

LEMMA ProductInNat ==
  ASSUME NEW a \in Nat, NEW b \in Nat
  PROVE  a * b \in Nat
OBVIOUS

LEMMA QuotientInNat ==
  ASSUME NEW a \in Nat, NEW b \in Nat \ {0}
  PROVE  a \div b \in Nat
OBVIOUS

LEMMA LbtConstants ==
  /\ Slot \in Nat /\ Slot > 0 /\ Defer \in Nat /\ Defer > 0
  /\ CwMin \in Nat /\ CwMax \in Nat /\ CwMin <= CwMax
  /\ HarqDelay \in Nat /\ HarqExpiry \in Nat
  /\ \A duration \in BusyDurations : duration \in Nat /\ duration > 0
BY LbtAssumption

\* The types of the variables that hold numbers.
LEMMA LbtNumbers ==
  ASSUME LbtTypeOK
  PROVE  /\ deferEvent \in Int /\ backoffEvent \in Int /\ busyEvent \in Int
         /\ deferEvent >= -1 /\ backoffEvent >= -1 /\ busyEvent >= -1
         /\ lastBusy \in Int /\ channelBusy \in Int /\ owed \in Int
         /\ sinceBackoff \in Nat /\ backoffCount \in Nat /\ backoffCount <= CwMax
         /\ cw \in Nat /\ CwMin <= cw /\ cw <= CwMax
<1>1. \A event \in {deferEvent, backoffEvent, busyEvent} : event \in Int /\ event >= -1
  BY DEF LbtTypeOK, Events, NotScheduled
<1>2. lastBusy \in Int /\ channelBusy \in Int /\ owed \in Int /\ sinceBackoff \in Nat
  BY DEF LbtTypeOK
<1>3. backoffCount \in 0 .. CwMax /\ cw \in CwMin .. CwMax
  BY DEF LbtTypeOK
<1>4. /\ backoffCount \in Nat /\ backoffCount <= CwMax
      /\ cw \in Nat /\ CwMin <= cw /\ cw <= CwMax
  BY <1>3, LbtConstants
<1> QED BY <1>1, <1>2, <1>4

\* The initial state is in step.
LEMMA LbtInitInStep == LbtInit => LbtInStep
<1> SUFFICES ASSUME LbtInit PROVE LbtInStep
  OBVIOUS
<1> USE LbtConstants DEF LbtInit
<1>1. LbtTypeOK
  <2>1. CwMin \in CwMin .. CwMax /\ 0 \in 0 .. CwMax
    OBVIOUS
  <2>2. grantRequested \in BOOLEAN /\ matured \in BOOLEAN
    OBVIOUS
  <2>3. \A event \in Events : event \in Int /\ event >= NotScheduled
    BY DEF Events, NotScheduled
  <2> QED BY <2>1, <2>2, <2>3 DEF LbtTypeOK, LbtStates
<1>2. RequestIsPending
  BY DEF RequestIsPending, NotScheduled
<1>3. KnowsChannel /\ EventInStep
  BY DEF KnowsChannel, EventInStep
<1>4. RequestInStep
  BY DEF RequestInStep
<1> QED BY <1>1, <1>2, <1>3, <1>4 DEF LbtInStep

\* Tick moves the pending event and the channel together.
LEMMA TickInStep == LbtInStep /\ Tick => LbtInStep'
<1> SUFFICES ASSUME LbtInStep, Tick PROVE LbtInStep'
  OBVIOUS
<1> USE LbtConstants
<1>1. /\ deferEvent \in Int /\ backoffEvent \in Int /\ busyEvent \in Int
      /\ lastBusy \in Int /\ channelBusy \in Int
      /\ sinceBackoff \in Nat /\ backoffCount \in Nat /\ owed \in Int
      /\ deferEvent >= -1 /\ backoffEvent >= -1 /\ busyEvent >= -1
      /\ deferEvent # 0 /\ backoffEvent # 0 /\ busyEvent # 0
  <2>1. ~SomethingDue
    BY DEF Tick
  <2>2. deferEvent # 0 /\ backoffEvent # 0 /\ busyEvent # 0
    BY <2>1 DEF SomethingDue, Due, Events
  <2> QED BY <2>2, LbtNumbers DEF LbtInStep
<1>2. /\ deferEvent' = IF deferEvent = -1 THEN -1 ELSE deferEvent - 1
      /\ backoffEvent' = IF backoffEvent = -1 THEN -1 ELSE backoffEvent - 1
      /\ busyEvent' = IF busyEvent = -1 THEN -1 ELSE busyEvent - 1
      /\ lastBusy' = IF lastBusy = -(Defer + 1) THEN lastBusy ELSE lastBusy - 1
      /\ channelBusy' = IF channelBusy = -(Defer + 1) THEN channelBusy ELSE channelBusy - 1
      /\ sinceBackoff' = IF state = "WAIT_FOR_BACKOFF" THEN sinceBackoff + 1 ELSE 0
      /\ state' = state /\ backoffCount' = backoffCount
      /\ grantRequested' = grantRequested
  BY DEF Tick, Later, Older, NotScheduled
<1>3. backoffCount * Slot \in Nat
  BY <1>1, ProductInNat
<1>4. txopHistory' \subseteq 0 .. HarqExpiry + 1
  <2>1. \A age \in txopHistory : Min({age, HarqExpiry}) + 1 \in 0 .. HarqExpiry + 1
    BY MinOfTwo DEF LbtInStep, LbtTypeOK
  <2> QED BY <2>1 DEF Tick
<1>5. LbtTypeOK'
  <2>1. matured' \in BOOLEAN
    BY DEF Tick, LbtInStep, LbtTypeOK
  <2>2. /\ state' \in LbtStates /\ backoffCount' \in 0 .. CwMax /\ cw' \in CwMin .. CwMax
        /\ interruptions' \in Nat /\ grantRequested' \in BOOLEAN
    BY DEF Tick, LbtInStep, LbtTypeOK
  <2>3. owed' \in Int
    BY <1>1 DEF Tick
  <2>4. /\ \A event \in Events' : event \in Int /\ event >= NotScheduled
        /\ lastBusy' \in Int /\ channelBusy' \in Int /\ sinceBackoff' \in Nat
    BY <1>1, <1>2 DEF Events, NotScheduled
  <2> QED BY <1>4, <2>1, <2>2, <2>3, <2>4 DEF LbtTypeOK
<1>6. RequestIsPending'
  BY <1>1, <1>2 DEF LbtInStep, RequestIsPending, NotScheduled
<1>7. KnowsChannel'
  BY <1>1, <1>2 DEF LbtInStep, KnowsChannel
<1>8. EventInStep'
  BY <1>1, <1>2, <1>3 DEF LbtInStep, RequestIsPending, EventInStep, KnowsChannel, NotScheduled
<1>9. RequestInStep'
  BY <1>2 DEF LbtInStep, RequestInStep
<1> QED BY <1>5, <1>6, <1>7, <1>8, <1>9 DEF LbtInStep

\* A grant for which nothing stays scheduled leaves the manager in step.
LEMMA GrantInStep ==
  ASSUME LbtInStep, SetGrant, lastBusy <= -Defer,
         deferEvent' = -1, backoffEvent' = -1, busyEvent' = -1,
         backoffCount' = 0, sinceBackoff' \in Nat
  PROVE  LbtInStep'
<1> USE LbtConstants
<1>1. LbtTypeOK'
  <2>1. txopHistory' \subseteq 0 .. HarqExpiry + 1
    <3>1. txopHistory' \subseteq txopHistory \union {0}
      BY DEF SetGrant
    <3>2. txopHistory \subseteq 0 .. HarqExpiry + 1
      BY DEF LbtInStep, LbtTypeOK
    <3>3. 0 \in 0 .. HarqExpiry + 1
      OBVIOUS
    <3> QED BY <3>1, <3>2, <3>3
  <2>2. grantRequested' \in BOOLEAN /\ matured' \in BOOLEAN
    BY DEF SetGrant, LbtInStep, LbtTypeOK
  <2>3. /\ state' \in LbtStates /\ backoffCount' \in 0 .. CwMax
        /\ \A event \in Events' : event \in Int /\ event >= NotScheduled
        /\ lastBusy' \in Int /\ channelBusy' \in Int /\ cw' \in CwMin .. CwMax
        /\ interruptions' \in Nat /\ owed' \in Int
    BY DEF SetGrant, LbtInStep, LbtTypeOK, LbtStates, Events, NotScheduled
  <2> QED BY <2>1, <2>2, <2>3 DEF LbtTypeOK
<1>2. lastBusy' = lastBusy /\ channelBusy' = channelBusy /\ lastBusy \in Int
  BY LbtNumbers DEF SetGrant, LbtInStep
<1>3. RequestIsPending'
  BY DEF SetGrant, RequestIsPending, NotScheduled
<1>4. KnowsChannel'
  BY <1>2 DEF KnowsChannel, LbtInStep
<1>5. EventInStep'
  BY <1>2 DEF SetGrant, EventInStep
<1>6. RequestInStep'
  BY DEF SetGrant, RequestInStep
<1> QED BY <1>1, <1>3, <1>4, <1>5, <1>6 DEF LbtInStep

\* A channel that has been idle for the defer time is not waited for, and
\* nothing is scheduled unless a request is pending.
LEMMA GrantAtOnceInStep ==
  ASSUME LbtInStep, ~grantRequested, GrantAtOnce
  PROVE  LbtInStep' /\ lastBusy <= -Defer
<1> USE LbtConstants
<1>1. lastBusy <= -Defer /\ lastBusy < 0
  BY LbtNumbers DEF GrantAtOnce, LbtInStep
<1>2. state # "BUSY"
  BY <1>1, LbtNumbers DEF LbtInStep, RequestIsPending, EventInStep, NotScheduled
<1>3. deferEvent = -1 /\ backoffEvent = -1 /\ busyEvent = -1 /\ backoffCount = 0
  BY <1>2 DEF LbtInStep, RequestIsPending, RequestInStep, NotScheduled
<1>4. /\ deferEvent' = -1 /\ backoffEvent' = -1 /\ busyEvent' = -1
      /\ backoffCount' = 0 /\ sinceBackoff' \in Nat /\ SetGrant
  BY <1>3, LbtNumbers DEF GrantAtOnce, LbtInStep
<1> QED BY <1>1, <1>4, GrantInStep

\* A request for which a backoff is drawn waits for an event.
LEMMA DrawBackoffInStep ==
  ASSUME LbtInStep, ~grantRequested, DrawBackoff
  PROVE  LbtInStep'
<1> USE LbtConstants
<1> DEFINE Placed == /\ \A event \in Events' : event \in Int /\ event >= NotScheduled
                     /\ lastBusy' \in Int /\ sinceBackoff' \in Nat /\ state' \in LbtStates
                     /\ RequestIsPending' /\ KnowsChannel' /\ EventInStep'
<1>1. /\ lastBusy \in Int /\ channelBusy \in Int /\ lastBusy = channelBusy
      /\ lastBusy > -Defer /\ grantRequested'
      /\ backoffCount' \in Nat /\ backoffCount' <= CwMax
      /\ channelBusy' = channelBusy
  BY LbtNumbers DEF DrawBackoff, LbtInStep, KnowsChannel
<1>2. state \in {"IDLE", "BUSY"}
  BY <1>1 DEF LbtInStep, LbtTypeOK, LbtStates, RequestInStep, EventInStep
<1>3. ASSUME state = "IDLE" PROVE Placed
  <2>1. /\ deferEvent' = Defer + lastBusy /\ state' = "WAIT_FOR_DEFER"
        /\ sinceBackoff' = sinceBackoff /\ lastBusy' = lastBusy
        /\ backoffEvent' = backoffEvent /\ busyEvent' = busyEvent
    BY <1>3 DEF DrawBackoff
  <2>2. /\ deferEvent' \in Int /\ deferEvent' >= 0
        /\ backoffEvent = -1 /\ busyEvent = -1 /\ lastBusy <= 0
    BY <1>1, <1>3, <2>1 DEF LbtInStep, RequestIsPending, EventInStep, NotScheduled
  <2>3. /\ \A event \in Events' : event \in Int /\ event >= NotScheduled
        /\ lastBusy' \in Int /\ sinceBackoff' \in Nat /\ state' \in LbtStates
    BY <2>1, <2>2, LbtNumbers DEF Events, NotScheduled, LbtStates, LbtInStep
  <2>4. RequestIsPending' /\ KnowsChannel' /\ EventInStep'
    BY <1>1, <2>1, <2>2 DEF RequestIsPending, KnowsChannel, EventInStep, NotScheduled
  <2> QED BY <2>3, <2>4
<1>4. ASSUME state = "BUSY" PROVE Placed
  <2>1. /\ busyEvent # -1 /\ busyEvent <= lastBusy /\ busyEvent >= 0
        /\ deferEvent = -1 /\ backoffEvent = -1
    BY <1>4, LbtNumbers DEF LbtInStep, RequestIsPending, EventInStep, NotScheduled
  <2>2. Max({lastBusy, lastBusy}) = lastBusy
    BY <1>1, MaxOfTwo
  <2>3. /\ state' = state /\ lastBusy' = lastBusy /\ sinceBackoff' = sinceBackoff
        /\ deferEvent' = deferEvent /\ backoffEvent' = backoffEvent
        /\ busyEvent' = busyEvent
    BY <1>4, <2>1, <2>2 DEF DrawBackoff, StayBusy, NotScheduled
  <2>4. /\ \A event \in Events' : event \in Int /\ event >= NotScheduled
        /\ lastBusy' \in Int /\ sinceBackoff' \in Nat /\ state' \in LbtStates
    BY <2>1, <2>3, <1>4, LbtNumbers DEF Events, NotScheduled, LbtStates, LbtInStep
  <2>5. RequestIsPending' /\ KnowsChannel' /\ EventInStep'
    BY <1>1, <1>4, <2>1, <2>3
       DEF RequestIsPending, KnowsChannel, EventInStep, NotScheduled, LbtInStep
  <2> QED BY <2>4, <2>5
<1>5. Placed
  BY <1>2, <1>3, <1>4
<1>6. owed' \in Int /\ interruptions' \in Nat
  BY <1>1, ProductInNat DEF DrawBackoff
<1>7. grantRequested' \in BOOLEAN /\ matured' \in BOOLEAN
  BY DEF DrawBackoff, LbtInStep, LbtTypeOK
<1>8. LbtTypeOK'
  BY <1>1, <1>5, <1>6, <1>7 DEF LbtTypeOK, DrawBackoff, LbtInStep
<1>9. RequestInStep'
  BY <1>1 DEF RequestInStep
<1> QED BY <1>5, <1>8, <1>9 DEF LbtInStep

\* The end of a busy period: it has been extended, or the channel is idle now.
LEMMA FromBusyInStep == LbtInStep /\ TransitionFromBusy => LbtInStep'
<1> SUFFICES ASSUME LbtInStep, TransitionFromBusy PROVE LbtInStep'
  OBVIOUS
<1> USE LbtConstants
<1>1. /\ busyEvent = 0 /\ state = "BUSY" /\ 0 <= lastBusy /\ lastBusy \in Int
      /\ deferEvent = -1 /\ backoffEvent = -1
      /\ lastBusy' = lastBusy /\ channelBusy' = channelBusy
      /\ sinceBackoff' = sinceBackoff /\ backoffEvent' = backoffEvent
  BY LbtNumbers
     DEF TransitionFromBusy, Due, historyVars, LbtInStep, RequestIsPending, EventInStep,
         NotScheduled
<1>2. \/ /\ lastBusy > 0 /\ busyEvent' = lastBusy /\ state' = "BUSY" /\ deferEvent' = -1
      \/ /\ lastBusy = 0 /\ busyEvent' = -1 /\ state' = "WAIT_FOR_DEFER"
         /\ deferEvent' = Defer /\ grantRequested
      \/ /\ lastBusy = 0 /\ busyEvent' = -1 /\ state' = "IDLE" /\ deferEvent' = -1
         /\ ~grantRequested
  BY <1>1 DEF TransitionFromBusy, NotScheduled
<1>3. LbtTypeOK'
  <2>1. /\ \A event \in Events' : event \in Int /\ event >= NotScheduled
        /\ state' \in LbtStates
    BY <1>1, <1>2 DEF Events, NotScheduled, LbtStates
  <2>2. grantRequested' \in BOOLEAN /\ matured' \in BOOLEAN
    BY DEF TransitionFromBusy, historyVars, LbtInStep, LbtTypeOK
  <2> QED BY <2>1, <2>2 DEF TransitionFromBusy, historyVars, LbtInStep, LbtTypeOK
<1>4. RequestIsPending'
  BY <1>1, <1>2 DEF TransitionFromBusy, RequestIsPending, NotScheduled
<1>5. KnowsChannel' /\ EventInStep'
  BY <1>1, <1>2 DEF KnowsChannel, EventInStep, LbtInStep
<1>6. RequestInStep'
  BY <1>2 DEF TransitionFromBusy, RequestInStep, LbtInStep
<1> QED BY <1>3, <1>4, <1>5, <1>6 DEF LbtInStep

\* The end of the defer time: the channel has been idle for all of it.
LEMMA AfterDeferInStep ==
  ASSUME LbtInStep, RequestAccessAfterDefer
  PROVE  LbtInStep' /\ lastBusy = -Defer
<1> USE LbtConstants
<1>1. /\ deferEvent = 0 /\ state = "WAIT_FOR_DEFER" /\ lastBusy = -Defer
      /\ lastBusy \in Int /\ backoffCount \in Nat
      /\ backoffEvent = -1 /\ busyEvent = -1 /\ sinceBackoff \in Nat
      /\ deferEvent' = -1 /\ busyEvent' = -1 /\ backoffCount' = backoffCount
  BY LbtNumbers
     DEF RequestAccessAfterDefer, Due, LbtInStep, RequestIsPending, EventInStep, NotScheduled
<1>2. ASSUME backoffCount = 0 PROVE LbtInStep'
  <2>1. SetGrant /\ sinceBackoff' = sinceBackoff /\ backoffEvent' = -1
    BY <1>1, <1>2 DEF RequestAccessAfterDefer
  <2> QED BY <1>1, <1>2, <2>1, GrantInStep
<1>3. ASSUME backoffCount # 0 PROVE LbtInStep'
  <2>1. /\ sinceBackoff' = 0 /\ backoffEvent' = backoffCount * Slot
        /\ state' = "WAIT_FOR_BACKOFF" /\ lastBusy' = lastBusy
        /\ channelBusy' = channelBusy /\ grantRequested' = grantRequested
    BY <1>3 DEF RequestAccessAfterDefer, historyVars
  <2>2. backoffCount * Slot \in Nat
    BY <1>1, ProductInNat
  <2>3. LbtTypeOK'
    <3>1. /\ \A event \in Events' : event \in Int /\ event >= NotScheduled
          /\ state' \in LbtStates /\ sinceBackoff' \in Nat
      BY <1>1, <2>1, <2>2 DEF Events, NotScheduled, LbtStates
    <3>2. grantRequested' \in BOOLEAN /\ matured' \in BOOLEAN
      BY <1>3 DEF RequestAccessAfterDefer, historyVars, LbtInStep, LbtTypeOK
    <3> QED BY <1>1, <1>3, <3>1, <3>2
            DEF RequestAccessAfterDefer, historyVars, LbtInStep, LbtTypeOK
  <2>4. RequestIsPending'
    BY <1>1, <2>1, <2>2 DEF RequestIsPending, NotScheduled
  <2>5. KnowsChannel'
    BY <2>1 DEF KnowsChannel, LbtInStep
  <2>6. EventInStep'
    BY <1>1, <2>1, <2>2 DEF EventInStep
  <2>7. RequestInStep'
    BY <1>1, <2>1 DEF RequestInStep, LbtInStep
  <2> QED BY <2>3, <2>4, <2>5, <2>6, <2>7 DEF LbtInStep
<1> QED BY <1>1, <1>2, <1>3

\* The end of the backoff: the channel has stayed idle since the defer time.
LEMMA AfterBackoffInStep ==
  ASSUME LbtInStep, RequestAccessAfterBackoff
  PROVE  LbtInStep' /\ lastBusy <= -Defer
<1> USE LbtConstants
<1>1. /\ backoffEvent = 0 /\ state = "WAIT_FOR_BACKOFF" /\ lastBusy <= -Defer
      /\ deferEvent = -1 /\ busyEvent = -1
  BY DEF RequestAccessAfterBackoff, Due, LbtInStep, RequestIsPending, EventInStep, NotScheduled
<1>2. /\ deferEvent' = -1 /\ backoffEvent' = -1 /\ busyEvent' = -1
      /\ backoffCount' = 0 /\ sinceBackoff' \in Nat /\ SetGrant
  BY <1>1 DEF RequestAccessAfterBackoff, NotScheduled
<1> QED BY <1>1, <1>2, GrantInStep

\* The part of an interrupted backoff that is left.
LEMMA SlotsServedBound ==
  ASSUME LbtInStep
  PROVE  backoffCount - SlotsServed \in 0 .. CwMax
<1>1. sinceBackoff + Slot - 1 \in Nat /\ Slot \in Nat \ {0}
  BY LbtNumbers, LbtConstants DEF LbtInStep
<1>2. (sinceBackoff + Slot - 1) \div Slot \in Nat
  BY <1>1, QuotientInNat
<1> DEFINE quotient == (sinceBackoff + Slot - 1) \div Slot
<1>3. backoffCount \in Nat /\ backoffCount <= CwMax /\ CwMax \in Nat
  BY LbtNumbers, LbtConstants DEF LbtInStep
<1>4. SlotsServed = Min({backoffCount, quotient})
  BY DEF SlotsServed
<1>5. quotient \in Nat
  BY <1>2
<1> HIDE DEF quotient
<1>6. SlotsServed = IF backoffCount <= quotient THEN backoffCount ELSE quotient
  BY <1>3, <1>4, <1>5, MinOfTwo
<1> QED BY <1>3, <1>5, <1>6

\* The channel goes busy or stays busy for longer.
LEMMA BusyInStep ==
  ASSUME LbtInStep, NotifyMaybeCcaBusyStart
  PROVE  LbtInStep'
<1> USE LbtConstants
<1>1. PICK duration \in BusyDurations :
        /\ IF state = "BUSY"
           THEN StayBusy(duration) /\ UNCHANGED backoffCount
           ELSE GoBusy(duration)
        /\ channelBusy' = Max({channelBusy, duration})
        /\ grantRequested' = grantRequested
  BY DEF NotifyMaybeCcaBusyStart
<1>2. /\ duration \in Nat /\ duration > 0
      /\ lastBusy \in Int /\ channelBusy = lastBusy /\ lastBusy >= -(Defer + 1)
      /\ channelBusy' = IF lastBusy >= duration THEN lastBusy ELSE duration
      /\ sinceBackoff \in Nat
  BY <1>1, LbtNumbers, MaxOfTwo DEF LbtInStep, KnowsChannel
<1>3. /\ state' = "BUSY" /\ sinceBackoff' \in Nat /\ backoffCount' \in 0 .. CwMax
      /\ lastBusy' = channelBusy'
      /\ deferEvent' = -1 /\ backoffEvent' = -1
      /\ busyEvent' \in Nat /\ busyEvent' <= lastBusy'
      /\ backoffCount = 0 => backoffCount' = 0
  <2>1. CASE state = "BUSY"
    <3>1. /\ deferEvent = -1 /\ backoffEvent = -1 /\ busyEvent \in Nat
          /\ busyEvent <= lastBusy
      BY <2>1, LbtNumbers DEF LbtInStep, RequestIsPending, EventInStep, NotScheduled
    <3>2. StayBusy(duration) /\ backoffCount' = backoffCount
      BY <1>1, <2>1
    <3>3. /\ lastBusy' = channelBusy' /\ busyEvent' = busyEvent
          /\ state' = state /\ deferEvent' = -1 /\ backoffEvent' = -1
          /\ sinceBackoff' = sinceBackoff
      BY <1>1, <1>2, <3>1, <3>2 DEF StayBusy, NotScheduled
    <3>4. backoffCount' \in 0 .. CwMax
      BY <3>2 DEF LbtInStep, LbtTypeOK
    <3> QED BY <1>2, <2>1, <3>1, <3>2, <3>3, <3>4
  <2>2. CASE state # "BUSY"
    <3>1. GoBusy(duration) /\ lastBusy <= 0
      BY <1>1, <2>2 DEF LbtInStep, EventInStep
    <3>2. /\ deferEvent' = -1 /\ backoffEvent' = -1 /\ busyEvent' = duration
          /\ lastBusy' = duration /\ sinceBackoff' = 0 /\ state' = "BUSY"
      BY <3>1, <2>2 DEF GoBusy, LbtInStep, RequestIsPending, NotScheduled
    <3>3. backoffCount' \in 0 .. CwMax
      BY <3>1, SlotsServedBound DEF GoBusy, LbtInStep, LbtTypeOK
    <3>4. backoffCount = 0 => backoffCount' = 0
      <4>1. backoffCount' = backoffCount \/ backoffCount' = backoffCount - SlotsServed
        BY <3>1 DEF GoBusy
      <4>2. ASSUME backoffCount = 0 PROVE backoffCount - SlotsServed = 0
        <5>1. (sinceBackoff + Slot - 1) \div Slot \in Nat
          <6>1. sinceBackoff + Slot - 1 \in Nat /\ Slot \in Nat \ {0}
            BY <1>2
          <6> QED BY <6>1, QuotientInNat
        <5> DEFINE quotient == (sinceBackoff + Slot - 1) \div Slot
        <5>2. quotient \in Nat /\ SlotsServed = Min({0, quotient})
          BY <4>2, <5>1 DEF SlotsServed
        <5> HIDE DEF quotient
        <5>3. SlotsServed = 0
          BY <5>2, MinOfTwo
        <5> QED BY <4>2, <5>3
      <4> QED BY <4>1, <4>2
    <3> QED BY <1>2, <3>1, <3>2, <3>3, <3>4
  <2> QED BY <2>1, <2>2
<1>4. LbtTypeOK'
  <2>1. /\ \A event \in Events' : event \in Int /\ event >= NotScheduled
        /\ state' \in LbtStates /\ lastBusy' \in Int /\ channelBusy' \in Int
    BY <1>2, <1>3 DEF Events, NotScheduled, LbtStates
  <2>2. grantRequested' \in BOOLEAN /\ matured' \in BOOLEAN
    BY DEF NotifyMaybeCcaBusyStart, LbtInStep, LbtTypeOK
  <2>3. interruptions' \in Nat
    BY DEF NotifyMaybeCcaBusyStart, LbtInStep, LbtTypeOK
  <2> QED BY <1>3, <2>1, <2>2, <2>3 DEF NotifyMaybeCcaBusyStart, LbtInStep, LbtTypeOK
<1>5. RequestIsPending'
  BY <1>3 DEF RequestIsPending, NotScheduled
<1>6. KnowsChannel' /\ EventInStep'
  BY <1>2, <1>3 DEF KnowsChannel, EventInStep
<1>7. RequestInStep'
  BY <1>1, <1>3 DEF RequestInStep, LbtInStep
<1> QED BY <1>4, <1>5, <1>6, <1>7 DEF LbtInStep

\* Feedback moves nothing but the contention window and the history.
LEMMA FeedbackInStep == LbtInStep /\ UpdateCwBasedOnHarq => LbtInStep'
<1> SUFFICES ASSUME LbtInStep, UpdateCwBasedOnHarq PROVE LbtInStep'
  OBVIOUS
<1> USE LbtConstants
<1>1. UNCHANGED <<accessVars, channelBusy, owed, interruptions>>
  BY DEF UpdateCwBasedOnHarq
<1>2. cw' \in CwMin .. CwMax
  <2>1. cw \in Nat /\ CwMin <= cw /\ cw <= CwMax
    BY LbtNumbers DEF LbtInStep
  <2>2. FailedCw = IF 2 * (cw + 1) - 1 <= CwMax THEN 2 * (cw + 1) - 1 ELSE CwMax
    BY <2>1, MinOfTwo DEF FailedCw
  <2>3. cw' \in {FailedCw, CwMin, cw}
    BY DEF UpdateCwBasedOnHarq
  <2> QED BY <2>1, <2>2, <2>3
<1>3. matured' \in BOOLEAN
  BY DEF UpdateCwBasedOnHarq, LbtInStep, LbtTypeOK
<1>4. txopHistory' \subseteq 0 .. HarqExpiry + 1
  BY DEF UpdateCwBasedOnHarq, LbtInStep, LbtTypeOK
<1>5. LbtTypeOK'
  BY <1>1, <1>2, <1>3, <1>4 DEF accessVars, LbtInStep, LbtTypeOK, Events
<1>6. RequestIsPending' /\ KnowsChannel' /\ EventInStep' /\ RequestInStep'
  BY <1>1 DEF accessVars, LbtInStep, RequestIsPending, KnowsChannel, EventInStep, RequestInStep
<1> QED BY <1>5, <1>6 DEF LbtInStep

LEMMA LbtNextInStep == LbtInStep /\ [LbtNext]_lbtVars => LbtInStep'
<1> SUFFICES ASSUME LbtInStep, [LbtNext]_lbtVars PROVE LbtInStep'
  OBVIOUS
<1>1. CASE Tick
  BY <1>1, TickInStep
<1>2. CASE RequestAccess
  BY <1>2, GrantAtOnceInStep, DrawBackoffInStep DEF RequestAccess
<1>3. CASE TransitionFromBusy
  BY <1>3, FromBusyInStep
<1>4. CASE RequestAccessAfterDefer
  BY <1>4, AfterDeferInStep
<1>5. CASE RequestAccessAfterBackoff
  BY <1>5, AfterBackoffInStep
<1>6. CASE NotifyMaybeCcaBusyStart
  BY <1>6, BusyInStep
<1>7. CASE UpdateCwBasedOnHarq
  BY <1>7, FeedbackInStep
<1>8. CASE UNCHANGED lbtVars
  BY <1>8
     DEF lbtVars, accessVars, historyVars, LbtInStep, LbtTypeOK, RequestIsPending,
         KnowsChannel, EventInStep, RequestInStep, Events
<1> QED BY <1>1, <1>2, <1>3, <1>4, <1>5, <1>6, <1>7, <1>8 DEF LbtNext

\* The pending event, the request, the channel and the backoff stay in step.
THEOREM LbtInStepCorrect == LbtSpec => []LbtInStep
BY LbtInitInStep, LbtNextInStep, PTL DEF LbtSpec

\* The manager waits for the event of its state and for no other, and no
\* request is left without one (TransitionToBusy, TransitionFromBusy).
THEOREM RequestsArePending == LbtSpec => []RequestIsPending
<1>1. LbtInStep => RequestIsPending
  BY DEF LbtInStep
<1> QED BY <1>1, LbtInStepCorrect, PTL

\* The assertions of TransitionToBusy never fail: a manager that is idle has
\* no backoff left, and an interrupted backoff has not run out.
THEOREM AssertionsAlwaysHold == LbtSpec => []AssertionsHold
<1>1. LbtInStep => AssertionsHold
  <2> SUFFICES ASSUME LbtInStep, ~Due(backoffEvent) PROVE
        /\ state = "IDLE" => backoffCount = 0
        /\ state = "WAIT_FOR_BACKOFF" => sinceBackoff < backoffCount * Slot
    BY DEF AssertionsHold
  <2>1. state = "IDLE" => backoffCount = 0
    BY DEF LbtInStep, RequestIsPending, RequestInStep
  <2>2. ASSUME state = "WAIT_FOR_BACKOFF" PROVE sinceBackoff < backoffCount * Slot
    <3>1. /\ backoffEvent # 0 /\ backoffEvent # -1
          /\ backoffEvent = backoffCount * Slot - sinceBackoff
      BY <2>2 DEF Due, LbtInStep, RequestIsPending, EventInStep,
                  NotScheduled
    <3>2. /\ backoffEvent \in Int /\ backoffEvent >= -1
          /\ sinceBackoff \in Nat /\ backoffCount * Slot \in Nat
      BY LbtNumbers, LbtConstants, ProductInNat DEF LbtInStep
    <3> QED BY <3>1, <3>2
  <2> QED BY <2>1, <2>2
<1> QED BY <1>1, LbtInStepCorrect, PTL

\* A TXOP begins only when the channel has been idle for the defer time
\* (DoRequestAccess, RequestAccessAfterDefer, RequestAccessAfterBackoff).
THEOREM GrantsFollowDefer == LbtSpec => GrantOnlyAfterDefer
<1>1. LbtInStep /\ [LbtNext]_lbtVars
        => [~JustGranted /\ JustGranted' => channelBusy <= -Defer]_lbtVars
  <2> SUFFICES ASSUME LbtInStep, LbtNext, ~JustGranted, JustGranted'
               PROVE  channelBusy <= -Defer
    OBVIOUS
  <2> USE LbtConstants
  <2>1. channelBusy = lastBusy /\ lastBusy \in Int
    BY LbtNumbers DEF LbtInStep, KnowsChannel
  <2>2. CASE Tick
    <3>1. \A age \in txopHistory : Min({age, HarqExpiry}) + 1 # 0
      BY MinOfTwo DEF LbtInStep, LbtTypeOK
    <3> QED BY <2>2, <3>1 DEF Tick, JustGranted
  <2>3. CASE RequestAccess
    <3>1. CASE GrantAtOnce
      BY <2>1, <2>3, <3>1, GrantAtOnceInStep DEF RequestAccess
    <3>2. CASE DrawBackoff
      BY <3>2 DEF DrawBackoff, JustGranted
    <3> QED BY <2>3, <3>1, <3>2 DEF RequestAccess
  <2>4. CASE TransitionFromBusy
    BY <2>4 DEF TransitionFromBusy, JustGranted
  <2>5. CASE RequestAccessAfterDefer
    BY <2>1, <2>5, AfterDeferInStep
  <2>6. CASE RequestAccessAfterBackoff
    BY <2>1, <2>6, AfterBackoffInStep
  <2>7. CASE NotifyMaybeCcaBusyStart
    BY <2>7 DEF NotifyMaybeCcaBusyStart, JustGranted
  <2>8. CASE UpdateCwBasedOnHarq
    BY <2>8 DEF UpdateCwBasedOnHarq, JustGranted
  <2> QED BY <2>2, <2>3, <2>4, <2>5, <2>6, <2>7, <2>8 DEF LbtNext
<1> QED BY <1>1, LbtInStepCorrect, PTL DEF LbtSpec, GrantOnlyAfterDefer

-----------------------------------------------------------------------------
(* How a backoff is served.                                                *)

\* The idle time that the manager still waits for after the defer time.
Rest == IF state = "WAIT_FOR_BACKOFF" THEN backoffCount * Slot - sinceBackoff
        ELSE backoffCount * Slot

\* What is still to be served is what was drawn less what was served, and at
\* most the rest of a slot less for each interruption; the count begins with
\* the end of the defer time.
BackoffInStep ==
  /\ grantRequested => /\ Rest <= owed
                       /\ owed <= Rest + (Slot - 1) * interruptions
  /\ state = "WAIT_FOR_BACKOFF" /\ lastBusy = -Defer => sinceBackoff = 0

\* Products with the slot time, which the provers expand only when told to.
LEMMA SlotProducts ==
  ASSUME NEW s \in Nat \ {0}, NEW i \in Nat, NEW a \in Int, NEW b \in Int
  PROVE  /\ (s - 1) * i \in Nat
         /\ (s - 1) * (i + 1) = (s - 1) * i + (s - 1)
         /\ (a - b) * s = a * s - b * s
         /\ a - b >= 1 => (a - b) * s >= s
         /\ a * s \in Int
<1>1. (s - 1) * i \in Nat
  BY ProductInNat
<1>2. (s - 1) * (i + 1) = (s - 1) * i + (s - 1)
  OBVIOUS
<1>3. (a - b) * s = a * s - b * s /\ a * s \in Int
  OBVIOUS
<1>4. ASSUME a - b >= 1 PROVE (a - b) * s >= s
  <2>1. \A c \in Nat : (c + 1) * s >= s
    <3> TAKE c \in Nat
    <3>1. c * s \in Nat
      BY ProductInNat
    <3>2. (c + 1) * s = c * s + s
      OBVIOUS
    <3> QED BY <3>1, <3>2
  <2>2. (a - b) - 1 \in Nat /\ ((a - b) - 1) + 1 = a - b
    BY <1>4
  <2> QED BY <2>1, <2>2
<1> QED BY <1>1, <1>2, <1>3, <1>4

\* TransitionToBusy rounds the slots that were served up.
LEMMA RoundedUp ==
  ASSUME NEW s \in Nat \ {0}, NEW a \in Nat
  PROVE  /\ (a + s - 1) \div s \in Nat
         /\ a <= ((a + s - 1) \div s) * s
         /\ ((a + s - 1) \div s) * s <= a + (s - 1)
<1> DEFINE b == a + s - 1
           q == b \div s
           r == b % s
<1>1. b \in Nat
  OBVIOUS
<1>2. r \in 0 .. s - 1 /\ q \in Nat /\ b = (s * q) + r
  <2> HIDE DEF b
  <2>1. \A n \in Nat, d \in Nat \ {0} :
           n % d \in 0 .. d - 1 /\ n \div d \in Int /\ n = (d * (n \div d)) + (n % d)
    OBVIOUS
  <2>2. q \in Nat
    BY <1>1, QuotientInNat
  <2> QED BY <1>1, <2>1, <2>2
<1> HIDE DEF q, r
<1>3. s * q = q * s
  BY <1>2
<1>4. q * s \in Nat
  BY <1>2, ProductInNat
<1> DEFINE p == q * s
<1>5. p \in Nat /\ a + s - 1 = p + r
  BY <1>2, <1>3, <1>4
<1> HIDE DEF p
<1>6. a <= p /\ p <= a + (s - 1)
  BY <1>2, <1>5
<1> QED BY <1>2, <1>6 DEF p, q

\* An interruption costs the request what is left of a slot, and only when it
\* comes after the end of the defer time.
LEMMA InterruptionInStep ==
  ASSUME LbtInStep, BackoffInStep, NotifyMaybeCcaBusyStart
  PROVE  BackoffInStep'
<1> USE LbtConstants
<1>1. PICK duration \in BusyDurations :
        /\ IF state = "BUSY"
           THEN StayBusy(duration) /\ UNCHANGED backoffCount
           ELSE GoBusy(duration)
        /\ grantRequested' = grantRequested /\ owed' = owed
        /\ interruptions' = IF grantRequested /\ channelBusy < -Defer /\ owed > 0
                            THEN interruptions + 1 ELSE interruptions
        /\ ~Due(backoffEvent)
  BY DEF NotifyMaybeCcaBusyStart
<1>2. /\ sinceBackoff \in Nat /\ backoffCount \in Nat /\ owed \in Int /\ interruptions \in Nat
      /\ lastBusy \in Int /\ channelBusy = lastBusy /\ lastBusy >= -(Defer + 1)
      /\ Slot \in Nat \ {0}
  BY LbtNumbers DEF LbtInStep, KnowsChannel, LbtTypeOK
<1>3. state' = "BUSY"
  BY <1>1 DEF StayBusy, GoBusy
<1>4. Rest' = backoffCount' * Slot
  BY <1>3 DEF Rest
<1>5. interruptions' \in Nat /\ interruptions' >= interruptions
  BY <1>1, <1>2
<1> DEFINE c == (Slot - 1) * interruptions
           d == (Slot - 1) * interruptions'
<1>6. c \in Nat /\ d \in Nat /\ c <= d
  <2>1. c \in Nat /\ (Slot - 1) * (interruptions + 1) = c + (Slot - 1)
    BY <1>2, SlotProducts
  <2>2. interruptions' = interruptions \/ interruptions' = interruptions + 1
    BY <1>1
  <2>3. d = c \/ d = c + (Slot - 1)
    BY <2>1, <2>2
  <2> HIDE DEF c, d
  <2> QED BY <2>1, <2>3
<1>7. CASE ~grantRequested
  BY <1>1, <1>3, <1>7 DEF BackoffInStep
<1>8. CASE grantRequested /\ state # "WAIT_FOR_BACKOFF"
  <2>1. backoffCount' = backoffCount
    BY <1>1, <1>8 DEF StayBusy, GoBusy
  <2>2. Rest = backoffCount * Slot /\ Rest \in Int
    BY <1>2, <1>8, SlotProducts DEF Rest
  <2>3. Rest' = Rest
    BY <1>4, <2>1, <2>2
  <2>4. Rest <= owed /\ owed <= Rest + c
    BY <1>8 DEF BackoffInStep
  <2> HIDE DEF c, d
  <2>5. Rest <= owed' /\ owed' <= Rest + d
    BY <1>1, <1>2, <1>6, <2>2, <2>4
  <2> QED BY <1>3, <2>3, <2>5 DEF BackoffInStep, d
<1>9. CASE grantRequested /\ state = "WAIT_FOR_BACKOFF"
  <2> DEFINE q == (sinceBackoff + Slot - 1) \div Slot
             total == backoffCount * Slot
             served == q * Slot
  <2>1. /\ q \in Nat /\ sinceBackoff <= served /\ served <= sinceBackoff + (Slot - 1)
    BY <1>2, RoundedUp
  <2>2. Rest = total - sinceBackoff /\ Rest <= owed /\ owed <= Rest + c
    BY <1>9 DEF Rest, BackoffInStep
  <2>3. Rest > 0
    <3>1. backoffEvent = total - sinceBackoff /\ backoffEvent # -1
      BY <1>9 DEF LbtInStep, EventInStep, RequestIsPending, NotScheduled
    <3>2. backoffEvent # 0 /\ backoffEvent >= -1 /\ backoffEvent \in Int
      BY <1>1, LbtNumbers DEF Due, LbtInStep
    <3> QED BY <2>2, <3>1, <3>2
  <2>4. total \in Nat /\ served \in Nat
    BY <1>2, <2>1, ProductInNat
  <2>5. SlotsServed = Min({backoffCount, q})
    BY DEF SlotsServed
  <2> HIDE DEF q
  <2>6. q <= backoffCount
    <3> SUFFICES ASSUME q - backoffCount >= 1
                 PROVE  FALSE
      BY <1>2, <2>1
    <3>1. (q - backoffCount) * Slot = served - total /\ (q - backoffCount) * Slot >= Slot
      BY <1>2, <2>1, SlotProducts
    <3> HIDE DEF served, total
    <3> QED BY <1>2, <2>1, <2>2, <2>3, <2>4, <3>1
  <2>7. SlotsServed = q
    <3>1. SlotsServed = IF backoffCount <= q THEN backoffCount ELSE q
      BY <1>2, <2>1, <2>5, MinOfTwo
    <3> QED BY <1>2, <2>1, <2>6, <3>1
  <2>8. Rest' = total - served
    <3>1. backoffCount' = backoffCount - q
      BY <1>1, <1>9, <2>7 DEF GoBusy
    <3>2. (backoffCount - q) * Slot = total - served
      BY <1>2, <2>1, SlotProducts
    <3> QED BY <1>4, <3>1, <3>2
  <2>9. served = sinceBackoff \/ d = c + (Slot - 1)
    <3>1. CASE lastBusy = -Defer
      <4>1. sinceBackoff = 0
        BY <1>9, <3>1 DEF BackoffInStep
      <4>2. served <= Slot - 1 /\ q * Slot = served
        BY <1>2, <2>1, <4>1
      <4>3. q = 0
        <5> SUFFICES ASSUME q - 0 >= 1
                     PROVE  FALSE
          BY <2>1
        <5>1. (q - 0) * Slot >= Slot /\ q - 0 = q
          BY <1>2, <2>1, SlotProducts
        <5> HIDE DEF served
        <5> QED BY <1>2, <2>4, <4>2, <5>1
      <4>4. served = 0
        BY <1>2, <4>3
      <4> QED BY <4>1, <4>4
    <3>2. CASE lastBusy # -Defer
      <4>1. lastBusy <= -Defer
        BY <1>9 DEF LbtInStep, EventInStep
      <4>2. channelBusy < -Defer /\ owed > 0
        <5> HIDE DEF c, total
        <5> QED BY <1>2, <2>2, <2>3, <2>4, <3>2, <4>1
      <4>3. interruptions' = interruptions + 1
        BY <1>1, <1>9, <4>2
      <4> QED BY <1>2, <4>3, SlotProducts
    <3> QED BY <3>1, <3>2
  <2>10. Rest' <= owed' /\ owed' <= Rest' + d
    <3>1. owed' = owed
      BY <1>1
    <3> HIDE DEF c, d, total, served
    <3> QED BY <1>2, <1>6, <2>1, <2>2, <2>4, <2>8, <2>9, <3>1
  <2> QED BY <1>3, <2>10 DEF BackoffInStep
<1> QED BY <1>7, <1>8, <1>9

\* Idle time is served in WAIT_FOR_BACKOFF and nowhere else.
LEMMA TickServes ==
  ASSUME LbtInStep, BackoffInStep, Tick
  PROVE  BackoffInStep'
<1> USE LbtConstants
<1>1. /\ sinceBackoff \in Nat /\ backoffCount \in Nat /\ owed \in Int /\ interruptions \in Nat
      /\ lastBusy \in Int /\ channelBusy = lastBusy /\ lastBusy >= -(Defer + 1)
      /\ deferEvent \in Int /\ backoffEvent \in Int /\ busyEvent \in Int
      /\ deferEvent >= -1 /\ backoffEvent >= -1 /\ busyEvent >= -1
      /\ deferEvent # 0 /\ backoffEvent # 0 /\ busyEvent # 0
  <2>1. ~SomethingDue
    BY DEF Tick
  <2>2. deferEvent # 0 /\ backoffEvent # 0 /\ busyEvent # 0
    BY <2>1 DEF SomethingDue, Due, Events
  <2> QED BY <2>2, LbtNumbers DEF LbtInStep, KnowsChannel, LbtTypeOK
<1>2. /\ UNCHANGED <<state, backoffCount, grantRequested, interruptions>>
      /\ sinceBackoff' = IF state = "WAIT_FOR_BACKOFF" THEN sinceBackoff + 1 ELSE 0
      /\ lastBusy' = IF lastBusy = -(Defer + 1) THEN lastBusy ELSE lastBusy - 1
      /\ owed' = IF grantRequested /\ channelBusy <= -Defer /\ owed >= 0
                 THEN owed - 1 ELSE owed
  BY DEF Tick, Older
<1> DEFINE total == backoffCount * Slot
           c == (Slot - 1) * interruptions
<1>3. total \in Nat /\ c \in Nat
  <2>1. Slot - 1 \in Nat
    OBVIOUS
  <2> QED BY <1>1, <2>1, ProductInNat
<1>4. CASE state = "WAIT_FOR_BACKOFF"
  <2>1. /\ Rest = total - sinceBackoff /\ Rest' = total - (sinceBackoff + 1)
        /\ lastBusy <= -Defer /\ grantRequested
        /\ backoffEvent = total - sinceBackoff /\ backoffEvent # -1
    BY <1>2, <1>4
       DEF Rest, LbtInStep, EventInStep, RequestInStep, RequestIsPending, NotScheduled
  <2>2. Rest <= owed /\ owed <= Rest + c
    BY <2>1 DEF BackoffInStep
  <2> HIDE DEF total, c
  <2>3. Rest > 0
    BY <1>1, <1>3, <2>1
  <2>4. owed' = owed - 1
    BY <1>1, <1>2, <1>3, <2>1, <2>2, <2>3
  <2>5. Rest' <= owed' /\ owed' <= Rest' + c
    BY <1>1, <1>3, <2>1, <2>2, <2>4
  <2>6. lastBusy' # -Defer
    BY <1>1, <1>2, <2>1
  <2>7. c = (Slot - 1) * interruptions'
    BY <1>2 DEF c
  <2> QED BY <2>5, <2>6, <2>7 DEF BackoffInStep
<1>5. CASE state # "WAIT_FOR_BACKOFF" /\ grantRequested
  <2>1. Rest = total /\ Rest' = total
    BY <1>2, <1>5 DEF Rest
  <2>2. lastBusy > -Defer
    <3>1. state \in {"BUSY", "WAIT_FOR_DEFER"}
      BY <1>5 DEF LbtInStep, RequestIsPending
    <3>2. CASE state = "BUSY"
      <4>1. busyEvent # -1 /\ busyEvent <= lastBusy
        BY <3>2 DEF LbtInStep, RequestIsPending, EventInStep, NotScheduled
      <4> QED BY <1>1, <4>1
    <3>3. CASE state = "WAIT_FOR_DEFER"
      <4>1. deferEvent # -1 /\ deferEvent = Defer + lastBusy
        BY <3>3 DEF LbtInStep, RequestIsPending, EventInStep, NotScheduled
      <4> QED BY <1>1, <4>1
    <3> QED BY <3>1, <3>2, <3>3
  <2>3. owed' = owed
    BY <1>1, <1>2, <2>2
  <2>4. Rest <= owed /\ owed <= Rest + c
    BY <1>5 DEF BackoffInStep
  <2>5. c = (Slot - 1) * interruptions'
    BY <1>2
  <2> HIDE DEF c, total
  <2> QED BY <1>2, <1>5, <2>1, <2>3, <2>4, <2>5 DEF BackoffInStep
<1>6. CASE state # "WAIT_FOR_BACKOFF" /\ ~grantRequested
  BY <1>2, <1>6 DEF BackoffInStep
<1> QED BY <1>4, <1>5, <1>6

\* A request draws what it owes; the other operations leave the rest alone.
LEMMA BackoffStaysInStep ==
  ASSUME LbtInStep, BackoffInStep, [LbtNext]_lbtVars
  PROVE  BackoffInStep'
<1> USE LbtConstants
<1>0. /\ lastBusy \in Int /\ backoffCount \in Nat /\ sinceBackoff \in Nat
      /\ Slot \in Nat \ {0}
  BY LbtNumbers DEF LbtInStep
<1>1. CASE Tick
  BY <1>1, TickServes
<1>2. CASE RequestAccess
  <2>1. CASE GrantAtOnce
    BY <2>1 DEF GrantAtOnce, SetGrant, BackoffInStep
  <2>2. CASE DrawBackoff
    <3>1. state \in {"IDLE", "BUSY"} /\ lastBusy > -Defer
      BY <1>0, <1>2, <2>2
         DEF RequestAccess, DrawBackoff, LbtInStep, LbtTypeOK, LbtStates, RequestInStep,
             EventInStep
    <3>2. state' # "WAIT_FOR_BACKOFF"
      BY <2>2, <3>1 DEF DrawBackoff, StayBusy
    <3>3. /\ owed' = backoffCount' * Slot /\ interruptions' = 0
          /\ backoffCount' \in Nat
      BY <2>2, LbtNumbers DEF DrawBackoff, LbtInStep
    <3>4. Rest' = owed' /\ owed' \in Nat
      BY <1>0, <3>2, <3>3, ProductInNat DEF Rest
    <3>5. (Slot - 1) * interruptions' = 0
      BY <1>0, <3>3
    <3> QED BY <3>2, <3>4, <3>5 DEF BackoffInStep
  <2> QED BY <1>2, <2>1, <2>2 DEF RequestAccess
<1>3. CASE TransitionFromBusy
  <2>1. state = "BUSY"
    BY <1>3 DEF TransitionFromBusy, Due, LbtInStep, RequestIsPending, NotScheduled
  <2>2. state' # "WAIT_FOR_BACKOFF" /\ UNCHANGED <<backoffCount, grantRequested, historyVars>>
    BY <1>3, <2>1 DEF TransitionFromBusy
  <2>3. Rest' = Rest
    BY <2>1, <2>2 DEF Rest
  <2> QED BY <2>2, <2>3 DEF BackoffInStep, historyVars
<1>4. CASE RequestAccessAfterDefer
  <2>1. state = "WAIT_FOR_DEFER"
    BY <1>4 DEF RequestAccessAfterDefer, Due, LbtInStep, RequestIsPending, NotScheduled
  <2>2. CASE backoffCount = 0
    BY <1>4, <2>2 DEF RequestAccessAfterDefer, SetGrant, BackoffInStep
  <2>3. CASE backoffCount # 0
    <3>1. /\ sinceBackoff' = 0 /\ state' = "WAIT_FOR_BACKOFF"
          /\ UNCHANGED <<backoffCount, grantRequested, historyVars>>
      BY <1>4, <2>3 DEF RequestAccessAfterDefer
    <3>2. backoffCount * Slot \in Int
      BY <1>0, ProductInNat
    <3>3. Rest' = backoffCount * Slot - 0 /\ Rest = backoffCount * Slot
      BY <2>1, <3>1 DEF Rest
    <3>4. Rest' = Rest
      BY <3>2, <3>3
    <3> QED BY <3>1, <3>4 DEF BackoffInStep, historyVars
  <2> QED BY <2>2, <2>3
<1>5. CASE RequestAccessAfterBackoff
  BY <1>5 DEF RequestAccessAfterBackoff, SetGrant, BackoffInStep
<1>6. CASE NotifyMaybeCcaBusyStart
  BY <1>6, InterruptionInStep
<1>7. CASE UpdateCwBasedOnHarq
  BY <1>7 DEF UpdateCwBasedOnHarq, accessVars, BackoffInStep, Rest
<1>8. CASE UNCHANGED lbtVars
  BY <1>8 DEF lbtVars, accessVars, historyVars, BackoffInStep, Rest
<1> QED BY <1>1, <1>2, <1>3, <1>4, <1>5, <1>6, <1>7, <1>8 DEF LbtNext

\* The count of the backoff and the time it was served stay in step.
THEOREM BackoffInStepCorrect == LbtSpec => []BackoffInStep
<1>1. LbtInit => BackoffInStep
  BY DEF LbtInit, BackoffInStep
<1> QED BY <1>1, BackoffStaysInStep, LbtInStepCorrect, PTL DEF LbtSpec

\* A request that was not granted at once is granted when its backoff has been
\* served: never later than drawn, and earlier only by the rest of a slot for
\* each time it was interrupted (RequestAccessAfterDefer,
\* RequestAccessAfterBackoff, and the count that TransitionToBusy leaves).
THEOREM BackoffsAreServed == LbtSpec => BackoffIsServed
<1>1. LbtInStep /\ BackoffInStep /\ [LbtNext]_lbtVars
        => [grantRequested /\ ~grantRequested'
              => 0 <= owed /\ owed <= (Slot - 1) * interruptions]_lbtVars
  <2> SUFFICES ASSUME LbtInStep, BackoffInStep, LbtNext, grantRequested, ~grantRequested'
               PROVE  0 <= owed /\ owed <= (Slot - 1) * interruptions
    OBVIOUS
  <2> USE LbtConstants
  <2>1. /\ backoffCount \in Nat /\ sinceBackoff \in Nat /\ owed \in Int
        /\ (Slot - 1) * interruptions \in Int
    <3>1. interruptions \in Nat /\ Slot - 1 \in Nat
      BY DEF LbtInStep, LbtTypeOK
    <3> QED BY <3>1, LbtNumbers, ProductInNat DEF LbtInStep
  <2>2. RequestAccessAfterDefer \/ RequestAccessAfterBackoff
    BY DEF LbtNext, Tick, RequestAccess, TransitionFromBusy, NotifyMaybeCcaBusyStart,
           UpdateCwBasedOnHarq, accessVars
  <2>3. CASE RequestAccessAfterDefer
    <3>1. state = "WAIT_FOR_DEFER"
      BY <2>3 DEF RequestAccessAfterDefer, Due, LbtInStep, RequestIsPending, NotScheduled
    <3>2. backoffCount # 0 => grantRequested' = grantRequested
      BY <2>3 DEF RequestAccessAfterDefer
    <3>3. backoffCount = 0
      BY <3>2
    <3>4. Rest = 0 * Slot /\ 0 * Slot = 0
      BY <3>1, <3>3 DEF Rest
    <3> QED BY <2>1, <3>4 DEF BackoffInStep
  <2>4. CASE RequestAccessAfterBackoff
    <3>1. backoffEvent = 0 /\ state = "WAIT_FOR_BACKOFF"
      BY <2>4 DEF RequestAccessAfterBackoff, Due, LbtInStep, RequestIsPending, NotScheduled
    <3>2. Rest = 0
      BY <3>1 DEF Rest, LbtInStep, EventInStep
    <3> QED BY <2>1, <3>2 DEF BackoffInStep
  <2> QED BY <2>2, <2>3, <2>4
<1> QED BY <1>1, LbtInStepCorrect, BackoffInStepCorrect, PTL DEF LbtSpec, BackoffIsServed

-----------------------------------------------------------------------------
(* When the contention window moves.                                       *)

\* As long as no TXOP has become old enough for feedback, none is.
NoneIsOldEnough == ~matured => \A age \in txopHistory : age < HarqDelay

\* A TXOP becomes old enough by Tick only, which says so in matured, and every
\* feedback that is considered takes those that are out of the history.
LEMMA NoneStaysOldEnough ==
  ASSUME LbtInStep, NoneIsOldEnough, [LbtNext]_lbtVars
  PROVE  NoneIsOldEnough'
<1> USE LbtConstants
<1>0. /\ HarqDelay > 0
      /\ \A age \in txopHistory : age \in Nat
  BY LbtAssumption DEF LbtInStep, LbtTypeOK
<1>1. CASE Tick
  <2> SUFFICES ASSUME ~matured', NEW age \in txopHistory
               PROVE  Min({age, HarqExpiry}) + 1 < HarqDelay
    BY <1>1 DEF Tick, NoneIsOldEnough
  <2>1. ~matured /\ HarqDelay - 1 \notin txopHistory
    BY <1>1 DEF Tick
  <2>2. age \in Nat /\ age < HarqDelay /\ age # HarqDelay - 1
    BY <1>0, <2>1 DEF NoneIsOldEnough
  <2>3. Min({age, HarqExpiry}) \in Int /\ Min({age, HarqExpiry}) <= age
    BY <2>2, MinOfTwo
  <2> QED BY <2>2, <2>3
<1>2. ASSUME SetGrant PROVE NoneIsOldEnough'
  BY <1>0, <1>2 DEF SetGrant, NoneIsOldEnough
<1>3. CASE UpdateCwBasedOnHarq
  BY <1>3 DEF UpdateCwBasedOnHarq, StillExpected, NoneIsOldEnough
<1>4. CASE RequestAccess
  BY <1>2, <1>4 DEF RequestAccess, GrantAtOnce, DrawBackoff, NoneIsOldEnough
<1>5. CASE RequestAccessAfterDefer
  BY <1>2, <1>5 DEF RequestAccessAfterDefer, historyVars, NoneIsOldEnough
<1>6. CASE RequestAccessAfterBackoff
  BY <1>2, <1>6 DEF RequestAccessAfterBackoff
<1>7. CASE TransitionFromBusy
  BY <1>7 DEF TransitionFromBusy, historyVars, NoneIsOldEnough
<1>8. CASE NotifyMaybeCcaBusyStart
  <2>1. matured' = matured
    BY <1>8 DEF NotifyMaybeCcaBusyStart
  <2>2. txopHistory' = txopHistory
    BY <1>8 DEF NotifyMaybeCcaBusyStart
  <2> QED BY <2>1, <2>2 DEF NoneIsOldEnough
<1>9. CASE UNCHANGED lbtVars
  BY <1>9 DEF lbtVars, historyVars, NoneIsOldEnough
<1> QED BY <1>1, <1>3, <1>4, <1>5, <1>6, <1>7, <1>8, <1>9 DEF LbtNext

\* Feedback moves the contention window once for a TXOP: after a move, no other
\* before another TXOP has become old enough to have feedback, however often
\* and with whatever feedback UpdateCwBasedOnHarq is called in between.
THEOREM CwMovesOnce == LbtSpec => CwMovesOncePerTxop
<1>1. LbtInit => NoneIsOldEnough
  BY DEF LbtInit, NoneIsOldEnough
<1>2. LbtInStep /\ NoneIsOldEnough /\ [LbtNext]_lbtVars => [cw' # cw => matured]_lbtVars
  <2> SUFFICES ASSUME LbtInStep, NoneIsOldEnough, LbtNext, cw' # cw
               PROVE  matured
    OBVIOUS
  <2>1. UpdateCwBasedOnHarq
    BY DEF LbtNext, Tick, RequestAccess, GrantAtOnce, DrawBackoff, SetGrant, TransitionFromBusy,
           RequestAccessAfterDefer, RequestAccessAfterBackoff, NotifyMaybeCcaBusyStart
  <2>2. PICK age \in txopHistory : age >= HarqDelay
    BY <2>1 DEF UpdateCwBasedOnHarq
  <2>3. age \in Nat /\ HarqDelay \in Nat
    BY LbtConstants DEF LbtInStep, LbtTypeOK
  <2> QED BY <2>2, <2>3 DEF NoneIsOldEnough
<1> QED BY <1>1, <1>2, NoneStaysOldEnough, LbtInStepCorrect, PTL DEF LbtSpec, CwMovesOncePerTxop

=============================================================================
