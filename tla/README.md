# A formal model of ns3-lwa-dash-streaming

The repository is an ns-3 simulator (C++ and Python, `src/src/`) with three additions:
LTE-WLAN aggregation (LWA) inside the LTE PDCP, listen before talk for LTE in
the unlicensed band (LAA), and AMuSt, which streams DASH video over HTTP. The
scripts under `src/scratch/dash-*` put them together: a DASH client on a UE that is
also a Wi-Fi station fetches video through an eNodeB that splits each bearer
over LTE and Wi-Fi.

The modules here model the parts of that program that are state machines with
an interleaving worth checking: the LWA bearer end to end, the RLC that is its
LTE path, the RLC with acknowledgements that carries its signalling, the channel
access of LAA, the video download above it, and the two threads of the
visualizer that shows it. Every action is one handler of the
code with all it calls. TLC checks small instances, TLAPS proves theorems
for every value of the constants.

## 1. The system

A simulation is single threaded: the program is a set of objects whose methods run as
events of a simulated clock. There are no data races; what makes the code hard
is the order of events: PDUs that overtake one another, timers that expire
between them, signals that arrive at the time at which something else is due.
The exception is the visualizer, which runs the simulation in a thread of its
own beside the GTK thread.

| component | state it keeps | operations | talks to |
|---|---|---|---|
| PDCP, `LtePdcp` (`lte-pdcp.cc`) | next sequence numbers, HFN, last submitted number, reordering buffer and timer | `DoTransmitPdcpSdu`, `DoReceivePdu`, `ReceiveLwaPacket`, `ExpireReorderingTimer` | RLC below, IP above, trace source `TxPDUtrace` and a socket callback for the WLAN |
| LWA paths (`lwa-dash-simulation.cc`) | a map from RNTI to socket | `LtePdcpLwaHandler`, `Callback_LtePDCPTX`, `NotifyConnectionEstablishedUe` | PDCP's trace at the eNB, PDCP's callback at the UE |
| RLC UM, `LteRlcUm` | transmission buffer and its size, VR(UR), VR(UX), VR(UH), reception buffer, reassembly state, two timers | `DoTransmitPdcpPdu`, `DoNotifyTxOpportunity`, `DoReceivePdu`, the two expiries | PDCP above, MAC below |
| RLC AM, `LteRlcAm` | both windows, transmitted and retransmission buffers, poll and STATUS state, five timers | as above, with STATUS PDUs | PDCP or RRC above, MAC below |
| RLC TM, SM | a queue; none | as above | RRC, MAC |
| RRC, X2, EPC | UE contexts, bearers, handover state | connection, handover, measurement | everything in LTE |
| MAC, schedulers, HARQ, PHY | queues, HARQ processes, resource maps | `SubframeIndication`, schedulers | RLC, PHY |
| LAA, `LbtAccessManager` | state, backoff count, three events, contention window, TXOP history | `DoRequestAccess`, `TransitionToBusy/FromBusy`, `RequestAccessAfterDefer/Backoff`, `UpdateCwBasedOnHarq` | LTE PHY, Wi-Fi PHY, HARQ feedback |
| AMuSt HTTP client and server, DASH player | request string, bytes sent and received, connection state, playback buffer, three timers | `HandleRead`, `HandleReadyToTransmit`, `OnMultimediaFile`, `DownloadSegment`, `DoPlay` | TCP sockets, libdash |
| Visualizer (`core.py`, `pyviz.cc`) | lock, event `go`, target time, pause messages, update timer | `SimulationThread.run`, `update_view_timeout`, the buttons, `_quit` | the simulator, GTK |

What is hard, and what makes each part correct:

* **PDCP with LWA.** Two paths with different delays carry one numbered stream
  of 12-bit sequence numbers. The receiver must infer the hyper frame number,
  tell late PDUs from new ones across the wrap, hand up in order, and wait for
  a gap no longer than its timer. Correct: at most once and in order, only
  late SDUs dropped, nothing stored for ever.
* **RLC UM.** SDUs are cut and joined, PDUs come out of order. Correct: what
  goes up is one SDU, whole; order is kept; nothing is forgotten on either
  side.
* **LBT.** Requests, busy indications and the ends of three waits interleave,
  also at one time. Correct: no grant before the channel has been idle for the defer
  time and the backoff has been served; every request is granted in the end.
* **RLC AM.** Data, polls and STATUS PDUs are lost; copies of a PDU come late.
  Correct: every SDU arrives once and in order, nothing is forgotten before
  it has arrived, and neither side waits for ever.
* **Video download.** Client and server count bytes and keep members from one
  file to the next over one connection; the player puts segments off and
  plays. Correct: a file is what was asked for, whole; segments are played
  once and in order, and all of them.
* **Visualizer.** The GTK thread waits for the simulation by running its main
  loop, so that its handlers nest and the user acts inside them. Correct: no
  pause message is lost, a stopped simulation stops, closing the window ends.
* **PDCP at handover, several UEs.** Not modelled yet, see the plan.

`PROJECT.json` lists every component and every hazard at its line, with the
properties that would catch it going wrong.

## 2. The modules

| module | what it is |
|---|---|
| `LtePdcp` | the two `LtePdcp` entities of one bearer, one operator per handler |
| `LwaBearer` | composes them with the LTE and the WLAN path |
| `OrderedDelivery` | abstract: what a bearer promises the layer above |
| `LteRlcUm` | both sides of `LteRlcUm`, between PDCP and MAC |
| `LbtAccess` | `LbtAccessManager` and the channel |
| `LteRlcAm` | both sides of `LteRlcAm`, between its user and the MAC |
| `DashDownload` | `MultimediaConsumer`, `HttpClientApplication`, `HttpServerFakeClientSocket` and the TCP connection between them |
| `Visualizer` | `SimulationThread` and the GTK thread |
| `LwaBearer_proofs`, `LteRlcAm_proofs`, `LbtAccess_proofs`, `DashDownload_proofs`, `Visualizer_proofs` | theorems about these |
| `LteRlcUm_proofs`, `LteRlcUmStream_proofs` | theorems about `LteRlcUm`: its numbers, and the data in its PDUs |
| `ArithmeticLemmas` | remainders and induction, for the proofs |
| `MCLwaBearer`, `MCLteRlcUm`, `MCLteRlcAm`, `MCLbtAccess`, `MCDashDownload`, `MCVisualizer` | values of constants for TLC |

Operators whose comment begins with "Broken" are plausible bugs of the
definition that follows them; no specification uses them. They are there so
that each property can be seen to fail when the code is wrong
(`PROJECT.json`, `mutants`).

### LtePdcp and LwaBearer

| code | model |
|---|---|
| `m_txSequenceNumber`, `m_packetCounter` | `txSn`, `packetCounter` (its parity) |
| `m_rxSequenceNumber`, `m_rxHfn`, `m_lastSubmittedRxSn` | `rxSn`, `rxHfn`, `lastSubmitted` |
| `m_sdusBuffer` | `sdusBuffer`, a function from COUNT to PDU |
| `m_reorderingTimer`, `m_reorderingRxCount` | `timerRunning`, `reorderingRxCount` |
| `DoTransmitPdcpSdu` | `TransmitPdcpSdu` with `NumberSdu`, `ToLte` |
| `DoReceivePdu` | `DoReceivePdu`: `Discard`, or one of `NextCycle`, `PreviousCycle`, `Ahead`, `Behind`, each followed by `Store` |
| `ExpireReorderingTimer` | `ReorderingTimeout` |
| RLC and radio | `rlcPath`, in order, lossy |
| `LtePdcpLwaHandler`, UDP, Wi-Fi, `ReceiveLwaPacket` | `lwaPath`, any order, lossy |
| `Callback_LtePDCPTX` 100 ms after the connection | `ConnectTrace`; before it what goes to the WLAN is lost |

An SDU is its index in the sent stream, which the code never sees. `guarded`
(what was stored when the timer was started), `handedUp` and `lost` are
history. Integer widths are kept: `m_rxHfn`, `m_reorderingRxCount` are 16 bits wide,
COUNT is 32 bits wide. `m_sdusBuffer.erase (it)` followed by `++it` is undefined behaviour: with
`EraseMayStop` the loop of the expiry may end after any non-empty prefix of
what is due, without it the loop goes on as if the node were still there.

Without `LwaActive` the receiver hands up whatever comes and relies on the
RLC; the model has that branch too (`PassThrough`). It has no run: order then is
an assumption about the path below, and a run of it would only give that back.

### LteRlcUm

A byte is `<<i, k, n>>`, the k-th of the n bytes of SDU i, so that a wrong
join or a lost half shows. `m_txBuffer` is a sequence of entries with the tag
of `LteRlcSduStatusTag`; `NotifyTxOpportunity` takes whole entries and part of
one, and gives the rest back. Header sizes are left out: how many bytes fit is
chosen. `macKnows` says whether the MAC has a queue on record, which the
scheduler may clear. `WastedOpportunity` is a grant of at most two bytes, for
which `DoNotifyTxOpportunity` returns at once: the record is gone, nothing was
sent and no report is scheduled. The receiver keeps its variables as they are;
`SequenceNumber10` comparisons are `Distance` from a modulus base. `PlacePdu`
is 5.1.2.2.3 as the code has it, including the `uint16_t` loop over VR(UR)
that does not wrap. The channel may reorder and lose PDUs and does not
duplicate them (HARQ).

### LteRlcAm

A PDU carries one SDU: cutting and joining are those of `LteRlcUm`. The
variables are those of the code; the buffers are functions from sequence
number to SDU. `DoNotifyTxOpportunity` is `SendStatus` when a STATUS PDU is
due, otherwise `Retransmit` or `TransmitNew`; `WastedOpportunity` is one too small
or with nothing to send. `DoReceivePdu` is `ReceiveData` and `ReceiveStatus`. How
many NACKs fit is chosen, so that a STATUS PDU may be cut short. Data PDUs may be
lost and overtake one another; STATUS PDUs may be lost, and overtake one
another when `StatusOvertakes` is set. `macKnows` and `statusReported` say what
the MAC has on record. `MayTransmit` bounds what is under way; only new PDUs
also wait for old copies (`MayTransmitNew`).

### DashDownload

Data are counted in units: the header of a response is one, a file has
`FileSize` of them, and each unit knows its file, so that bytes of another response
show. The send buffer of the server's socket is `txBuffer`; what the client has
received of it is counted by `arrived`, and a request carries the ACK number of
its segment. `Send` of ns-3 takes a packet whole or not at all, and an ACK
calls the send callback before the data of the same segment are
delivered (`TcpSocketBase`); both are in the model. A request arrives in one
piece. `GivesUp` is the abort of layered content by a stall. It frees the buffer
of the download and leaves `HandleRead` installed, so that a packet that comes
before the next download starts is copied to a null pointer: the program ends
(`Crashed`), and no further step is taken. That libdash is
idle is a step that changes nothing.

### Visualizer

Each line of `SimulationThread.run` at which the other thread can come in is a
step. `frames` is the stack of calls of `update_view_timeout` that wait for the
lock and run the GTK loop; GLib does not call a source that is being called,
so each has its own timer. What is done with the lock held is one step. A run
goes on to its target whatever messages its events leave, as
`SimulatorRunUntil` does not look at the flag that `PyViz::Pause` sets. Pause
messages are counted; `unseen` counts those the user has not been shown,
`pausedRuns` the periods simulated since playing stopped.

### LbtAccess

Times are kept relative to `Simulator::Now ()`, which `Tick` moves; an event is
the time left until it runs. Time does not pass a due event. A busy indication
may come before or after another event of the same time, except before the
end of a backoff: that event was scheduled at least a slot before, the arrival
of a signal at most its propagation time before, and the simulator runs events
of one time in the order in which they were scheduled. `txopHistory` is the set
of the ages of `m_txopHistory`. `channelBusy`, `owed`, `interruptions`,
`matured` are history: what the channel did, how much backoff is still to be
served, how often it was cut short, and whether a TXOP got old enough for
feedback since the contention window moved.

## 3. The runs

| run | bounds | shows |
|---|---|---|
| `split` | 6 numbers, window 3, 11 SDUs, 3 outstanding, both paths, `EraseMayStop` | the inductive invariant `InStep`; order, HFN inference, what the timer releases; the refinement of `OrderedDelivery`, losses and liveness; all with the undefined behaviour of the expiry loop |
| `overrun` | 4 numbers, window 2, 13 SDUs, 4 outstanding, everything over the WLAN | what survives a sender that overruns the window, for more than three cycles |
| `third_cycle` | 4 numbers, 8 SDUs | finding: `=+` loses the HFN at the second in-order wrap |
| `um` | 4 numbers, window 2, 4 SDUs of 1 or 3 bytes, grants of 1 or 2 | whole SDUs, order, drops, what forgets data, liveness, over the wrap |
| `um_gap` | 6 numbers, window 3, gaps of up to 6 PDUs | a gap longer than the window, before the wrap |
| `um_wrap` | as `um` | finding: VR(UR) is set to a received number at the wrap |
| `am` | 4 numbers, window 2, 6 SDUs, 2 data and 2 STATUS PDUs under way, room for 1 or 2 NACKs | no PDU skipped or forgotten, every SDU arrives |
| `am_overtake` | 6 numbers, window 3, 3 SDUs, 3 data and 2 STATUS PDUs under way | finding: a STATUS PDU that a later one overtakes fails an assertion |
| `dash` | 9 segments of 0, 2, 6 and 9 units, send buffer 4, playback buffer 3 | whole files, no missing callback, segments in order, all of them played |
| `dash_abort` | 2 segments, aborts | finding: a file is made up of two responses |
| `visualizer` | 3 timers, simulated time up to 3 periods, up to 2 messages in a run | messages, stopping, timers and quitting with nested waits |
| `lbt` | slot 3, defer 4, window 1 to 5, signals of 1 and 6, feedback after 6 to 9 | channel access and its liveness |

Why these bounds are enough. The arithmetic of the PDCP depends only on the
window being half of the number space; 6 numbers give all four branches of
`DoReceivePdu` on both sides of the wrap, and 11 SDUs are almost two cycles. The
`third_cycle` run has the second wrap. With 4 numbers an `overrun` reaches the
fourth cycle. For the RLC, 4 SDUs of up to 3 bytes in PDUs of at most 2 make up to
twelve PDUs, three cycles of 4 numbers, with first, middle and last segments
and PDUs that join parts of two SDUs. For LBT the slot does not divide the defer time,
one signal is shorter than it and one longer, a backoff of 5 slots can be
interrupted many times, and the feedback of one TXOP can come after the next
TXOP has begun. For RLC AM, 6 SDUs wrap the numbers of a space of 4, so that a late copy meets
its number again. For the download, the sizes make responses that fit the send
buffer, that fill it several times, and that have no body; nine segments fill
the playback buffer. For the visualizer, three timers let a call wait inside a
call with a third one to come. Deadlock is checked for `lbt`; the other runs
end when their SDUs have been dealt with, the video has been played or the
window closed. The simulated time must be longer than the two periods that may
follow a stop.

Bounds that stand for something real: `MaxOutstanding` is the congestion
window of the TCP flow above the bearer. `MaxAhead` says that HARQ has
finished with a PDU before many newer ones have been sent (8 processes, 3
retransmissions, against a window of 512), `MaxGap` that t-Reordering, 100 ms,
ends before that many PDUs are sent. `RequestGap` is one TTI, the least time
between two requests of `LteEnbPhy`. `MayTransmitNew` of `LteRlcAm` says that HARQ
does not keep a copy of a PDU for longer than a window of newer ones.
`InOrderStatus` of the run `am` has no such reason: the code does not keep it, and
the run `am_overtake` is there to show what happens without it.

### Fairness

The simulator runs every event that is scheduled: a PDU under way arrives or
is lost, a running timer expires unless it is cancelled, and time passes
(`Tick`). The MAC serves a queue it has on record in the end, however many grants too
small to use come before, if the record comes back each time
(`SF` of `NotifyTxOpportunity`; the size of a grant follows the channel and the
number of active flows, and is not always too small): data that no record and no report stands for are
not promised to be sent, and `QueuedIsSent` says so. Nothing is assumed of the
sender, of requests, or of signals. In `LteRlcAm` losses end some day, and
the timers, the MAC and the channel go on. TCP delivers and acknowledges in the end. Both
threads of the visualizer are scheduled, GLib calls a timer that stays due, and
the loop over pending GTK events ends, as no timer is due again at once; the
user need do nothing, and `PauseStopsTimers` speaks of a user who leaves the
controls alone from some point on. `RequestIsGranted` has the
channel in its antecedent: if it is idle for longer than the defer time
again and again, a request is granted, however short the idle times are.
`StoredGoesUp` needs no more than the timer.

## 4. The proofs

All theorems hold for every value of the constants that the named assumptions
admit, among them the code's own 4096 and 2048, 1024 and 512.

### LwaBearer

`LwaBearer_proofs`, from the weakest assumptions to the strongest:

* `TypeCorrect` and `StoredAlwaysGuarded` need no condition on the flow. The
  hard cases are the arithmetic of COUNTs and the counts taken modulo 2^16.
* `CountNeverUnderflows`: `m_rxHfn - 1` is never computed from 0. It assumes only
  that fewer SDUs are sent than `m_rxHfn` can count (`HfnFits`; 65536 for the code),
  since a wrapped HFN is 0 again, and with no condition on the flow any PDU may
  be taken for one of the next cycle. `CountsInStep` says that in the first cycle of
  the receiver nothing from beyond it is stored or has gone up, so that no
  number looks like one of the cycle before.
* `InStepCorrect` and from it `DeliveryInOrder`, `CountsArePositions` and
  `OnlyTimerSkips`. In-order delivery is not inductive: whether a PDU may
  go up depends on what its 12 bits mean, hence on how far it can be from
  what the receiver expects. `InStep` says it: every PDU on a path carries the
  number of its position (`PathsInStep`), the receiver's HFN and number are
  the position it expects, at most a window behind the sender
  (`ReceiverInStep`), and what is stored lies between what has gone up and that
  position, under its own position (`BufferInStep`). `WindowIsRight` is the
  heart of it: under `InStep` the modular test `IsOld` is the comparison of
  positions.
* `ExpiryReleases` and `RestartsWhenSubmitted`, from `InStep` and `GuardInStep`:
  what was stored when the timer was started lies below `m_reorderingRxCount`
  as long as the timer runs. `ExpiryReleases` covers both endings of the loop
  over the erased iterator: it goes on, and everything guarded has left the
  buffer, or it stops early, and the oldest have left it and the timer runs for
  the rest.
* `BearerImplementsService`, the refinement of `OrderedDelivery`, step by step
  from `InStep`; and `OnlyLateDropped`, whose inductive form `Accounted` says
  where every SDU is that was sent: lost, on a path, in the buffer, or not later
  than the last one that went up.

From `InStepCorrect` on there are three conditions, and each is needed: `LwaActive`
(without it there is no reordering), `FlowFits` (no more outstanding than the
window; run `overrun` shows what is left without it), `TwoCycles` (the stream
ends before the second wrap, where `=+` loses count; run `third_cycle`).
`Uplink` is free: uplink PDUs all take the LTE path while the receiver still
reorders, a subset of what the WLAN path may do, so it has no run of its own.

### LteRlcUm

Everything but `OnlyStingyGrantForgets` assumes `GapFits`: `MaxAhead <= Window` and
`MaxGap <= Window`. A TTI is 1 ms and a UE gets one RLC PDU of a bearer in it. HARQ
is done with a PDU after about 32 ms and t-Reordering is 100 ms, so that both
are well below the window of 512.

* `LteRlcUm_proofs`, the window. The state holds 10-bit numbers, the
  argument counts PDUs. `WindowInStep` says of which PDU every number is: those
  under way (`ChannelInStep`), VR(UR) and VR(UH) (`EdgesInStep`), those in the
  buffer (`BufferInStep`), and VR(UX), which has the PDU before it in the buffer
  as long as the timer runs (`TimerInStep`). It does not say that VR(UR) is
  missing, which the run that is cut at the wrap makes false; what it says of the
  timer is enough. From it `BufferedIsGuardedAlways`,
  `OutsideIsReassembledAlways`, `TimerMovesOnlyWhenPassedAlways`. Under `GapFits`
  nothing is ever left below the window, which is why the order in which
  `ReassembleOutsideWindow` walks the buffer does no harm; run `um_gap` is about
  longer gaps. `OnlyStingyGrantForgetsAlways` holds for every flow and every grant.
* `LteRlcUmStream_proofs`, the data. A field of a PDU is a part of one SDU, the fields
  of a PDU are a chain of such parts (`Chain`), and the chains of the PDUs under
  way, stored, kept and waiting fit end to start (`PiecesFit`, `Fits`,
  together `StreamInStep`). Cutting and joining are lemmas about chains;
  reassembly is a fold over a run of PDUs in the order of their numbers, which
  the proof takes one PDU at a time. It gives `SdusGoUpWholeAlways`,
  `NoReassemblyErrorAlways` and the refinement `UmImplementsOrderedDelivery`: the
  RLC gives the same service that the bearer above it gives, so `LwaBearer` may
  take its LTE path for a path in order that loses PDUs.
* `OnlyMissedSdusAreDroppedAlways` needs one invariant more, `AllAccounted`:
  that an SDU with a part in a piece is not lost says nothing of its other
  parts. It says of every cut SDU that both halves are there: the half before
  a piece is kept or in an older one, the half after it is in the next one, or a
  PDU with a part of it was missed.

### LteRlcAm

`LteRlcAm_proofs`: `AmInvariantHolds`, and from it `AmNothingIsSkipped`,
`AmForgottenIsReceived`. `AmInvariant` gives every number the
count it stands for: the transmission window is `Lower .. sentPdus`, VR(R) is
`Expected`, VR(MS) and VR(H) lie above it and below what was sent, and the
windows of both sides are at most `Window` apart, so that a residue determines
its count. What is acknowledged follows from what each STATUS PDU under way says:
it names nothing as received that is not (`Reports`), and a PDU in no buffer
of the transmitter has arrived and no report under way misses it (`Forgotten`).

The assumption is `InOrderStatus`: STATUS PDUs may be lost but do not overtake
one another. The code does not ensure it, and without it both theorems are
false (section 5): they say what the procedure gives on a channel that keeps the
order of the reports. The assertion at `lte-rlc-am.cc:1068`, which the code
makes of every STATUS PDU, is therefore no theorem but a finding. Data PDUs
overtake one another as they like.

### LbtAccess

`LbtAccess_proofs`, for every slot, defer time, contention window, request gap and
set of signal durations:

* `LbtInStepCorrect` and from it `RequestsArePending`, `AssertionsAlwaysHold` and
  `GrantsFollowDefer`. `LbtInStep` ties the pending event to the state and to
  the channel: the end of a defer wait is the end of the last busy time plus the
  defer time, the end of a backoff is what is left of it, and a request that is
  not waiting has no backoff.
* `BackoffsAreServed`, from `BackoffInStep`: the idle time the manager will still
  wait for (`Rest`) is at most what is owed, and less by no more than the rest of a
  slot for each interruption. The arithmetic is that of `SlotsServed`, a division
  by the slot time.
* `CwMovesOnce`, from `NoneIsOldEnough`: as long as no TXOP has become old enough
  since the window moved, none in `m_txopHistory` is.

### DashDownload

`DashDownload_proofs`, for all sizes of files, of the buffers and of the playback
buffer and whatever TCP does, with the assumption `NeverAborts` (content that is not
layered; with aborts `WholeFileReceived` is false, run `dash_abort`):

* `PlayerInStepCorrect` and `SegmentsPlayedInOrder`. The invariant says that at
  most one thing goes on with the download at any time (`OneGoesOn`) and how
  many segments are stored then (`StoredInStep`).
* `OneExchangeCorrect`, and from it `WholeFilesReceived` and
  `UnsentIsAlwaysCalledBack`. `OneExchange` says which part of the response is where: what
  the client has read, what is under way and what the server has still to send are
  one run of the response to the file asked for (`RunOfResponse`), the counters
  of both sides count it (`Counted`), and a server with something left to send has
  unacknowledged data whose ACK will call it (`AtRest`). It uses `OneGoesOn`: no
  second request is made while a response is under way.

### Visualizer

`Visualizer_proofs`: `ThreadsInStepCorrect`, and from it `MessagesShownOnce`
and `PausedStopsSoon`, for every number of timers, period and length of
the run. That at most two periods run after a stop is not inductive: it also
takes where the simulation thread is and whether `go` is set (`RunsInStep`), and
that only `_quit` sets `go` while paused.

### How the proofs are laid out, and what is only model-checked

`ArithmeticLemmas` has what several of them need: facts about remainders, least
elements, and `InductionOnSet`, induction for a property written as the set of
numbers that have it. The induction theorems of the library take the property
as an operator, which none of the provers used here can instantiate. With it the
folds over buffers are expanded into their steps.

Every safety invariant, action property and refinement that a passing run checks
is a theorem, under the assumptions above. Only model-checked are the liveness
properties: `StoredGoesUp`, `BufferedIsReassembled`, `QueuedIsSent`, `EverySduArrives`,
`EverySegmentPlayed`, `RequestIsGranted`, `PauseStopsTimers` and `QuitEnds`. They
rest on fairness, hence on ENABLED, which the prover does not handle. So are
what is true beyond an assumption: gaps longer than the window (`um_gap`), and the
findings.

## 5. Findings

* `lte-pdcp.cc:393`: `m_rxHfn =+ 1` assigns 1 instead of adding it. The log
  statement that follows says "Incrementing RxHFN". It does not matter in the first
  wrap. At the second in-order wrap, 8192 PDUs into a bearer, the HFN stays 1
  and the COUNTs of the third cycle repeat those of the second
  (run `third_cycle`).
* `lte-rlc-um.cc:522`: the loop that moves VR(UR) counts in a plain
  `uint16_t`, so a run of received PDUs is cut at number 1023. The comment
  says that VR(UR) becomes the first number not received; run `um_wrap` shows it
  set to 0 with PDU 0 stored. Run `um` shows that t-Reordering makes good for it:
  the SDUs are late, not lost or out of order.
* `lte-rlc-am.cc:1068`: `NS_ASSERT (m_retxBuffer.at (...).m_pdu != 0)` for each NACK
  of a STATUS PDU. The receiver sends a STATUS PDU with NACKs of 0 and 1; PDU 1
  arrives; the next STATUS PDU has a NACK of 0 only, overtakes the first and
  lets the transmitter forget PDU 1; then the first one comes, with a NACK of a
  PDU that is in no buffer (run `am_overtake`). It takes a STATUS PDU that HARQ
  repeats for longer (24 ms) than t-StatusProhibit (10 ms). With assertions
  compiled out the code goes on with an empty entry. STATUS PDUs out of order do
  more: with `StatusOvertakes` TLC also finds `ForgottenIsReceived` violated, since an old
  report that ends below VT(A) acknowledges, in arithmetic based on VT(A),
  everything up to VT(S); with eight SDUs that leads the receiver to skip an SDU
  (`NothingIsSkipped`).
* `http-client.cc:695`: the end of a file is `m_bytesRecv ==
  requested_content_length`, of whatever comes over the connection ("we have
  received the whole file!", line 694). When a stall aborts the download of a
  layered segment (`http-multimedia-consumer.cc:754`), the next one is asked
  for over the same connection, and what was left of the old response is
  counted as the new file (run `dash_abort`). The server, whose
  `m_activeRecvString` still begins with the old request, serves the old file
  a second time.

Not listed as findings, because they have no line that says otherwise, or they need a load beyond what the simulated
radio carries or are outside the bounds: `ReassembleOutsideWindow` walks the
buffer in numeric order, which is not the order of the stream when the window
spans the wrap (`lte-rlc-um.cc:1074`), and needs more than a window of PDUs in
one t-Reordering; `m_reorderingRxCount` is 16 bits wide and is compared with a COUNT
(`lte-pdcp.cc:453`), and needs an HFN of 16, which the first finding
prevents when PDUs are in order; until the first SDU has gone up
`m_lastSubmittedRxSn` is the largest number and every reception restarts
the reordering timer (`lte-pdcp.cc:440`). A grant of less than two bytes clears
the scheduler's record, as `size - rlcOverhead` is unsigned
(`pf-ff-mac-scheduler.cc:2204`), while `DoNotifyTxOpportunity` of the RLC UM returns
before it can schedule a report (`lte-rlc-um.cc:131`), and the one that was
scheduled may have been cancelled (line 118): what is queued then waits until
another SDU comes. A stall of layered content frees the buffer of the download but
leaves its receive callback, and a packet that comes before the next download is
copied to a null pointer (`http-client.cc:343`, `650`). RLC AM has no limit on its
transmission buffer. `ExpireStatusProhibitTimer` does nothing, so a STATUS
PDU that became due meanwhile waits for the next report to the MAC. A connection
closed with an error is not opened again: `TryEstablishConnection` finds
`m_socket` set (`http-client.cc:331`). The samples that `update_model` reads may
be those of a later period, as the idle call comes after the lock is released
(`core.py:678`).

## 6. What is not modelled

Data and formatting: header encoding, packet contents, tags beyond what a
receiver reads, logging and traces. The release of entities (`DoDispose`).
Signal processing, schedulers, EPC signalling and the other parts of ns-3 are
represented by what they do to a PDU: it arrives, late or out of order, or it
is lost. Topology and configuration scripts run once before the simulation
and have no behaviour of their own. libdash is not in the repository. Of the
download: connection errors, missing files, requests that TCP cuts at a line
end, connections that are not kept alive, init segments. Of the visualizer:
drawing, plugins and samples.
`PROJECT.json` gives the reason for each component.

Most Python lines of the repository are generated: the files
`bindings/modulegen__*.py` list the C++ interface of each module for the binding
generator, several hundred thousand lines without behaviour. The rest is build
scripts, the test runner and the visualizer. The behaviour of the program is in
its C++ files, which is where most definitions of the models come from.

## 7. The plan

Done: `OrderedDelivery`, `LtePdcp`, `LwaBearer`, `LteRlcUm`, `LteRlcAm`,
`LbtAccess`, `DashDownload`, `Visualizer`; all their safety properties are
theorems, those of `LteRlcAm` for STATUS PDUs in order. Next, in this order:

1. `LteRlcAm` implements `OrderedDelivery` without losses, from `AmInvariant`:
   what `NothingIsSkipped` says, step by step.
2. `WholeFilesReceived` for layered content up to the first abort, so that the
   theorem says how far `NeverAborts` is needed.
3. What holds of `LteRlcUm` beyond `GapFits`: `SdusGoUpWhole` should not need a bound on
   the gaps before the first wrap.
4. `LwaForwarding`: several UEs and bearers over `lwaSocketMap` and the one
   receive callback of a station (`lwa-dash-simulation.cc:61-144`,
   `lte-pdcp.cc:221`).
5. `PdcpHandover`: composes `LtePdcp` with the RRC's handover steps
   (`lte-enb-rrc.cc:730-749`, `902-918`, `lte-ue-rrc.cc:1100`): forwarding,
   status transfer, new entities, PDUs left on the WLAN path.
6. Connection errors and missing files in `DashDownload`; the job queues of `test.py`.
