------------------------------ MODULE LteRlcAm ------------------------------
(***************************************************************************)
(* The RLC in acknowledged mode, class LteRlcAm of                         *)
(* src/src/lte/model/lte-rlc-am.{h,cc}: the transmitter numbers PDUs and   *)
(* keeps each until a STATUS PDU of the receiver acknowledges it; it sends *)
(* again what is negatively acknowledged, or what has not been             *)
(* acknowledged when the poll-retransmit timer expires.  SRB1 of every UE  *)
(* uses this class, and so does every data bearer without an EPC.          *)
(*                                                                         *)
(* One direction of data is modelled, and a PDU carries one SDU: cutting   *)
(* and joining are as in LteRlcUm.  Below are the MACs, whose HARQ         *)
(* processes lose PDUs and let them overtake one another.                  *)
(***************************************************************************)
EXTENDS Integers, Sequences, FiniteSets, Bags

CONSTANTS
  SnSpace,          \* number of sequence numbers of SequenceNumber10: 1024
  Window,           \* m_windowSize = 512
  StatusOvertakes,  \* a STATUS PDU may overtake another one
  MaxSdus,          \* bound: SDUs in a behaviour
  MaxUnderWay,      \* bound: data PDUs under way
  MaxStatus,        \* bound: STATUS PDUs under way
  MaxNacks          \* bound: NACKs for which a transmission opportunity has room

ASSUME AmSnAssumption ==
  /\ Window \in Nat \ {0}
  /\ SnSpace = 2 * Window

ASSUME AmBoundAssumption ==
  /\ StatusOvertakes \in BOOLEAN
  /\ MaxSdus \in Nat
  /\ {MaxUnderWay, MaxStatus, MaxNacks} \subseteq Nat \ {0}

VARIABLES
  nextSdu,          \* number of SDUs the PDCP has handed down
  sentPdus,         \* number of SDUs that have been put in PDUs
  vtA,              \* m_vtA, lower edge of the transmission window
  vtS,              \* m_vtS, the next sequence number
  txedBuffer,       \* m_txedBuffer: sequence number -> SDU
  retxBuffer,       \* m_retxBuffer
  pollSn,           \* m_pollSn
  pollTimer,        \* m_pollRetransmitTimer.IsRunning ()
  pollExpired,      \* m_pollRetransmitTimerJustExpired
  rbsTimer,         \* m_rbsTimer.IsRunning ()
  macKnows,         \* the MAC has data of the transmitter on record
  channel,          \* bag of data PDUs between the MAC SAPs
  statusChannel,    \* STATUS PDUs between the MAC SAPs, in the order sent
  vrR,              \* m_vrR, lower edge of the reception window
  vrMs,             \* m_vrMs, up to which STATUS PDUs may report
  vrX,              \* m_vrX, what t-Reordering was started for
  vrH,              \* m_vrH, after the highest number received
  rxonBuffer,       \* m_rxonBuffer: sequence number -> SDU
  reorderingTimer,  \* m_reorderingTimer.IsRunning ()
  statusRequested,  \* m_statusPduRequested
  prohibitTimer,    \* m_statusProhibitTimer.IsRunning ()
  statusReported,   \* the MAC has the STATUS PDU on record
  handedUp          \* history: SDUs given to the RLC SAP user

amTxVars == <<nextSdu, sentPdus, vtA, vtS, txedBuffer, retxBuffer, pollSn,
              pollTimer, pollExpired, rbsTimer, macKnows>>
windowVars == <<vrR, vrMs, vrX, vrH, rxonBuffer, reorderingTimer, handedUp>>
amRxVars == <<windowVars, statusRequested, prohibitTimer, statusReported>>
amVars == <<amTxVars, amRxVars, channel, statusChannel>>

AmInit ==
  /\ nextSdu = 0 /\ sentPdus = 0
  /\ vtA = 0 /\ vtS = 0
  /\ txedBuffer = << >> /\ retxBuffer = << >>
  /\ pollSn = 0
  /\ pollTimer = FALSE /\ pollExpired = FALSE
  /\ rbsTimer = FALSE /\ macKnows = FALSE
  /\ channel = EmptyBag
  /\ statusChannel = << >>
  /\ vrR = 0 /\ vrMs = 0 /\ vrX = 0 /\ vrH = 0
  /\ rxonBuffer = << >>
  /\ reorderingTimer = FALSE
  /\ statusRequested = FALSE
  /\ prohibitTimer = FALSE
  /\ statusReported = FALSE
  /\ handedUp = << >>

\* SequenceNumber10: numbers are compared by their distance from a base.
Distance(sn, base) == (sn - base) % SnSpace

\* The numbers from first up to, but without, last.
Interval(first, last) ==
  {(first + k) % SnSpace : k \in 0 .. Distance(last, first) - 1}

Put(buffer, sn, sdu) ==
  [n \in DOMAIN buffer \union {sn} |-> IF n = sn THEN sdu ELSE buffer[n]]
Without(buffer, sns) == [n \in DOMAIN buffer \ sns |-> buffer[n]]

\* The first of a non-empty set of numbers, counted from a base.
FirstFrom(sns, base) ==
  CHOOSE sn \in sns : \A other \in sns : Distance(sn, base) <= Distance(other, base)

-----------------------------------------------------------------------------
(* The transmitter.                                                        *)

Queued == nextSdu - sentPdus

WindowFull == Distance(vtS, vtA) = Window

\* DoReportBufferStatus: nothing is reported when there is nothing.
ReportBufferStatus ==
  macKnows' = (macKnows \/ nextSdu' > sentPdus'
                 \/ DOMAIN txedBuffer' \union DOMAIN retxBuffer' # {})

\* DoTransmitPdcpPdu.
TransmitPdcpPdu ==
  /\ nextSdu < MaxSdus
  /\ nextSdu' = nextSdu + 1
  /\ rbsTimer' = TRUE
  /\ UNCHANGED <<sentPdus, vtA, vtS, txedBuffer, retxBuffer, pollSn, pollTimer,
                 pollExpired, amRxVars, channel, statusChannel>>
  /\ ReportBufferStatus

\* TransmitPdu of the MAC SAP.  A poll (re)starts the poll-retransmit timer.
Send(sn, sdu, poll) ==
  /\ channel' = channel (+) SetToBag({[sn |-> sn, sdu |-> sdu, poll |-> poll]})
  /\ pollExpired' = (pollExpired /\ ~poll)
  /\ pollTimer' = (pollTimer \/ poll)
  /\ pollSn' = IF poll THEN (vtS' - 1) % SnSpace ELSE pollSn

\* DoNotifyTxOpportunity with a PDU to send again: the first one, with a poll
\* when it is all there is, or the window is full, or the timer has expired.
Retransmit ==
  LET sn == FirstFrom(DOMAIN retxBuffer, vtA)
  IN  /\ retxBuffer # << >>
      /\ txedBuffer' = Put(txedBuffer, sn, retxBuffer[sn])
      /\ retxBuffer' = Without(retxBuffer, {sn})
      /\ UNCHANGED <<nextSdu, sentPdus, vtA, vtS, rbsTimer>>
      /\ Send(sn, retxBuffer[sn],
              \/ Queued = 0 /\ DOMAIN retxBuffer = {sn}
              \/ WindowFull
              \/ pollExpired)

\* DoNotifyTxOpportunity with new data only.  m_pollPdu is 1: each new PDU
\* polls.
TransmitNew ==
  /\ retxBuffer = << >>
  /\ Queued > 0
  /\ ~WindowFull
  /\ txedBuffer' = Put(txedBuffer, vtS, sentPdus)
  /\ vtS' = (vtS + 1) % SnSpace
  /\ sentPdus' = sentPdus + 1
  /\ UNCHANGED <<nextSdu, vtA, retxBuffer, rbsTimer>>
  /\ Send(vtS, sentPdus, TRUE)

\* Bound of what is under way.
MayTransmit == BagCardinality(channel) < MaxUnderWay

\* HARQ has delivered a copy of a PDU or given it up before a window of newer
\* PDUs is sent.
MayTransmitNew == \A pdu \in BagToSet(channel) : sentPdus < pdu.sdu + Window

\* DoNotifyTxOpportunity.  What the MAC leaves of its record is up to the
\* scheduler.
NotifyTxOpportunity ==
  /\ macKnows
  /\ MayTransmit
  /\ Retransmit \/ (MayTransmitNew /\ TransmitNew)
  /\ macKnows' \in BOOLEAN
  /\ UNCHANGED <<amRxVars, statusChannel>>

\* An opportunity that is too small for the PDU to be sent again, or comes
\* while nothing can be sent.
WastedOpportunity ==
  /\ macKnows
  /\ retxBuffer # << >> \/ Queued = 0 \/ WindowFull
  /\ macKnows' = FALSE
  /\ UNCHANGED <<nextSdu, sentPdus, vtA, vtS, txedBuffer, retxBuffer, pollSn,
                 pollTimer, pollExpired, rbsTimer, amRxVars, channel, statusChannel>>

\* The numbers that the loop over a STATUS PDU runs through.
Covered(status) ==
  IF Distance(status.ack, vtA) < Distance(vtS, vtA)
  THEN Interval(vtA, status.ack) ELSE Interval(vtA, vtS)

Nacked(status) == Covered(status) \cap status.nacks
Acked(status) == Covered(status) \ status.nacks

\* Broken: any STATUS PDU stops the poll-retransmit timer.
StopsPoll_Always(status) == TRUE

StopsPoll(status) == pollSn \in Covered(status)

\* DoReceivePdu with a STATUS PDU.
HandleStatus(status) ==
  /\ txedBuffer' = Without(txedBuffer, Covered(status))
  /\ retxBuffer' = [n \in (DOMAIN retxBuffer \ Acked(status))
                            \union (DOMAIN txedBuffer \cap Nacked(status)) |->
                      IF n \in DOMAIN txedBuffer THEN txedBuffer[n] ELSE retxBuffer[n]]
  /\ vtA' = IF Nacked(status) # {} THEN FirstFrom(Nacked(status), vtA)
            ELSE (vtA + Cardinality(Covered(status))) % SnSpace
  /\ pollTimer' = (pollTimer /\ ~StopsPoll(status))
  /\ UNCHANGED <<nextSdu, sentPdus, vtS, pollSn, pollExpired, rbsTimer, macKnows>>

\* The STATUS PDUs that may arrive next.
Arriving == {i \in DOMAIN statusChannel : StatusOvertakes \/ i = 1}

Removed(i) ==
  SubSeq(statusChannel, 1, i - 1) \o SubSeq(statusChannel, i + 1, Len(statusChannel))

ReceiveStatus ==
  \E i \in Arriving :
    /\ statusChannel' = Removed(i)
    /\ HandleStatus(statusChannel[i])
    /\ UNCHANGED <<amRxVars, channel>>

\* Broken: what is sent again is not taken out of the other buffer.
StillTxed_All == txedBuffer

StillTxed == << >>

\* ExpirePollRetransmitTimer: when there is nothing else to send, or the window
\* is full, all that has not been acknowledged is sent again.
ExpirePollRetransmitTimer ==
  /\ pollTimer
  /\ pollTimer' = FALSE
  /\ pollExpired' = TRUE
  /\ IF (Queued = 0 /\ retxBuffer = << >>) \/ WindowFull
     THEN /\ retxBuffer' = [n \in DOMAIN retxBuffer \union DOMAIN txedBuffer |->
                              IF n \in DOMAIN txedBuffer THEN txedBuffer[n]
                              ELSE retxBuffer[n]]
          /\ txedBuffer' = StillTxed
     ELSE UNCHANGED <<retxBuffer, txedBuffer>>
  /\ UNCHANGED <<nextSdu, sentPdus, vtA, vtS, pollSn, rbsTimer, amRxVars,
                 channel, statusChannel>>
  /\ ReportBufferStatus

\* ExpireRbsTimer.
ExpireRbsTimer ==
  /\ rbsTimer
  /\ rbsTimer' = (Queued > 0 \/ DOMAIN txedBuffer \union DOMAIN retxBuffer # {})
  /\ macKnows' = (macKnows \/ rbsTimer')
  /\ UNCHANGED <<nextSdu, sentPdus, vtA, vtS, txedBuffer, retxBuffer, pollSn,
                 pollTimer, pollExpired, amRxVars, channel, statusChannel>>

-----------------------------------------------------------------------------
(* The receiver.                                                           *)

\* The first number from sn on that is not in the reception buffer.
FirstMissing(received, sn) ==
  FirstFrom((0 .. SnSpace - 1) \ received, sn)

\* Broken: everything is inside the window.
IsInsideReceivingWindow_Always(sn, lower) == TRUE

IsInsideReceivingWindow(sn, lower) == Distance(sn, lower) < Window

\* 5.1.3.2.2 and 5.1.3.2.3: a PDU inside the window is stored, a run of PDUs
\* that starts at VR(R) goes up, and t-Reordering is stopped and started.
Place(pdu) ==
  LET buffer  == IF pdu.sn \in DOMAIN rxonBuffer THEN rxonBuffer
                 ELSE Put(rxonBuffer, pdu.sn, pdu.sdu)
      upTo    == IF pdu.sn = vrR THEN FirstMissing(DOMAIN buffer, vrR) ELSE vrR
      run     == Interval(vrR, upTo)
      stopped == \/ vrX = upTo
                 \/ /\ ~IsInsideReceivingWindow(vrX, upTo)
                    /\ vrX # (upTo + Window) % SnSpace
      goesOn  == reorderingTimer /\ ~stopped
  IN  /\ vrH' = IF Distance(pdu.sn, vrR) >= Distance(vrH, vrR)
                THEN (pdu.sn + 1) % SnSpace ELSE vrH
      /\ vrMs' = FirstMissing(DOMAIN buffer, vrMs)
      /\ vrR' = upTo
      /\ handedUp' = handedUp \o
           [k \in 1 .. Cardinality(run) |-> buffer[(vrR + k - 1) % SnSpace]]
      /\ rxonBuffer' = Without(buffer, run)
      /\ reorderingTimer' = (goesOn \/ Distance(vrH', upTo) > 0)
      /\ vrX' = IF ~goesOn /\ reorderingTimer' THEN vrH' ELSE vrX

\* DoReceivePdu with a data PDU.
ReceiveData(pdu) ==
  /\ BagIn(pdu, channel)
  /\ channel' = channel (-) SetToBag({pdu})
  /\ statusRequested' = (statusRequested \/ pdu.poll)
  /\ statusReported' = (statusReported \/ (pdu.poll /\ ~prohibitTimer))
  /\ IF IsInsideReceivingWindow(pdu.sn, vrR) THEN Place(pdu) ELSE UNCHANGED windowVars
  /\ UNCHANGED <<prohibitTimer, amTxVars, statusChannel>>

ReceivePdu == \E pdu \in BagToSet(channel) : ReceiveData(pdu)

\* ExpireReorderingTimer (5.1.3.2.4): a STATUS PDU is wanted, but the MAC is
\* not told so.
ExpireReorderingTimer ==
  /\ reorderingTimer
  /\ vrMs' = FirstMissing(DOMAIN rxonBuffer, vrX)
  /\ reorderingTimer' = (Distance(vrH, vrR) > Distance(vrMs', vrR))
  /\ vrX' = IF reorderingTimer' THEN vrH ELSE vrX
  /\ statusRequested' = TRUE
  /\ UNCHANGED <<vrR, vrH, rxonBuffer, handedUp, prohibitTimer, statusReported,
                 amTxVars, channel, statusChannel>>

\* Broken: reports up to the highest number received.
ReportUpTo_Highest == vrH

ReportUpTo == vrMs

\* What a STATUS PDU with room for some NACKs says: the first missing numbers
\* below VR(MS), and the next one that is missing or VR(MS).
Status(room) ==
  LET missing == Interval(vrR, vrMs) \ DOMAIN rxonBuffer
      nacks   == {sn \in missing :
                    Cardinality({n \in missing : Distance(n, vrR) < Distance(sn, vrR)}) < room}
  IN  [nacks |-> nacks,
       ack |-> FirstFrom((missing \ nacks) \union {ReportUpTo}, vrR)]

\* DoNotifyTxOpportunity of the receiver.  It may come for other reasons than
\* the STATUS PDU.
SendStatus ==
  /\ statusRequested
  /\ ~prohibitTimer
  /\ Len(statusChannel) < MaxStatus
  /\ \E room \in 1 .. MaxNacks : statusChannel' = Append(statusChannel, Status(room))
  /\ statusRequested' = FALSE
  /\ statusReported' = FALSE
  /\ prohibitTimer' = TRUE
  /\ UNCHANGED <<windowVars, amTxVars, channel>>

\* ExpireStatusProhibitTimer does nothing.
ExpireStatusProhibitTimer ==
  /\ prohibitTimer
  /\ prohibitTimer' = FALSE
  /\ UNCHANGED <<windowVars, statusRequested, statusReported, amTxVars, channel, statusChannel>>

\* HARQ gives up on a PDU.
LosePdu ==
  \E pdu \in BagToSet(channel) :
    /\ channel' = channel (-) SetToBag({pdu})
    /\ UNCHANGED <<amTxVars, amRxVars, statusChannel>>

LoseStatus ==
  \E i \in DOMAIN statusChannel :
    /\ statusChannel' = Removed(i)
    /\ UNCHANGED <<amTxVars, amRxVars, channel>>

AmNext ==
  \/ TransmitPdcpPdu
  \/ NotifyTxOpportunity
  \/ WastedOpportunity
  \/ ReceiveStatus
  \/ ExpirePollRetransmitTimer
  \/ ExpireRbsTimer
  \/ ReceivePdu
  \/ ExpireReorderingTimer
  \/ SendStatus
  \/ ExpireStatusProhibitTimer
  \/ LosePdu
  \/ LoseStatus

AmSpec == AmInit /\ [][AmNext]_amVars

Lose == LosePdu \/ LoseStatus

\* The simulator runs every timer that is started, HARQ delivers or gives up
\* and in the end gives up no more, and the MAC serves what it has on record
\* and now and then grants enough.
AmFairSpec ==
  /\ AmSpec
  /\ <>[][~Lose]_amVars
  /\ WF_amVars(ReceivePdu \/ ReceiveStatus)
  /\ WF_amVars(ExpirePollRetransmitTimer)
  /\ WF_amVars(ExpireRbsTimer)
  /\ WF_amVars(ExpireReorderingTimer)
  /\ WF_amVars(ExpireStatusProhibitTimer)
  /\ WF_amVars(statusReported /\ SendStatus)
  /\ SF_amVars(NotifyTxOpportunity)

-----------------------------------------------------------------------------
(* Properties.                                                             *)

\* The receiver hands up every SDU once, in the order in which they were
\* handed down and without a gap, whatever is lost, sent twice or overtaken.
NothingIsSkipped == \A k \in DOMAIN handedUp : handedUp[k] = k - 1

\* The transmitter forgets a PDU only when the receiver has it: otherwise the
\* receiver would wait at VR(R) for ever for what nobody sends any more.
ForgottenIsReceived ==
  \A i \in 0 .. sentPdus - 1 :
    \/ \E sn \in DOMAIN txedBuffer : txedBuffer[sn] = i
    \/ \E sn \in DOMAIN retxBuffer : retxBuffer[sn] = i
    \/ \E sn \in DOMAIN rxonBuffer : rxonBuffer[sn] = i
    \/ \E k \in DOMAIN handedUp : handedUp[k] = i

\* The assertion of the loop over a STATUS PDU, for every STATUS PDU that may
\* arrive: what it says is missing is in m_retxBuffer or moved there from
\* m_txedBuffer.  It fails for a STATUS PDU that a later one has overtaken.
NackedIsKept ==
  \A i \in Arriving :
    Nacked(statusChannel[i]) \subseteq DOMAIN txedBuffer \union DOMAIN retxBuffer

\* Every SDU is handed up in the end, although the polls, the STATUS PDUs and
\* the PDUs sent again may be lost many times and the window may be full.
EverySduArrives == <>[](Len(handedUp) = nextSdu)

=============================================================================
