------------------------------ MODULE LteRlcUm ------------------------------
(***************************************************************************)
(* The RLC in unacknowledged mode, class LteRlcUm of                       *)
(* src/src/lte/model/lte-rlc-um.{h,cc}: the transmitter cuts and joins the *)
(* SDUs of the PDCP (its PDUs) into RLC PDUs of the size the MAC grants,   *)
(* the receiver puts the RLC PDUs in order with a window, a buffer and a   *)
(* timer, and puts the SDUs together again.  It is the LTE path of a data  *)
(* bearer: with an EPC the helper maps every bearer to this class.         *)
(*                                                                         *)
(* Data are sequences of bytes; a byte is <<i, k, n>>, the k-th of the n   *)
(* bytes of SDU number i.  Below are the MAC and the PHY, whose HARQ       *)
(* processes deliver PDUs out of order and give up on some; they do not    *)
(* duplicate.                                                              *)
(***************************************************************************)
EXTENDS Integers, Sequences, FiniteSets, SequencesExt

CONSTANTS
  SnSpace,          \* number of sequence numbers of SequenceNumber10: 1024
  Window,           \* m_windowSize = 512
  MaxTxBufferSize,  \* m_maxTxBufferSize, in bytes
  SduSizes,         \* sizes of the SDUs the PDCP hands down
  MaxGrant,         \* bound: most data bytes in one transmission opportunity
  MaxSdus,          \* bound: SDUs in a behaviour
  MaxAhead,         \* bound: how far the newest PDU sent is ahead of any PDU
                    \* under way and of the newest PDU received
  MaxGap            \* bound: PDUs sent while t-Reordering waits for one

ASSUME UmSnAssumption ==
  /\ Window \in Nat \ {0, 1}
  /\ SnSpace = 2 * Window

ASSUME UmBoundAssumption ==
  /\ SduSizes \subseteq Nat \ {0}
  /\ MaxTxBufferSize \in Nat
  /\ MaxGrant \in Nat \ {0}
  /\ MaxSdus \in Nat
  /\ {MaxAhead, MaxGap} \subseteq Nat \ {0}

VARIABLES
  nextSdu,       \* number of SDUs the PDCP has handed down
  txBuffer,      \* m_txBuffer: SDUs and the rest of one, each with its tag
  txBufferSize,  \* m_txBufferSize
  txSn,          \* m_sequenceNumber
  rbsTimer,      \* m_rbsTimer.IsRunning ()
  macKnows,      \* the queue size the MAC has on record is not zero
  channel,       \* PDUs between TransmitPdu and ReceivePdu of the MAC SAPs
  vrUr,          \* m_vrUr
  vrUx,          \* m_vrUx
  vrUh,          \* m_vrUh
  rxBuffer,      \* m_rxBuffer: sequence number -> PDU
  timerRunning,  \* m_reorderingTimer.IsRunning ()
  expectedSn,    \* m_expectedSeqNumber
  keepS0,        \* m_keepS0 in state WAITING_SI_SF, << >> in WAITING_S0_FULL
  sdusBuffer,    \* m_sdusBuffer
  sentPdus,      \* history: number of PDUs sent
  received,      \* history: number of the newest PDU received, plus one
  reassembled,   \* history: number of the last PDU reassembled, plus one
  missed,        \* history: SDUs with a part in a PDU that was lost or late
  handedUp       \* history: the packets given to the RLC SAP user

umTxVars == <<nextSdu, txBuffer, txBufferSize, txSn, rbsTimer, macKnows, sentPdus>>
umRxVars == <<vrUr, vrUx, vrUh, rxBuffer, timerRunning, expectedSn, keepS0,
              sdusBuffer, reassembled, handedUp>>
umVars == <<umTxVars, umRxVars, channel, received, missed>>

UmInit ==
  /\ nextSdu = 0
  /\ txBuffer = << >>
  /\ txBufferSize = 0
  /\ txSn = 0
  /\ rbsTimer = FALSE
  /\ macKnows = FALSE
  /\ channel = {}
  /\ vrUr = 0
  /\ vrUx = 0
  /\ vrUh = 0
  /\ rxBuffer = << >>
  /\ timerRunning = FALSE
  /\ expectedSn = 0
  /\ keepS0 = << >>
  /\ sdusBuffer = << >>
  /\ sentPdus = 0
  /\ received = 0
  /\ reassembled = 0
  /\ missed = {}
  /\ handedUp = << >>

-----------------------------------------------------------------------------
(* The transmitter.                                                        *)

Sdu(i, n) == [k \in 1 .. n |-> <<i, k, n>>]

\* Broken: the report is sent before the SDU is queued.
ReportBufferStatus_Stale == macKnows' = (txBuffer # << >>)

\* DoReportBufferStatus: the MAC learns whether anything waits.
ReportBufferStatus == macKnows' = (txBuffer' # << >>)

\* DoTransmitPdcpPdu: an SDU that does not fit is discarded.  The report that
\* is sent here makes the timer for a later one unnecessary.
TransmitPdcpPdu ==
  \E n \in SduSizes :
    /\ nextSdu < MaxSdus
    /\ nextSdu' = nextSdu + 1
    /\ IF txBufferSize + n <= MaxTxBufferSize
       THEN /\ txBuffer' = Append(txBuffer, [data |-> Sdu(nextSdu, n), tag |-> "FULL_SDU"])
            /\ txBufferSize' = txBufferSize + n
            /\ UNCHANGED missed
       ELSE /\ UNCHANGED <<txBuffer, txBufferSize>>
            /\ missed' = missed \union {nextSdu}
    /\ ReportBufferStatus
    /\ rbsTimer' = FALSE
    /\ UNCHANGED <<txSn, sentPdus, umRxVars, channel, received>>

\* Tags of the two parts when an SDU, or the rest of one, is cut.
CutTag(tag) == IF tag = "FULL_SDU" THEN "FIRST_SEGMENT" ELSE "MIDDLE_SEGMENT"

\* Broken: the rest keeps the tag of the SDU it was cut from.
RestTag_Unchanged(tag) == tag

RestTag(tag) == "LAST_SEGMENT"

\* The first whole entries of the transmission buffer and then cut bytes of
\* the next one: what goes into a PDU, and what is given back.
Taken(whole, cut) ==
  SubSeq(txBuffer, 1, whole) \o
    IF cut = 0 THEN << >>
    ELSE <<[data |-> SubSeq(txBuffer[whole + 1].data, 1, cut),
            tag |-> CutTag(txBuffer[whole + 1].tag)]>>

GivenBack(whole, cut) ==
  IF cut = 0 THEN SubSeq(txBuffer, whole + 1, Len(txBuffer))
  ELSE LET entry == txBuffer[whole + 1]
       IN  <<[data |-> SubSeq(entry.data, cut + 1, Len(entry.data)),
              tag |-> RestTag(entry.tag)]>>
             \o SubSeq(txBuffer, whole + 2, Len(txBuffer))

Bytes(entries) == FoldLeft(LAMBDA sum, e : sum + Len(e.data), 0, entries)

SdusOf(fields) == {fields[k][1][1] : k \in DOMAIN fields}

\* The PDU made of the entries; the framing information says whether its data
\* start with the first byte of an SDU and end with the last byte of one.
NewRlcPdu(entries) ==
  [sn |-> txSn,
   nr |-> sentPdus,
   fields |-> [k \in DOMAIN entries |-> entries[k].data],
   firstByte |-> entries[1].tag \in {"FULL_SDU", "FIRST_SEGMENT"},
   lastByte |-> entries[Len(entries)].tag \in {"FULL_SDU", "LAST_SEGMENT"}]

\* HARQ has delivered a PDU or given it up before MaxAhead newer ones are
\* sent, and does not give up that many in a row; t-Reordering, 100 ms, ends
\* before MaxGap PDUs are sent.
MayTransmit ==
  /\ sentPdus < reassembled + MaxGap
  /\ sentPdus < received + MaxAhead
  /\ \A pdu \in channel : sentPdus < pdu.nr + MaxAhead

\* DoNotifyTxOpportunity.  How many bytes fit is up to the grant and the
\* headers; what the MAC leaves of its record when data remain is up to the
\* scheduler.  A record that outlasts the data, because a report counts two
\* more bytes for each SDU, is taken for cleared: until the next report, which
\* overwrites it, it leads only to grants for which no data are pending.
NotifyTxOpportunity ==
  \E whole \in 0 .. Len(txBuffer), cut \in 0 .. MaxGrant :
    /\ macKnows
    /\ MayTransmit
    /\ cut > 0 => whole < Len(txBuffer) /\ cut < Len(txBuffer[whole + 1].data)
    /\ Taken(whole, cut) # << >>
    /\ Bytes(Taken(whole, cut)) <= MaxGrant
    /\ txBuffer' = GivenBack(whole, cut)
    /\ txBufferSize' = txBufferSize - Bytes(Taken(whole, cut))
    /\ channel' = channel \union {NewRlcPdu(Taken(whole, cut))}
    /\ txSn' = (txSn + 1) % SnSpace
    /\ sentPdus' = sentPdus + 1
    /\ rbsTimer' = (rbsTimer \/ txBuffer' # << >>)
    /\ macKnows' \in {FALSE, txBuffer' # << >>}
    /\ UNCHANGED <<nextSdu, received, missed, umRxVars>>

\* DoNotifyTxOpportunity when it is given at most two bytes, "Stingy MAC": it
\* returns at once and schedules no report.  A grant of less than the two bytes
\* of overhead that the scheduler subtracts, unsigned, has cleared its record;
\* one of two bytes changes nothing.
WastedOpportunity ==
  /\ macKnows
  /\ macKnows' = FALSE
  /\ UNCHANGED <<nextSdu, txBuffer, txBufferSize, txSn, rbsTimer, sentPdus,
                 umRxVars, channel, received, missed>>

\* Broken: the timer is started again and nothing is reported.
ExpireRbsTimer_NoReport ==
  /\ rbsTimer
  /\ rbsTimer' = (txBuffer # << >>)
  /\ UNCHANGED <<nextSdu, txBuffer, txBufferSize, txSn, sentPdus, macKnows,
                 umRxVars, channel, received, missed>>

\* ExpireRbsTimer
ExpireRbsTimer ==
  /\ rbsTimer
  /\ rbsTimer' = (txBuffer # << >>)
  /\ macKnows' = (macKnows \/ txBuffer # << >>)
  /\ UNCHANGED <<nextSdu, txBuffer, txBufferSize, txSn, sentPdus,
                 umRxVars, channel, received, missed>>

-----------------------------------------------------------------------------
(* The receiver.  Sequence numbers are compared by their distance from a   *)
(* modulus base, the lower edge of the window when its upper edge is uh.   *)

LowerEdge(uh) == (uh - Window) % SnSpace
Distance(sn, base) == (sn - base) % SnSpace
IsInsideReorderingWindow(sn, uh) == Distance(sn, LowerEdge(uh)) < Window

\* The state ReassembleAndDeliver works on.
Reassembly == [expected |-> expectedSn, keep |-> keepS0, sdus |-> sdusBuffer,
               upTo |-> reassembled, up |-> handedUp]

NoLoss(r, pdu) == pdu.sn = r.expected

\* The fields of a PDU after what was kept of an SDU.
Joined(r, fields) == <<r.keep \o Head(fields)>> \o Tail(fields)

\* The fields of a PDU without one that does not start an SDU.
FromFirstStart(fields, pdu) == IF pdu.firstByte THEN fields ELSE Tail(fields)

\* Hand up the fields, or keep the last one if it does not end its SDU.
DeliverAndKeep(r, fields, pdu) ==
  LET closed == pdu.lastByte \/ fields = << >>
  IN  [r EXCEPT !.sdus = << >>,
                !.keep = IF closed THEN << >> ELSE Last(fields),
                !.up = r.up \o (IF closed THEN fields ELSE Front(fields))]

\* Broken: what was kept is joined with what follows a gap.
WholeFields_JoinedOverGap(r, fields, pdu) ==
  IF r.keep # << >> THEN Joined(r, fields) ELSE FromFirstStart(fields, pdu)

WholeFields(r, fields, pdu) ==
  IF NoLoss(r, pdu) /\ r.keep # << >>
  THEN Joined(r, fields) ELSE FromFirstStart(fields, pdu)

\* ReassembleAndDeliver: what was kept of an SDU is joined with the first
\* field when no PDU is missing in between.  Without a gap, a PDU that starts
\* an SDU while the rest of another is awaited is an internal error: its
\* fields stay in m_sdusBuffer.
ReassembleAndDeliver(r, pdu) ==
  LET fields   == r.sdus \o pdu.fields
      next     == [r EXCEPT !.expected = (pdu.sn + 1) % SnSpace, !.upTo = pdu.nr + 1]
      possible == NoLoss(r, pdu) /\ r.keep # << >> => ~pdu.firstByte
  IN  IF possible THEN DeliverAndKeep(next, WholeFields(r, fields, pdu), pdu)
      ELSE [next EXCEPT !.sdus = fields]

\* The numbers in their order from the modulus base on.
Sorted(sns, base) ==
  CHOOSE order \in [1 .. Cardinality(sns) -> sns] :
    \A i, j \in DOMAIN order : i < j => Distance(order[i], base) < Distance(order[j], base)

\* Reassemble the PDUs with the numbers in order, in their order, and keep the
\* PDUs with the numbers in stored.
ReassembleAll(buffer, order, stored) ==
  \E r \in {FoldLeft(LAMBDA acc, sn : ReassembleAndDeliver(acc, buffer[sn]),
                     Reassembly, order)} :
      /\ expectedSn' = r.expected
      /\ keepS0' = r.keep
      /\ sdusBuffer' = r.sdus
      /\ reassembled' = r.upTo
      /\ handedUp' = r.up
      /\ rxBuffer' = [sn \in stored |-> buffer[sn]]

\* Broken: the last number of the interval is left out.
SnInterval_OffByOne(sns, low, high, base) ==
  {sn \in sns : /\ Distance(low, base) <= Distance(sn, base)
                /\ Distance(sn, base) + 1 < Distance(high, base)}

\* The buffered numbers that ReassembleSnInterval takes, from low up to, but
\* not including, high.
SnInterval(sns, low, high, base) ==
  {sn \in sns : /\ Distance(low, base) <= Distance(sn, base)
                /\ Distance(sn, base) < Distance(high, base)}

\* Broken: one PDU at most is taken.
OutsideWindow_OnlyOne(sns, uh) ==
  {sn \in sns : ~IsInsideReorderingWindow(sn, uh) /\ \A s \in sns : sn <= s}

\* The buffered numbers that ReassembleOutsideWindow takes: it goes through
\* the map in numeric order and stops at the first number inside the window.
OutsideWindow(sns, uh) ==
  {sn \in sns : \A s \in sns : s <= sn => ~IsInsideReorderingWindow(s, uh)}

\* VR(UR) after the run of received numbers that starts with it: the loop
\* counts in a uint16_t, which does not wrap with the sequence numbers.
FirstMissingFrom(sns, ur) ==
  (CHOOSE n \in ur + 1 .. SnSpace :
     n \notin sns /\ \A k \in ur .. n - 1 : k \in sns) % SnSpace

\* Broken: the window is not looked at, only what is stored.
Discarded_OnlyDuplicates(sn) == sn \in DOMAIN rxBuffer

\* Broken: VR(UR) itself is taken for old.
Discarded_TooWide(sn) ==
  Distance(sn, LowerEdge(vrUh)) <= Distance(vrUr, LowerEdge(vrUh))

\* The PDU was received before, or is below VR(UR).
Discarded(sn) ==
  LET base == LowerEdge(vrUh)
  IN  \/ /\ Distance(vrUr, base) < Distance(sn, base)
         /\ Distance(sn, base) < Distance(vrUh, base)
         /\ sn \in DOMAIN rxBuffer
      \/ Distance(sn, base) < Distance(vrUr, base)

\* Broken: VR(UX) is compared with VR(UH).
StopsTimer_AtUh(ur, uh) == Distance(vrUx, LowerEdge(uh)) <= Distance(uh, LowerEdge(uh))

\* t-Reordering is stopped for a new VR(UR) and VR(UH).
StopsTimer(ur, uh) ==
  \/ Distance(vrUx, LowerEdge(uh)) <= Distance(ur, LowerEdge(uh))
  \/ ~IsInsideReorderingWindow(vrUx, uh) /\ vrUx # uh

\* There is something for t-Reordering to wait for: VR(UH) > VR(UR).
Waits(ur, uh) == Distance(uh, LowerEdge(uh)) > Distance(ur, LowerEdge(uh))

\* Place a PDU in the reception buffer and act on it (5.1.2.2.3).
PlacePdu(pdu) ==
  LET buffer  == [sn \in DOMAIN rxBuffer \union {pdu.sn} |->
                    IF sn = pdu.sn THEN pdu ELSE rxBuffer[sn]]
      inside  == IsInsideReorderingWindow(pdu.sn, vrUh)
      early   == IF inside THEN {} ELSE OutsideWindow(DOMAIN buffer, vrUh')
      left    == DOMAIN buffer \ early
      moved   == ~inside /\ ~IsInsideReorderingWindow(vrUr, vrUh')
      ur      == IF moved THEN LowerEdge(vrUh') ELSE vrUr
      base    == LowerEdge(IF moved THEN vrUh' ELSE vrUh)
      run     == IF ur \in left THEN SnInterval(left, ur, vrUr', base) ELSE {}
      stops   == timerRunning => StopsTimer(vrUr', vrUh')
  IN  /\ vrUh' = IF inside THEN vrUh ELSE (pdu.sn + 1) % SnSpace
      /\ vrUr' = IF ur \in left THEN FirstMissingFrom(left, ur) ELSE ur
      /\ ReassembleAll(buffer, Sorted(early, 0) \o Sorted(run, base), left \ run)
      /\ timerRunning' = (stops => Waits(vrUr', vrUh'))
      /\ vrUx' = IF stops /\ Waits(vrUr', vrUh') THEN vrUh' ELSE vrUx

\* DoReceivePdu
ReceivePdu ==
  \E pdu \in channel :
    /\ channel' = channel \ {pdu}
    /\ received' = Max({received, pdu.nr + 1})
    /\ missed' = IF pdu.nr < reassembled
                 THEN missed \union SdusOf(pdu.fields) ELSE missed
    /\ IF Discarded(pdu.sn) THEN UNCHANGED umRxVars ELSE PlacePdu(pdu)
    /\ UNCHANGED umTxVars

\* HARQ gives up on a PDU.
LosePdu ==
  \E pdu \in channel :
    /\ pdu.nr + 1 < received + MaxAhead
    /\ channel' = channel \ {pdu}
    /\ missed' = missed \union SdusOf(pdu.fields)
    /\ UNCHANGED <<umTxVars, umRxVars, received>>

\* ExpireReorderingTimer (5.1.2.2.4)
ExpireReorderingTimer ==
  LET base  == LowerEdge(vrUh)
      steps == CHOOSE n \in 0 .. SnSpace :
                 /\ (vrUx + n) % SnSpace \notin DOMAIN rxBuffer
                 /\ \A k \in 0 .. n - 1 : (vrUx + k) % SnSpace \in DOMAIN rxBuffer
      run   == SnInterval(DOMAIN rxBuffer, vrUr, vrUr', base)
  IN  /\ timerRunning
      /\ vrUr' = (vrUx + steps) % SnSpace
      /\ ReassembleAll(rxBuffer, Sorted(run, base), DOMAIN rxBuffer \ run)
      /\ timerRunning' = Waits(vrUr', vrUh)
      /\ vrUx' = IF timerRunning' THEN vrUh ELSE vrUx
      /\ UNCHANGED <<vrUh, umTxVars, channel, received, missed>>

UmNext ==
  \/ TransmitPdcpPdu
  \/ NotifyTxOpportunity
  \/ WastedOpportunity
  \/ ExpireRbsTimer
  \/ ReceivePdu
  \/ LosePdu
  \/ ExpireReorderingTimer

UmSpec == UmInit /\ [][UmNext]_umVars

\* A MAC that has data on record again and again grants more than two bytes
\* in the end: strong fairness, because a stingy grant may clear the record in
\* between.  The simulator runs every event that is scheduled: weak fairness of
\* three actions.  ReceivePdu is enabled when a PDU is under way and
\* ExpireReorderingTimer when the timer runs, and both always change a
\* variable; for them it is written out.
UmFairSpec == /\ UmSpec
              /\ SF_umVars(NotifyTxOpportunity)
              /\ WF_umVars(ExpireRbsTimer)
              /\ []<>(channel = {}) \/ []<><<ReceivePdu>>_umVars
              /\ []<>~timerRunning \/ []<><<ExpireReorderingTimer>>_umVars

-----------------------------------------------------------------------------
(* Properties.                                                             *)

\* What DoNotifyTxOpportunity cuts and ReassembleAndDeliver joins comes out as
\* it went in: every packet handed to the PDCP is one SDU, whole, with its
\* bytes in order, whatever PDUs are lost between its segments.
SdusGoUpWhole ==
  \A k \in DOMAIN handedUp :
    \E i \in 0 .. nextSdu - 1, n \in SduSizes : handedUp[k] = Sdu(i, n)

\* The internal error of ReassembleAndDeliver, a PDU without a gap before it
\* that starts an SDU while the rest of another is awaited, does not happen;
\* it would leave fields in m_sdusBuffer in front of those of the next PDU.
NoReassemblyError == sdusBuffer = << >>

HandedUpSdus == [k \in DOMAIN handedUp |-> handedUp[k][1][1]]

\* An SDU is missing from what went up only if a PDU with a part of it was
\* lost, or came after a later one had been reassembled, or the transmission
\* buffer was full: the window takes no new PDU for an old one, no stored PDU
\* is left behind, and no gap costs an SDU next to it.
OnlyMissedSdusAreDropped ==
  \A i \in 0 .. nextSdu - 1 :
    \/ i \in missed
    \/ \E k \in DOMAIN handedUp : HandedUpSdus[k] = i
    \/ \E k \in DOMAIN txBuffer : txBuffer[k].data[1][1] = i
    \/ \E pdu \in channel : i \in SdusOf(pdu.fields)
    \/ \E sn \in DOMAIN rxBuffer : i \in SdusOf(rxBuffer[sn].fields)
    \/ keepS0 # << >> /\ keepS0[1][1] = i

\* DoReceivePdu and ExpireReorderingTimer never leave a PDU in the reception
\* buffer without a running timer, as long as t-Reordering ends before a window
\* of PDUs is sent; the run of received numbers may be cut short at the wrap of
\* the sequence number.
BufferedIsGuarded == DOMAIN rxBuffer # {} => timerRunning

\* Data wait in the transmission buffer, the MAC has none on record, and no
\* report is scheduled.
Forgotten == txBuffer # << >> /\ ~macKnows /\ ~rbsTimer

\* DoTransmitPdcpPdu may cancel m_rbsTimer because it has just reported, and
\* every grant that leaves data behind starts it: the only step after which
\* data are newly forgotten is a grant that clears the MAC's record and is too
\* small to send anything, and the next SDU, queued or discarded, ends it.
OnlyStingyGrantForgets ==
  [][Forgotten' => WastedOpportunity \/ (Forgotten /\ ~TransmitPdcpPdu)]_umVars

\* DoReceivePdu stops or moves t-Reordering only when every PDU below the old
\* VR(UX) has left the reception buffer: no gap gets more time than the timer
\* gives it because other PDUs come in.
TimerMovesOnlyWhenPassed ==
  [][timerRunning /\ ReceivePdu /\ <<timerRunning, vrUx>>' # <<timerRunning, vrUx>>
     => LET base == LowerEdge(vrUh')
        IN  \A sn \in DOMAIN rxBuffer' :
              Distance(vrUx, base) <= Window
                => Distance(vrUx, base) <= Distance(sn, base)]_umVars

\* No received PDU stays in the reception buffer for ever.
BufferedIsReassembled ==
  \A sn \in 0 .. SnSpace - 1 :
    sn \in DOMAIN rxBuffer ~> sn \notin DOMAIN rxBuffer

\* Every SDU that is accepted is sent, down to its last byte, unless a stingy
\* grant has made the MAC forget the buffer and no other SDU comes for ever.
QueuedIsSent ==
  \A i \in 0 .. MaxSdus - 1 :
    (\E k \in DOMAIN txBuffer : txBuffer[k].data[1][1] = i)
      ~> \/ ~(\E k \in DOMAIN txBuffer : txBuffer[k].data[1][1] = i)
         \/ []Forgotten

\* The comment of DoReceivePdu: "update VR(UR) to the SN of the first UMD PDU
\* with SN > current VR(UR) that has not been received".
VrUrNotReceived == vrUr \notin DOMAIN rxBuffer

\* ReassembleOutsideWindow leaves no PDU below the window in the buffer, where
\* nothing would ever take it out.  While the window spans the wrap of the
\* sequence number this fails: the loop stops at the small numbers inside it.
OutsideIsReassembled ==
  \A sn \in DOMAIN rxBuffer : IsInsideReorderingWindow(sn, vrUh)

\* To the PDCP the RLC is a bearer that delivers some of the SDUs, in order:
\* what LwaBearer assumes of its LTE path.
Service == INSTANCE OrderedDelivery
             WITH sent <- nextSdu, delivered <- HandedUpSdus
ImplementsOrderedDelivery == Service!Spec

=============================================================================
