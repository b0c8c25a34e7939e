----------------------------- MODULE LwaBearer -----------------------------
(***************************************************************************)
(* One data radio bearer with LTE-WLAN aggregation: the sending and the    *)
(* receiving LtePdcp joined by the two paths a PDU can take.               *)
(*                                                                         *)
(*   LTE    TransmitPdcpPdu, the RLC entities and the radio, ReceivePdcpPdu *)
(*   LWA    the TxPDUtrace callback LtePdcpLwaHandler of the simulation    *)
(*          script, a UDP socket to the station's Wi-Fi address, and       *)
(*          LtePdcp::ReceiveLwaPacket at the UE                            *)
(*                                                                         *)
(* Both paths may lose PDUs and neither duplicates them.  The RLC delivers *)
(* in sequence; no order is assumed of the datagrams on the WLAN.          *)
(***************************************************************************)
EXTENDS LtePdcp

CONSTANTS
  MaxSdus,        \* bound: SDUs sent in a behaviour
  MaxOutstanding  \* bound: how far the sender runs ahead of the receiver

ASSUME BoundAssumption ==
  /\ MaxSdus \in Nat
  /\ MaxOutstanding \in Nat \ {0}

VARIABLES
  nextSdu,         \* index of the next SDU the upper layer sends
  rlcPath,         \* PDUs between the RLC SAPs
  lwaPath,         \* PDUs between LtePdcpLwaHandler and ReceiveLwaPacket
  traceConnected,  \* Callback_LtePDCPTX has connected LtePdcpLwaHandler
  lost             \* history: indices of the SDUs a path has lost

pathVars == <<nextSdu, rlcPath, lwaPath, traceConnected, lost>>
vars == <<txVars, rxVars, pathVars>>

Init ==
  /\ PdcpInit
  /\ nextSdu = 0
  /\ rlcPath = {}
  /\ lwaPath = {}
  /\ traceConnected = FALSE
  /\ lost = {}

InFlight == {pdu.idx : pdu \in rlcPath \union lwaPath}

\* The index that the receiver hands up next when nothing is missing.
Submitted == IF handedUp = << >> THEN 0 ELSE handedUp[Len(handedUp)] + 1

\* The send window of the transport above the bearer: it does not let SDUs
\* run further than MaxOutstanding ahead of what has arrived.
SenderMayRun ==
  /\ nextSdu - Submitted < MaxOutstanding
  /\ \A i \in InFlight : nextSdu - i < MaxOutstanding

\* DoTransmitPdcpSdu.  A trace source without a sink drops what is traced.
TransmitPdcpSdu ==
  /\ nextSdu < MaxSdus
  /\ SenderMayRun
  /\ nextSdu' = nextSdu + 1
  /\ NumberSdu
  /\ \/ /\ ToLte
        /\ rlcPath' = rlcPath \union {NewPdu(nextSdu)}
        /\ UNCHANGED <<lwaPath, lost>>
     \/ /\ ~ToLte
        /\ traceConnected
        /\ lwaPath' = lwaPath \union {NewPdu(nextSdu)}
        /\ UNCHANGED <<rlcPath, lost>>
     \/ /\ ~ToLte
        /\ ~traceConnected
        /\ lost' = lost \union {nextSdu}
        /\ UNCHANGED <<rlcPath, lwaPath>>
  /\ UNCHANGED <<rxVars, traceConnected>>

\* Callback_LtePDCPTX, 100 ms after NotifyConnectionEstablishedUe.
ConnectTrace ==
  /\ ~traceConnected
  /\ traceConnected' = TRUE
  /\ UNCHANGED <<txVars, rxVars, nextSdu, rlcPath, lwaPath, lost>>

\* LtePdcpSpecificLteRlcSapUser::ReceivePdcpPdu: the RLC delivers in sequence.
ReceivePdcpPdu ==
  \E pdu \in rlcPath :
    /\ \A other \in rlcPath : pdu.idx <= other.idx
    /\ DoReceivePdu(pdu)
    /\ rlcPath' = rlcPath \ {pdu}
    /\ UNCHANGED <<txVars, nextSdu, lwaPath, traceConnected, lost>>

\* ReceiveLwaPacket.
ReceiveLwaPacket ==
  \E pdu \in lwaPath :
    /\ DoReceivePdu(pdu)
    /\ lwaPath' = lwaPath \ {pdu}
    /\ UNCHANGED <<txVars, nextSdu, rlcPath, traceConnected, lost>>

\* A full RLC buffer, a radio or a Wi-Fi frame that is not recovered.
LosePdu ==
  \E pdu \in rlcPath \union lwaPath :
    /\ rlcPath' = rlcPath \ {pdu}
    /\ lwaPath' = lwaPath \ {pdu}
    /\ lost' = lost \union {pdu.idx}
    /\ UNCHANGED <<txVars, rxVars, nextSdu, traceConnected>>

ReorderingTimeout ==
  /\ ExpireReorderingTimer
  /\ UNCHANGED <<txVars, pathVars>>

Receive == ReceivePdcpPdu \/ ReceiveLwaPacket

Next ==
  \/ TransmitPdcpSdu
  \/ ConnectTrace
  \/ ReceivePdcpPdu
  \/ ReceiveLwaPacket
  \/ LosePdu
  \/ ReorderingTimeout

Spec == Init /\ [][Next]_vars

\* The simulator runs every event it has scheduled: a PDU on its way arrives
\* or is lost, and the timer, once it is started and not cancelled, expires.
FairSpec == /\ Spec
            /\ WF_vars(ReceivePdcpPdu \/ ReceiveLwaPacket)
            /\ WF_vars(ReorderingTimeout)

-----------------------------------------------------------------------------
(* Properties.                                                             *)

TypeOK ==
  /\ PdcpTypeOK
  /\ nextSdu \in 0 .. MaxSdus
  /\ rlcPath \subseteq Pdu
  /\ lwaPath \subseteq Pdu
  /\ traceConnected \in BOOLEAN
  /\ lost \subseteq Nat

Increasing(s) == \A i, j \in DOMAIN s : i < j => s[i] < s[j]

\* The upper layer gets every SDU at most once and in the order in which
\* they were sent, whatever the two paths and the timer do (DoReceivePdu and
\* ExpireReorderingTimer of lte-pdcp.cc).
InOrderDelivery == Increasing(handedUp)

\* The receiver infers the hyper frame number right: the COUNT under which it
\* stores a PDU is the position of its SDU in the sent stream, in the cycle
\* in which it was numbered (the four branches of DoReceivePdu).
CountIsPosition ==
  \A c \in DOMAIN sdusBuffer : sdusBuffer[c].idx = c

\* An SDU that has not been lost on a path, is not under way, not stored and
\* not handed up was dropped by the receiver, and then only because a later
\* one had gone up before it came: the reordering window never takes a new
\* PDU for an old one and no two PDUs meet under one COUNT.
OnlyLateSdusAreDropped ==
  LET handed == {handedUp[i] : i \in DOMAIN handedUp}
      stored == {sdusBuffer[c].idx : c \in DOMAIN sdusBuffer}
  IN  \A i \in (0 .. nextSdu - 1) \ (handed \union stored \union InFlight \union lost) :
        \E j \in handed : j > i

\* What is stored is waited for: DoReceivePdu and ExpireReorderingTimer never
\* leave a PDU in the buffer with no timer to release it.
StoredIsGuarded == DOMAIN sdusBuffer # {} => timerRunning

\* m_rxHfn - 1 is never computed from an m_rxHfn of 0, whose result would
\* become a COUNT near 2^32 that no timer releases (the second branch of
\* DoReceivePdu).
NoCountUnderflow ==
  \A c \in DOMAIN sdusBuffer : c < U32 - SnSpace

\* When the timer runs out, everything that was stored when it was started
\* leaves the buffer in one pass of the loop of ExpireReorderingTimer.  Only a
\* loop that the erased iterator ends, with PDUs still due, leaves some of it;
\* it has then released an older part, and the timer runs for the rest.
ExpiryReleasesGuarded ==
  [][ReorderingTimeout =>
       LET left     == guarded \cap DOMAIN sdusBuffer'
           released == DOMAIN sdusBuffer \ DOMAIN sdusBuffer'
       IN  \/ left = {}
           \/ /\ EraseMayStop
              /\ \E c \in DOMAIN sdusBuffer' : c <= reorderingRxCount
              /\ released # {} /\ \A c \in released, d \in left : c < d
              /\ timerRunning' /\ left \subseteq guarded']_vars

\* Once something has been handed up, DoReceivePdu stops or restarts the
\* timer only after everything it was started for has gone up: the
\* comparison of m_reorderingRxCount with m_lastSubmittedRxSn is not fooled
\* by the wrap of the latter.
RestartOnlyWhenSubmitted ==
  [][timerRunning /\ Receive /\ handedUp # << >>
       /\ <<timerRunning, guarded>>' # <<timerRunning, guarded>>
     => guarded \cap DOMAIN sdusBuffer' = {}]_vars

\* A gap in what the upper layer gets is the timer's doing: a received PDU
\* only ever lets the SDUs go up that follow the last one without a gap.
GapsOnlyByTimer ==
  [][Receive => \A i \in DOMAIN handedUp' \ DOMAIN handedUp :
       handedUp'[i] = Submitted + (i - Len(handedUp)) - 1]_vars

\* No SDU waits in the reordering buffer for ever.
StoredGoesUp ==
  \A n \in 0 .. MaxSdus - 1 :
    (\E c \in DOMAIN sdusBuffer : sdusBuffer[c].idx = n)
      ~> (\E i \in DOMAIN handedUp : handedUp[i] = n)

\* The log line "Incrementing RxHFN" of the third branch of DoReceivePdu says
\* what the statement before it means to do: when the next expected sequence
\* number wraps to 0, the hyper frame number grows by one.
WrapIncrementsRxHfn ==
  [][rxSn # 0 /\ rxSn' = 0 => rxHfn' = rxHfn + 1]_vars

\* The bearer implements OrderedDelivery: with the paths, the windows and
\* the timer hidden, every step is a send, a delivery or nothing.
Service == INSTANCE OrderedDelivery WITH sent <- nextSdu, delivered <- handedUp
ImplementsOrderedDelivery == Service!Spec

-----------------------------------------------------------------------------
(* Why delivery is in order: both ends agree on the position of every PDU  *)
(* in the sent stream.  This holds under two conditions.                   *)

\* No more SDUs outstanding than the reordering window is wide.
FlowFits == MaxOutstanding <= Window

\* The stream ends before the sequence number wraps for the second time,
\* which is where m_rxHfn =+ 1 loses count.
TwoCycles == MaxSdus < 2 * SnSpace

\* The sequence number of the n-th SDU of the first two cycles.
SnOf(n) == IF n < SnSpace THEN n ELSE n - SnSpace

\* The COUNT the receiver expects next.
NextExpected == rxHfn * SnSpace + rxSn

PathsInStep ==
  /\ txSn = SnOf(nextSdu)
  /\ \A pdu \in rlcPath \union lwaPath :
       /\ pdu.idx < nextSdu
       /\ nextSdu - pdu.idx <= MaxOutstanding
       /\ pdu.sn = SnOf(pdu.idx)

ReceiverInStep ==
  /\ rxHfn \in {0, 1}
  /\ rxSn <= MaxPdcpSn
  /\ Submitted <= NextExpected
  /\ NextExpected <= nextSdu
  /\ nextSdu - Submitted <= MaxOutstanding
  /\ lastSubmitted = IF Submitted = 0 THEN MaxPdcpSn ELSE SnOf(Submitted - 1)

BufferInStep ==
  \A c \in DOMAIN sdusBuffer :
    /\ Submitted <= c
    /\ c < NextExpected
    /\ sdusBuffer[c].idx = c
    /\ sdusBuffer[c].sn = SnOf(c)

\* The inductive invariant behind InOrderDelivery and CountIsPosition.
InStep ==
  /\ TypeOK
  /\ PathsInStep
  /\ ReceiverInStep
  /\ BufferInStep
  /\ InOrderDelivery

=============================================================================
