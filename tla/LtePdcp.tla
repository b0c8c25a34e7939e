------------------------------ MODULE LtePdcp ------------------------------
(***************************************************************************)
(* The two ends of one PDCP data radio bearer, class LtePdcp of            *)
(* src/src/lte/model/lte-pdcp.{h,cc}, with the extensions of this          *)
(* repository for LTE-WLAN aggregation (LWA): the sending entity numbers   *)
(* the SDUs and chooses a path for each PDU, the receiving entity puts     *)
(* the PDUs of the two paths back in order with a reordering window and a  *)
(* reordering timer.                                                       *)
(*                                                                         *)
(* The module has one operator per handler.  What happens to a PDU between *)
(* TransmitPdcpSdu and DoReceivePdu is the business of the module that     *)
(* composes the entities with their paths (LwaBearer).                     *)
(*                                                                         *)
(* An SDU is known by its index 0, 1, 2, ... in the order in which the     *)
(* upper layer hands SDUs to the sender; the code never sees the index,    *)
(* only the 12 bits of it that the PDCP header carries.                    *)
(***************************************************************************)
EXTENDS Integers, Sequences, FiniteSets

CONSTANTS
  SnSpace,        \* number of sequence numbers: m_maxPdcpSn + 1 = 4096
  Window,         \* m_reorderingWindow = 2048
  U16,            \* 2^16, what fits in a uint16_t
  U32,            \* 2^32, what fits in a uint32_t
  Decision,       \* attribute PDCPDecLwa: 0 LTE only, 1 split, 2 all over LWA
  DataBearer,     \* lcid >= 3: LWA never applies to signalling bearers
  Uplink,         \* ueReordering of the sending entity
  EraseMayStop    \* the build's outcome of ++it after m_sdusBuffer.erase(it)

ASSUME SnAssumption ==
  /\ Window \in Nat \ {0}
  /\ SnSpace = 2 * Window

ASSUME WidthAssumption ==
  /\ U16 \in Nat
  /\ U32 \in Nat
  /\ 2 * SnSpace < U16
  /\ U16 <= U32

\* The COUNTs of all cycles m_rxHfn can count, 2^16 of 2^12, and one more
\* cycle, fit in a uint32_t.
ASSUME CountAssumption == (U16 + 1) * SnSpace <= U32

ASSUME SwitchAssumption ==
  /\ Decision \in {0, 1, 2}
  /\ DataBearer \in BOOLEAN
  /\ Uplink \in BOOLEAN
  /\ EraseMayStop \in BOOLEAN

VARIABLES
  txSn,              \* m_txSequenceNumber
  packetCounter,     \* m_packetCounter, of which the code reads the parity
  rxSn,              \* m_rxSequenceNumber
  rxHfn,             \* m_rxHfn
  lastSubmitted,     \* m_lastSubmittedRxSn
  sdusBuffer,        \* m_sdusBuffer: COUNT -> stored PDU
  timerRunning,      \* m_reorderingTimer.IsRunning ()
  reorderingRxCount, \* m_reorderingRxCount, read only while the timer runs
  guarded,           \* history: the COUNTs stored when the timer was started
  handedUp           \* history: indices given to the PDCP SAP user, in order

txVars == <<txSn, packetCounter>>
rxVars == <<rxSn, rxHfn, lastSubmitted, sdusBuffer, timerRunning,
            reorderingRxCount, guarded, handedUp>>

MaxPdcpSn == SnSpace - 1

\* The part of a PDU the entities look at, and the identity of its SDU.
Pdu == [sn : 0 .. MaxPdcpSn, idx : Nat]

LwaActive == Decision > 0 /\ DataBearer

\* A value at most one modulus below the range of the type it is stored in.
Wrapped(x, modulus) == IF x < 0 THEN x + modulus ELSE x

PdcpInit ==
  /\ txSn = 0
  /\ packetCounter = 0
  /\ rxSn = 0
  /\ rxHfn = 0
  /\ lastSubmitted = MaxPdcpSn
  /\ sdusBuffer = << >>
  /\ timerRunning = FALSE
  /\ reorderingRxCount = 0
  /\ guarded = {}
  /\ handedUp = << >>

-----------------------------------------------------------------------------
(* The sending entity.                                                     *)

\* The PDU that carries the SDU number idx.
NewPdu(idx) == [sn |-> txSn, idx |-> idx]

ToLte == \/ Uplink
         \/ ~LwaActive
         \/ Decision = 1 /\ packetCounter = 0

\* Broken: wraps one number too late.
NumberSdu_WrapsLate ==
  /\ txSn' = IF txSn > MaxPdcpSn THEN 0 ELSE txSn + 1
  /\ packetCounter' = IF ~Uplink /\ LwaActive /\ Decision = 1
                      THEN 1 - packetCounter ELSE packetCounter

\* DoTransmitPdcpSdu: number the SDU, wrap the number, and count the packet
\* when the split mode alternates between the paths.
NumberSdu ==
  /\ txSn' = IF txSn + 1 > MaxPdcpSn THEN 0 ELSE txSn + 1
  /\ packetCounter' = IF ~Uplink /\ LwaActive /\ Decision = 1
                      THEN 1 - packetCounter ELSE packetCounter

-----------------------------------------------------------------------------
(* The receiving entity.                                                   *)

\* Broken: the window is one number too wide.
IsOld_TooWide(sn) == \/ sn - lastSubmitted >= Window
                     \/ /\ 0 <= lastSubmitted - sn
                        /\ lastSubmitted - sn <= Window

\* Broken: the half of the test that is about the wrap is missing.
IsOld_NoWrap(sn) == 0 <= lastSubmitted - sn /\ lastSubmitted - sn < Window

\* Broken: only the half of the test that is about the wrap is left.
IsOld_OnlyWrap(sn) == sn - lastSubmitted > Window

\* Sequence number of a PDU that the window takes for an old one.
IsOld(sn) == \/ sn - lastSubmitted > Window
             \/ /\ 0 <= lastSubmitted - sn
                /\ lastSubmitted - sn < Window

\* The stored PDUs that follow one another from count on are count .. last.
RunFrom(buffer, count, last) ==
  /\ last >= count
  /\ count .. last \subseteq DOMAIN buffer
  /\ last + 1 \notin DOMAIN buffer

\* The SDUs stored under first, first + 1, ..., last.
RunOfSdus(buffer, first, last) ==
  [i \in 1 .. last - first + 1 |-> buffer[first + i - 1].idx]

Without(buffer, counts) == [c \in DOMAIN buffer \ counts |-> buffer[c]]

\* Broken: waits for the COUNT expected before the PDU came.
StartTimerIfStored_Stale ==
  IF DOMAIN sdusBuffer' = {}
  THEN /\ timerRunning' = FALSE
       /\ UNCHANGED <<reorderingRxCount, guarded>>
  ELSE /\ timerRunning' = TRUE
       /\ reorderingRxCount' = (rxHfn * SnSpace + rxSn) % U16
       /\ guarded' = DOMAIN sdusBuffer'

\* Start the timer for what is stored now, if anything is.
StartTimerIfStored ==
  IF DOMAIN sdusBuffer' = {}
  THEN /\ timerRunning' = FALSE
       /\ UNCHANGED <<reorderingRxCount, guarded>>
  ELSE /\ timerRunning' = TRUE
       /\ reorderingRxCount' = (rxHfn' * SnSpace + rxSn') % U16
       /\ guarded' = DOMAIN sdusBuffer'

\* m_sdusBuffer.insert: an entry that is there is not replaced.
Inserted(pdu, count) ==
  [c \in DOMAIN sdusBuffer \union {count} |->
     IF c \in DOMAIN sdusBuffer THEN sdusBuffer[c] ELSE pdu]

\* Broken: a PDU ahead of a gap counts as the next one.
IsNext_SkipsGap(sn) == sn > lastSubmitted \/ sn = lastSubmitted - MaxPdcpSn

IsNext(sn) == \/ sn = lastSubmitted + 1
              \/ sn = lastSubmitted - MaxPdcpSn

\* Store a PDU under its COUNT; when it is the next one, hand up the run of
\* stored PDUs that starts with it.
StoreAndHandUp(pdu, count) ==
  LET buffer == Inserted(pdu, count)
  IN  IF IsNext(pdu.sn)
      THEN \E last \in DOMAIN buffer :
             /\ RunFrom(buffer, count, last)
             /\ handedUp' = handedUp \o RunOfSdus(buffer, count, last)
             /\ lastSubmitted' = buffer[last].sn
             /\ sdusBuffer' = Without(buffer, count .. last)
      ELSE /\ sdusBuffer' = buffer
           /\ UNCHANGED <<handedUp, lastSubmitted>>

\* Broken: the comparison that stops the timer is the wrong way round.
Store_StopsEarly(pdu, count) ==
  /\ StoreAndHandUp(pdu, count)
  /\ IF timerRunning /\ ~(lastSubmitted' < reorderingRxCount)
     THEN UNCHANGED <<timerRunning, reorderingRxCount, guarded>>
     ELSE StartTimerIfStored

\* The tail of DoReceivePdu for a PDU that was not discarded.
Store(pdu, count) ==
  /\ StoreAndHandUp(pdu, count)
  /\ IF timerRunning /\ ~(reorderingRxCount < lastSubmitted')
     THEN UNCHANGED <<timerRunning, reorderingRxCount, guarded>>
     ELSE StartTimerIfStored

\* Broken: the hyper frame number stays when the cycle changes.
NextCycle_SameHfn(pdu, rx) ==
  /\ rx - pdu.sn > Window
  /\ UNCHANGED rxHfn
  /\ rxSn' = pdu.sn + 1
  /\ Store(pdu, rxHfn' * SnSpace + pdu.sn)

\* The four ways in which DoReceivePdu finds the COUNT of a PDU, given rx,
\* the next expected sequence number.
NextCycle(pdu, rx) ==
  /\ rx - pdu.sn > Window
  /\ rxHfn' = (rxHfn + 1) % U16
  /\ rxSn' = pdu.sn + 1
  /\ Store(pdu, rxHfn' * SnSpace + pdu.sn)

PreviousCycle(pdu, rx) ==
  /\ pdu.sn - rx >= Window
  /\ rxSn' = rx
  /\ UNCHANGED rxHfn
  /\ Store(pdu, Wrapped((rxHfn - 1) * SnSpace + pdu.sn, U32))

Ahead(pdu, rx) ==
  /\ 0 <= pdu.sn - rx
  /\ pdu.sn - rx < Window
  /\ IF pdu.sn + 1 > MaxPdcpSn
     THEN rxSn' = 0 /\ rxHfn' = 1               \* m_rxHfn =+ 1
     ELSE rxSn' = pdu.sn + 1 /\ rxHfn' = rxHfn
  /\ Store(pdu, rxHfn * SnSpace + pdu.sn)

Behind(pdu, rx) ==
  /\ 0 < rx - pdu.sn
  /\ rx - pdu.sn <= Window
  /\ rxSn' = rx
  /\ UNCHANGED rxHfn
  /\ Store(pdu, rxHfn * SnSpace + pdu.sn)

Discard(pdu, rx) ==
  /\ rxSn' = rx
  /\ UNCHANGED <<rxHfn, lastSubmitted, sdusBuffer, timerRunning,
                 reorderingRxCount, guarded, handedUp>>

\* Without LWA a PDU goes up as it comes.
PassThrough(pdu) ==
  /\ rxSn' = pdu.sn + 1
  /\ handedUp' = Append(handedUp, pdu.idx)
  /\ UNCHANGED <<rxHfn, lastSubmitted, sdusBuffer, timerRunning,
                 reorderingRxCount, guarded>>

DoReceivePdu(pdu) ==
  LET rx == IF rxSn > MaxPdcpSn THEN 0 ELSE rxSn
  IN  IF ~LwaActive THEN PassThrough(pdu)
      ELSE IF IsOld(pdu.sn) THEN Discard(pdu, rx)
      ELSE \/ NextCycle(pdu, rx)
           \/ PreviousCycle(pdu, rx)
           \/ Ahead(pdu, rx)
           \/ Behind(pdu, rx)

\* Broken: the order of a hash map.
Ascending_Unordered(counts) ==
  {s \in [1 .. Cardinality(counts) -> counts] :
     \A c \in counts : \E i \in 1 .. Cardinality(counts) : s[i] = c}

\* The order in which std::map is iterated.
Ascending(counts) ==
  {s \in [1 .. Cardinality(counts) -> counts] :
     \A i, j \in 1 .. Cardinality(counts) : i < j => s[i] < s[j]}

\* What the loop of ExpireReorderingTimer may take out of the buffer.  After
\* m_sdusBuffer.erase (it) the loop increments it, a read of freed memory: the
\* next entry when the allocator has left the node alone, and a value that
\* ends the loop when it has not.
Releasable ==
  LET due == {c \in DOMAIN sdusBuffer : c <= reorderingRxCount}
  IN  {due} \union
      {released \in SUBSET due :
         /\ EraseMayStop
         /\ released # {}
         /\ \A c \in released, d \in due \ released : c < d}

\* Broken: the timer is not started again for what stays in the buffer.
ExpireReorderingTimer_NoRestart ==
  /\ timerRunning
  /\ \E released \in Releasable : \E order \in Ascending(released) :
       /\ handedUp' = handedUp \o
            [i \in 1 .. Cardinality(released) |-> sdusBuffer[order[i]].idx]
       /\ lastSubmitted' = IF released = {} THEN lastSubmitted
                           ELSE sdusBuffer[order[Cardinality(released)]].sn
       /\ sdusBuffer' = Without(sdusBuffer, released)
  /\ timerRunning' = FALSE
  /\ UNCHANGED <<rxSn, rxHfn, reorderingRxCount, guarded>>

ExpireReorderingTimer ==
  /\ timerRunning
  /\ \E released \in Releasable : \E order \in Ascending(released) :
       /\ handedUp' = handedUp \o
            [i \in 1 .. Cardinality(released) |-> sdusBuffer[order[i]].idx]
       /\ lastSubmitted' = IF released = {} THEN lastSubmitted
                           ELSE sdusBuffer[order[Cardinality(released)]].sn
       /\ sdusBuffer' = Without(sdusBuffer, released)
  /\ UNCHANGED <<rxSn, rxHfn>>
  /\ StartTimerIfStored

-----------------------------------------------------------------------------
(* The state of the two entities.                                          *)
PdcpTypeOK ==
  /\ txSn \in 0 .. MaxPdcpSn
  /\ packetCounter \in {0, 1}
  /\ rxSn \in 0 .. SnSpace
  /\ rxHfn \in 0 .. U16 - 1
  /\ lastSubmitted \in 0 .. MaxPdcpSn
  /\ DOMAIN sdusBuffer \subseteq Nat
  /\ IsFiniteSet(DOMAIN sdusBuffer)
  /\ \A c \in DOMAIN sdusBuffer : sdusBuffer[c] \in Pdu
  /\ timerRunning \in BOOLEAN
  /\ reorderingRxCount \in 0 .. U16 - 1
  /\ guarded \subseteq Nat
  /\ handedUp \in Seq(Nat)

=============================================================================
