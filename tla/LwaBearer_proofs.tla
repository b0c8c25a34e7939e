-------------------------- MODULE LwaBearer_proofs --------------------------
(***************************************************************************)
(* Theorems about LwaBearer for every size of the sequence number space,   *)
(* of the reordering window and of the integer types, and for every bound  *)
(* on how far the sender runs ahead: types, the timer that guards what is  *)
(* stored, and COUNTs that never underflow.                                *)
(*   As long as no more SDUs are outstanding than the reordering window is *)
(* wide (FlowFits) and the stream ends before the sequence number wraps    *)
(* for the second time (TwoCycles), the bearer also implements the service *)
(* that OrderedDelivery specifies: every step sends an SDU, hands some up  *)
(* that come later than those before, or is not seen from above.  And the  *)
(* reordering timer releases what it was started for and is not started    *)
(* again before.                                                           *)
(***************************************************************************)
EXTENDS LwaBearer, FiniteSetTheorems, SequenceTheorems, TLAPS

\* Arithmetic the provers find only with all numbers made constants.
LEMMA ProductInNat ==
  ASSUME NEW a \in Nat, NEW b \in Nat
  PROVE  a * b \in Nat
OBVIOUS

LEMMA ModInRange ==
  ASSUME NEW a \in Int, NEW b \in Nat, b > 0
  PROVE  a % b \in 0 .. b - 1
OBVIOUS

\* Inserted adds one entry of the right type.
LEMMA InsertedType ==
  ASSUME PdcpTypeOK, NEW pdu \in Pdu, NEW count \in Nat
  PROVE  /\ DOMAIN Inserted(pdu, count) = DOMAIN sdusBuffer \union {count}
         /\ DOMAIN Inserted(pdu, count) \subseteq Nat
         /\ IsFiniteSet(DOMAIN Inserted(pdu, count))
         /\ \A c \in DOMAIN Inserted(pdu, count) : Inserted(pdu, count)[c] \in Pdu
<1>1. DOMAIN Inserted(pdu, count) = DOMAIN sdusBuffer \union {count}
  BY DEF Inserted
<1>2. IsFiniteSet(DOMAIN sdusBuffer \union {count})
  BY FS_AddElement DEF PdcpTypeOK
<1>3. \A c \in DOMAIN Inserted(pdu, count) : Inserted(pdu, count)[c] \in Pdu
  BY DEF PdcpTypeOK, Inserted
<1> QED BY <1>1, <1>2, <1>3 DEF PdcpTypeOK

\* A run of stored PDUs is a sequence of SDU indices.
LEMMA RunOfSdusType ==
  ASSUME NEW buffer, NEW first \in Nat, NEW last \in Nat,
         last >= first, first .. last \subseteq DOMAIN buffer,
         \A c \in DOMAIN buffer : buffer[c] \in Pdu
  PROVE  /\ RunOfSdus(buffer, first, last) \in Seq(Nat)
         /\ Len(RunOfSdus(buffer, first, last)) = last - first + 1
<1>1. \A i \in 1 .. last - first + 1 : buffer[first + i - 1].idx \in Nat
  <2> SUFFICES ASSUME NEW i \in 1 .. last - first + 1
               PROVE  buffer[first + i - 1].idx \in Nat
    OBVIOUS
  <2>1. first + i - 1 \in first .. last
    OBVIOUS
  <2> QED BY <2>1 DEF Pdu
<1>2. last - first + 1 \in Nat
  OBVIOUS
<1> QED BY <1>1, <1>2 DEF RunOfSdus

\* Storing a PDU and handing up a run keeps the receiver's state well typed.
LEMMA StoreAndHandUpType ==
  ASSUME PdcpTypeOK, NEW pdu \in Pdu, NEW count \in Nat,
         StoreAndHandUp(pdu, count)
  PROVE  /\ lastSubmitted' \in 0 .. MaxPdcpSn
         /\ DOMAIN sdusBuffer' \subseteq Nat
         /\ IsFiniteSet(DOMAIN sdusBuffer')
         /\ \A c \in DOMAIN sdusBuffer' : sdusBuffer'[c] \in Pdu
         /\ handedUp' \in Seq(Nat)
<1> DEFINE buffer == Inserted(pdu, count)
<1>1. /\ DOMAIN buffer \subseteq Nat
      /\ IsFiniteSet(DOMAIN buffer)
      /\ \A c \in DOMAIN buffer : buffer[c] \in Pdu
  BY InsertedType
<1> HIDE DEF buffer
<1>2. CASE ~IsNext(pdu.sn)
  <2>1. sdusBuffer' = buffer /\ UNCHANGED <<handedUp, lastSubmitted>>
    BY <1>2 DEF StoreAndHandUp, buffer
  <2> QED BY <1>1, <2>1 DEF PdcpTypeOK
<1>3. CASE IsNext(pdu.sn)
  <2>1. PICK last \in DOMAIN buffer :
          /\ RunFrom(buffer, count, last)
          /\ handedUp' = handedUp \o RunOfSdus(buffer, count, last)
          /\ lastSubmitted' = buffer[last].sn
          /\ sdusBuffer' = Without(buffer, count .. last)
    BY <1>3 DEF StoreAndHandUp, buffer
  <2>2. last \in Nat /\ last >= count /\ count .. last \subseteq DOMAIN buffer
    BY <1>1, <2>1 DEF RunFrom
  <2>3. RunOfSdus(buffer, count, last) \in Seq(Nat)
    BY <1>1, <2>2, RunOfSdusType
  <2>4. handedUp' \in Seq(Nat)
    BY <2>1, <2>3, ConcatProperties DEF PdcpTypeOK
  <2>5. lastSubmitted' \in 0 .. MaxPdcpSn
    BY <1>1, <2>1 DEF Pdu
  <2>6. DOMAIN sdusBuffer' \subseteq DOMAIN buffer
    BY <2>1 DEF Without
  <2>7. IsFiniteSet(DOMAIN sdusBuffer')
    BY <1>1, <2>6, FS_Subset
  <2>8. \A c \in DOMAIN sdusBuffer' : sdusBuffer'[c] \in Pdu
    BY <1>1, <2>1 DEF Without
  <2> QED BY <1>1, <2>4, <2>5, <2>6, <2>7, <2>8
<1> QED BY <1>2, <1>3

\* The timer's variables stay well typed when it is started or left alone.
LEMMA StartTimerType ==
  ASSUME PdcpTypeOK, StartTimerIfStored,
         rxHfn' \in Nat, rxSn' \in Nat, DOMAIN sdusBuffer' \subseteq Nat
  PROVE  /\ timerRunning' \in BOOLEAN
         /\ reorderingRxCount' \in 0 .. U16 - 1
         /\ guarded' \subseteq Nat
<1>1. U16 \in Nat /\ 0 < U16 /\ SnSpace \in Nat
  BY SnAssumption, WidthAssumption
<1>2. rxHfn' * SnSpace + rxSn' \in Nat
  <2>1. rxHfn' * SnSpace \in Nat
    BY <1>1, ProductInNat
  <2> QED BY <2>1
<1>3. (rxHfn' * SnSpace + rxSn') % U16 \in 0 .. U16 - 1
  <2> DEFINE x == rxHfn' * SnSpace + rxSn'
  <2>1. x \in Int
    BY <1>2
  <2> HIDE DEF x
  <2>2. x % U16 \in 0 .. U16 - 1
    BY <1>1, <2>1, ModInRange
  <2> QED BY <2>2 DEF x
<1>4. CASE DOMAIN sdusBuffer' = {}
  BY <1>4 DEF StartTimerIfStored, PdcpTypeOK
<1>5. CASE DOMAIN sdusBuffer' # {}
  <2>1. /\ timerRunning' = TRUE
        /\ reorderingRxCount' = (rxHfn' * SnSpace + rxSn') % U16
        /\ guarded' = DOMAIN sdusBuffer'
    BY <1>5 DEF StartTimerIfStored
  <2> QED BY <1>3, <2>1
<1> QED BY <1>4, <1>5

\* DoReceivePdu keeps the receiving entity well typed.
LEMMA ReceiveType ==
  ASSUME PdcpTypeOK, NEW pdu \in Pdu, DoReceivePdu(pdu), UNCHANGED txVars
  PROVE  PdcpTypeOK'
<1> DEFINE rx == IF rxSn > MaxPdcpSn THEN 0 ELSE rxSn
<1>0. /\ SnSpace \in Nat /\ Window \in Nat /\ U16 \in Nat /\ U32 \in Nat
      /\ SnSpace > 0 /\ 2 * SnSpace < U16 /\ SnSpace < U32
      /\ MaxPdcpSn = SnSpace - 1
  BY SnAssumption, WidthAssumption DEF MaxPdcpSn
<1>1. rx \in 0 .. MaxPdcpSn /\ pdu.sn \in 0 .. MaxPdcpSn /\ pdu.idx \in Nat
  BY <1>0 DEF PdcpTypeOK, Pdu
<1>2. rxHfn \in Nat /\ rxHfn < U16
  BY <1>0 DEF PdcpTypeOK
<1>3. txSn' \in 0 .. MaxPdcpSn /\ packetCounter' \in {0, 1}
  BY DEF PdcpTypeOK, txVars
<1> HIDE DEF rx
\* The conjuncts that depend only on what Store leaves behind.
<1>4. ASSUME NEW count \in Nat, Store(pdu, count),
             rxSn' \in 0 .. SnSpace, rxHfn' \in 0 .. U16 - 1
      PROVE  PdcpTypeOK'
  <2>1. /\ lastSubmitted' \in 0 .. MaxPdcpSn
        /\ DOMAIN sdusBuffer' \subseteq Nat
        /\ IsFiniteSet(DOMAIN sdusBuffer')
        /\ \A c \in DOMAIN sdusBuffer' : sdusBuffer'[c] \in Pdu
        /\ handedUp' \in Seq(Nat)
    BY <1>4, StoreAndHandUpType DEF Store
  <2>2. /\ timerRunning' \in BOOLEAN
        /\ reorderingRxCount' \in 0 .. U16 - 1
        /\ guarded' \subseteq Nat
    <3>1. CASE UNCHANGED <<timerRunning, reorderingRxCount, guarded>>
      BY <3>1 DEF PdcpTypeOK
    <3>2. CASE StartTimerIfStored
      <4>1. rxHfn' \in Nat /\ rxSn' \in Nat
        BY <1>0, <1>4
      <4> QED BY <3>2, <4>1, <2>1, StartTimerType
    <3> QED BY <1>4, <3>1, <3>2 DEF Store
  <2> QED BY <1>3, <1>4, <2>1, <2>2 DEF PdcpTypeOK
<1>5. CASE NextCycle(pdu, rx)
  <2>1. rxHfn' \in 0 .. U16 - 1
    <3>1. rxHfn' = (rxHfn + 1) % U16
      BY <1>5 DEF NextCycle
    <3>2. (rxHfn + 1) % U16 \in 0 .. U16 - 1
      BY <1>0, <1>2, ModInRange
    <3> QED BY <3>1, <3>2
  <2>2. rxHfn' * SnSpace \in Nat
    <3>1. rxHfn' \in Nat
      BY <1>0, <2>1
    <3> QED BY <1>0, <3>1, ProductInNat
  <2>3. rxHfn' * SnSpace + pdu.sn \in Nat
    BY <1>1, <2>2
  <2> QED BY <1>0, <1>1, <1>4, <1>5, <2>1, <2>3 DEF NextCycle
<1>6. CASE PreviousCycle(pdu, rx)
  <2> DEFINE count == Wrapped((rxHfn - 1) * SnSpace + pdu.sn, U32)
  <2>1. count \in Nat
    <3>1. CASE rxHfn = 0
      <4>1. (rxHfn - 1) * SnSpace = - SnSpace
        BY <1>0, <3>1
      <4> QED BY <1>0, <1>1, <4>1 DEF Wrapped
    <3>2. CASE rxHfn # 0
      <4>1. (rxHfn - 1) * SnSpace \in Nat
        BY <1>0, <1>2, <3>2, ProductInNat
      <4> QED BY <1>0, <1>1, <4>1 DEF Wrapped
    <3> QED BY <3>1, <3>2
  <2>2. Store(pdu, count) /\ rxSn' = rx /\ rxHfn' = rxHfn
    BY <1>6 DEF PreviousCycle
  <2> HIDE DEF count
  <2> QED BY <1>0, <1>1, <1>2, <1>4, <2>1, <2>2
<1>7. CASE Ahead(pdu, rx) \/ Behind(pdu, rx)
  <2>1. rxHfn * SnSpace \in Nat
    BY <1>0, <1>2, ProductInNat
  <2>2. rxHfn * SnSpace + pdu.sn \in Nat
    BY <1>1, <2>1
  <2>3. Store(pdu, rxHfn * SnSpace + pdu.sn)
    BY <1>7 DEF Ahead, Behind
  <2>4. rxSn' \in 0 .. SnSpace /\ rxHfn' \in 0 .. U16 - 1
    BY <1>0, <1>1, <1>2, <1>7 DEF Ahead, Behind
  <2> QED BY <1>4, <2>2, <2>3, <2>4
<1>8. CASE Discard(pdu, rx)
  <2>1. rxSn' \in 0 .. SnSpace
    BY <1>0, <1>1, <1>8 DEF Discard
  <2>2. UNCHANGED <<rxHfn, lastSubmitted, sdusBuffer, timerRunning,
                    reorderingRxCount, guarded, handedUp>>
    BY <1>8 DEF Discard
  <2> QED BY ONLY PdcpTypeOK, <1>3, <2>1, <2>2 DEF PdcpTypeOK
<1>9. CASE PassThrough(pdu)
  <2>1. handedUp' \in Seq(Nat)
    BY <1>1, <1>9 DEF PassThrough, PdcpTypeOK
  <2>2. rxSn' \in 0 .. SnSpace
    BY <1>0, <1>1, <1>9 DEF PassThrough
  <2>3. UNCHANGED <<rxHfn, lastSubmitted, sdusBuffer, timerRunning,
                    reorderingRxCount, guarded>>
    BY <1>9 DEF PassThrough
  <2> QED BY ONLY PdcpTypeOK, <1>3, <2>1, <2>2, <2>3 DEF PdcpTypeOK
<1> QED BY <1>5, <1>6, <1>7, <1>8, <1>9 DEF DoReceivePdu, rx

\* ExpireReorderingTimer keeps the receiving entity well typed.
LEMMA ExpireType ==
  ASSUME PdcpTypeOK, ExpireReorderingTimer, UNCHANGED txVars
  PROVE  PdcpTypeOK'
<1> DEFINE Taken(released, order) ==
      /\ handedUp' = handedUp \o
           [i \in 1 .. Cardinality(released) |-> sdusBuffer[order[i]].idx]
      /\ lastSubmitted' = IF released = {} THEN lastSubmitted
                          ELSE sdusBuffer[order[Cardinality(released)]].sn
      /\ sdusBuffer' = Without(sdusBuffer, released)
<1>0. PICK released \in Releasable :
        \E order \in Ascending(released) : Taken(released, order)
  BY DEF ExpireReorderingTimer
<1>1. PICK order \in Ascending(released) : Taken(released, order)
  BY <1>0
<1>2. released \subseteq DOMAIN sdusBuffer
  BY DEF Releasable
<1>3. IsFiniteSet(released)
  BY <1>2, FS_Subset DEF PdcpTypeOK
<1>4. Cardinality(released) \in Nat
  BY <1>3, FS_CardinalityType
<1>5. \A i \in 1 .. Cardinality(released) : order[i] \in DOMAIN sdusBuffer
  BY <1>2 DEF Ascending
<1>6. \A i \in 1 .. Cardinality(released) : sdusBuffer[order[i]] \in Pdu
  BY <1>5 DEF PdcpTypeOK
<1>7. [i \in 1 .. Cardinality(released) |-> sdusBuffer[order[i]].idx] \in Seq(Nat)
  BY <1>4, <1>6 DEF Pdu
<1>8. handedUp' \in Seq(Nat)
  BY <1>1, <1>7, ConcatProperties DEF PdcpTypeOK
<1>9. lastSubmitted' \in 0 .. MaxPdcpSn
  <2>1. CASE released = {}
    BY <1>1, <2>1 DEF PdcpTypeOK
  <2>2. CASE released # {}
    <3>1. Cardinality(released) \in 1 .. Cardinality(released)
      BY <1>3, <1>4, <2>2, FS_EmptySet
    <3> QED BY <1>1, <1>6, <2>2, <3>1 DEF Pdu
  <2> QED BY <2>1, <2>2
<1>10. /\ DOMAIN sdusBuffer' \subseteq Nat
       /\ IsFiniteSet(DOMAIN sdusBuffer')
       /\ \A c \in DOMAIN sdusBuffer' : sdusBuffer'[c] \in Pdu
  <2>1. DOMAIN sdusBuffer' \subseteq DOMAIN sdusBuffer
    BY <1>1 DEF Without
  <2>2. IsFiniteSet(DOMAIN sdusBuffer')
    BY <2>1, FS_Subset DEF PdcpTypeOK
  <2> QED BY <1>1, <2>1, <2>2 DEF Without, PdcpTypeOK
<1>11. rxSn' \in 0 .. SnSpace /\ rxHfn' \in 0 .. U16 - 1
  BY DEF ExpireReorderingTimer, PdcpTypeOK
<1>12. /\ timerRunning' \in BOOLEAN
       /\ reorderingRxCount' \in 0 .. U16 - 1
       /\ guarded' \subseteq Nat
  <2>1. SnSpace \in Nat /\ U16 \in Nat
    BY SnAssumption, WidthAssumption
  <2>2. rxHfn' \in Nat /\ rxSn' \in Nat
    BY <1>11, <2>1
  <2> QED BY <1>10, <2>2, StartTimerType DEF ExpireReorderingTimer
<1>13. txSn' \in 0 .. MaxPdcpSn /\ packetCounter' \in {0, 1}
  BY DEF PdcpTypeOK, txVars
<1> QED BY <1>8, <1>9, <1>10, <1>11, <1>12, <1>13 DEF PdcpTypeOK

\* The bearer starts well typed.
LEMMA InitType == Init => TypeOK
<1> SUFFICES ASSUME Init PROVE TypeOK
  OBVIOUS
<1>1. /\ MaxPdcpSn \in Nat /\ SnSpace \in Nat /\ 0 < U16 /\ U16 \in Nat
      /\ MaxSdus \in Nat
  BY SnAssumption, WidthAssumption, BoundAssumption DEF MaxPdcpSn
<1>2. DOMAIN sdusBuffer = {} /\ IsFiniteSet(DOMAIN sdusBuffer)
  BY FS_EmptySet DEF Init, PdcpInit
<1>3. handedUp \in Seq(Nat)
  BY DEF Init, PdcpInit
<1>4. timerRunning \in BOOLEAN /\ traceConnected \in BOOLEAN
  BY DEF Init, PdcpInit
<1>5. PdcpTypeOK
  BY <1>1, <1>2, <1>3, <1>4 DEF Init, PdcpInit, PdcpTypeOK
<1>6. nextSdu \in 0 .. MaxSdus
  BY <1>1 DEF Init
<1> QED BY <1>4, <1>5, <1>6 DEF Init, TypeOK

\* Every step of the bearer keeps it well typed.
LEMMA NextType == TypeOK /\ [Next]_vars => TypeOK'
<1> SUFFICES ASSUME TypeOK, [Next]_vars PROVE TypeOK'
  OBVIOUS
<1> USE DEF pathVars
<1>1. CASE TransmitPdcpSdu
  <2>1. /\ txSn \in 0 .. MaxPdcpSn /\ nextSdu \in Nat /\ MaxPdcpSn \in Nat
    BY SnAssumption, BoundAssumption DEF TypeOK, PdcpTypeOK, MaxPdcpSn
  <2>2. txSn' \in 0 .. MaxPdcpSn /\ packetCounter' \in {0, 1}
    BY <1>1, <2>1 DEF TransmitPdcpSdu, NumberSdu, TypeOK, PdcpTypeOK
  <2>3. PdcpTypeOK'
    BY <1>1, <2>2 DEF TransmitPdcpSdu, TypeOK, PdcpTypeOK, rxVars
  <2>4. NewPdu(nextSdu) \in Pdu
    BY <2>1 DEF NewPdu, Pdu
  <2>5. nextSdu' \in 0 .. MaxSdus
    BY <1>1, <2>1, BoundAssumption DEF TransmitPdcpSdu
  <2>6. /\ rlcPath' \subseteq Pdu
        /\ lwaPath' \subseteq Pdu
        /\ lost' \subseteq Nat
    BY <1>1, <2>1, <2>4 DEF TransmitPdcpSdu, TypeOK
  <2>7. traceConnected' \in BOOLEAN
    BY <1>1 DEF TransmitPdcpSdu, TypeOK
  <2> QED BY <2>3, <2>5, <2>6, <2>7 DEF TypeOK
<1>2. CASE ConnectTrace
  BY <1>2 DEF ConnectTrace, TypeOK, PdcpTypeOK, txVars, rxVars
<1>3. CASE ReceivePdcpPdu
  <2>1. PICK pdu \in rlcPath :
          /\ DoReceivePdu(pdu)
          /\ rlcPath' = rlcPath \ {pdu}
          /\ UNCHANGED <<txVars, nextSdu, lwaPath, traceConnected, lost>>
    BY <1>3 DEF ReceivePdcpPdu
  <2>2. PdcpTypeOK'
    BY <2>1, ReceiveType DEF TypeOK
  <2> QED BY <2>1, <2>2 DEF TypeOK
<1>4. CASE ReceiveLwaPacket
  <2>1. PICK pdu \in lwaPath :
          /\ DoReceivePdu(pdu)
          /\ lwaPath' = lwaPath \ {pdu}
          /\ UNCHANGED <<txVars, nextSdu, rlcPath, traceConnected, lost>>
    BY <1>4 DEF ReceiveLwaPacket
  <2>2. PdcpTypeOK'
    BY <2>1, ReceiveType DEF TypeOK
  <2> QED BY <2>1, <2>2 DEF TypeOK
<1>5. CASE LosePdu
  <2>1. PdcpTypeOK'
    BY <1>5 DEF LosePdu, TypeOK, PdcpTypeOK, txVars, rxVars
  <2> QED BY <1>5, <2>1 DEF LosePdu, TypeOK, Pdu
<1>6. CASE ReorderingTimeout
  <2>1. PdcpTypeOK'
    BY <1>6, ExpireType DEF ReorderingTimeout, TypeOK
  <2> QED BY <1>6, <2>1 DEF ReorderingTimeout, TypeOK
<1>7. CASE UNCHANGED vars
  BY <1>7 DEF vars, TypeOK, PdcpTypeOK, txVars, rxVars
<1> QED BY <1>1, <1>2, <1>3, <1>4, <1>5, <1>6, <1>7 DEF Next

\* Every variable of the bearer keeps the type the code gives it.
THEOREM TypeCorrect == Spec => []TypeOK
BY InitType, NextType, PTL DEF Spec

\* Whatever DoReceivePdu leaves in the buffer, it leaves guarded.
LEMMA ReceiveGuards ==
  ASSUME StoredIsGuarded, NEW pdu, DoReceivePdu(pdu)
  PROVE  StoredIsGuarded'
<1>1. ASSUME NEW count, Store(pdu, count) PROVE StoredIsGuarded'
  BY <1>1 DEF Store, StartTimerIfStored, StoredIsGuarded
<1>2. ASSUME UNCHANGED <<sdusBuffer, timerRunning>> PROVE StoredIsGuarded'
  BY <1>2 DEF StoredIsGuarded
<1> QED
  BY <1>1, <1>2
     DEF DoReceivePdu, PassThrough, Discard, NextCycle, PreviousCycle, Ahead, Behind

\* Without any condition on the flow, a PDU is never in the reordering buffer
\* without the timer running (the two places of lte-pdcp.cc that start it, and
\* the one that stops it).
THEOREM StoredAlwaysGuarded == Spec => []StoredIsGuarded
<1>1. Init => StoredIsGuarded
  BY DEF Init, PdcpInit, StoredIsGuarded
<1>2. StoredIsGuarded /\ [Next]_vars => StoredIsGuarded'
  <2> SUFFICES ASSUME StoredIsGuarded, [Next]_vars PROVE StoredIsGuarded'
    OBVIOUS
  <2>1. CASE ReceivePdcpPdu \/ ReceiveLwaPacket
    BY <2>1, ReceiveGuards DEF ReceivePdcpPdu, ReceiveLwaPacket
  <2>2. CASE ReorderingTimeout
    BY <2>2 DEF ReorderingTimeout, ExpireReorderingTimer, StartTimerIfStored, StoredIsGuarded
  <2>3. CASE TransmitPdcpSdu \/ ConnectTrace \/ LosePdu \/ UNCHANGED vars
    BY <2>3 DEF TransmitPdcpSdu, ConnectTrace, LosePdu, vars, rxVars, StoredIsGuarded
  <2> QED BY <2>1, <2>2, <2>3 DEF Next
<1> QED BY <1>1, <1>2, PTL DEF Spec
-----------------------------------------------------------------------------
(* Why m_rxHfn - 1 is never computed from an m_rxHfn of 0: this needs no   *)
(* condition on the flow, only that the hyper frame number does not come   *)
(* round to 0 again.                                                       *)

\* The stream ends before as many PDUs have come as m_rxHfn can count: it
\* grows by one for a PDU at most.
HfnFits == MaxSdus < U16

\* In the first cycle nothing that was numbered beyond it has been stored or
\* handed up.
FirstCycle ==
  rxHfn = 0 =>
    /\ lastSubmitted < rxSn \/ lastSubmitted = MaxPdcpSn
    /\ \A c \in DOMAIN sdusBuffer : c < rxSn /\ sdusBuffer[c].sn = c

\* The receiver's part of the invariant.
ReceiverCounts ==
  /\ rxSn <= MaxPdcpSn
  /\ FirstCycle
  /\ \A c \in DOMAIN sdusBuffer : c < U16 * SnSpace

\* The hyper frame number has grown at most once for every PDU that has
\* arrived or was lost.
HfnInStep ==
  /\ IsFiniteSet(rlcPath) /\ IsFiniteSet(lwaPath)
  /\ rxHfn + Cardinality(rlcPath) + Cardinality(lwaPath) <= nextSdu

CountsInStep ==
  IF LwaActive THEN ReceiverCounts /\ HfnInStep ELSE DOMAIN sdusBuffer = {}

\* What is stored was stored or has just come, and so was what went up last.
LEMMA StoredOrNew ==
  ASSUME PdcpTypeOK, NEW pdu \in Pdu, NEW count \in Nat,
         StoreAndHandUp(pdu, count)
  PROVE  /\ \A c \in DOMAIN sdusBuffer' :
              \/ c \in DOMAIN sdusBuffer /\ sdusBuffer'[c] = sdusBuffer[c]
              \/ c = count /\ sdusBuffer'[c] = pdu
         /\ \/ lastSubmitted' \in {lastSubmitted, pdu.sn}
            \/ \E c \in DOMAIN sdusBuffer : lastSubmitted' = sdusBuffer[c].sn
<1> DEFINE buffer == Inserted(pdu, count)
<1>1. \A c \in DOMAIN buffer : \/ c \in DOMAIN sdusBuffer /\ buffer[c] = sdusBuffer[c]
                               \/ c = count /\ buffer[c] = pdu
  BY DEF Inserted
<1> HIDE DEF buffer
<1>2. CASE ~IsNext(pdu.sn)
  <2>1. sdusBuffer' = buffer /\ lastSubmitted' = lastSubmitted
    BY <1>2 DEF StoreAndHandUp, buffer
  <2> QED BY <1>1, <2>1
<1>3. CASE IsNext(pdu.sn)
  <2>1. PICK last \in DOMAIN buffer :
          /\ lastSubmitted' = buffer[last].sn
          /\ sdusBuffer' = Without(buffer, count .. last)
    BY <1>3 DEF StoreAndHandUp, buffer
  <2>2. \A c \in DOMAIN sdusBuffer' : c \in DOMAIN buffer /\ sdusBuffer'[c] = buffer[c]
    BY <2>1 DEF Without
  <2> QED BY <1>1, <2>1, <2>2
<1> QED BY <1>2, <1>3

\* The constants the counts depend on.
LEMMA CountConstants ==
  /\ SnSpace \in Nat /\ Window \in Nat /\ Window > 0 /\ SnSpace = 2 * Window
  /\ MaxPdcpSn = SnSpace - 1 /\ MaxPdcpSn \in Nat
  /\ U16 \in Nat /\ U32 \in Nat /\ SnSpace < U16
BY SnAssumption, WidthAssumption DEF MaxPdcpSn

\* Every COUNT of the cycles m_rxHfn can count stays a cycle below 2^32.
LEMMA CountsBelowU32 ==
  /\ U16 * SnSpace \in Nat
  /\ U16 * SnSpace <= U32 - SnSpace
<1>1. \A a, b \in Nat : a * b \in Nat /\ (a + 1) * b = (a * b) + b
  OBVIOUS
<1>2. U16 * SnSpace \in Nat /\ (U16 + 1) * SnSpace = (U16 * SnSpace) + SnSpace
  BY <1>1, CountConstants
<1> DEFINE p == U16 * SnSpace
<1>3. p \in Nat /\ p + SnSpace <= U32
  BY <1>2, CountAssumption
<1> HIDE DEF p
<1>4. p <= U32 - SnSpace
  BY <1>3, CountConstants
<1> QED BY <1>3, <1>4 DEF p

\* A COUNT is below what the hyper frame numbers can count.
LEMMA CountFits ==
  ASSUME NEW hfn \in 0 .. U16 - 1, NEW sn \in 0 .. MaxPdcpSn
  PROVE  hfn * SnSpace + sn \in Nat /\ hfn * SnSpace + sn < U16 * SnSpace
<1>1. /\ hfn \in Nat /\ sn \in Nat /\ sn < SnSpace /\ U16 - 1 - hfn \in Nat
      /\ SnSpace \in Nat /\ U16 \in Nat
  BY CountConstants
<1>2. \A a, b, c \in Nat : /\ a * b \in Nat /\ c * b \in Nat
                           /\ (a + c + 1) * b = (a * b) + (c * b) + b
  OBVIOUS
<1>3. hfn + (U16 - 1 - hfn) + 1 = U16
  BY <1>1
<1> DEFINE a == hfn * SnSpace
           c == (U16 - 1 - hfn) * SnSpace
           d == U16 * SnSpace
<1>4. a \in Nat /\ c \in Nat /\ d = a + c + SnSpace
  <2> DEFINE g == U16 - 1 - hfn
  <2>1. g \in Nat /\ hfn + g + 1 = U16
    BY <1>1, <1>3
  <2> HIDE DEF g
  <2>2. /\ hfn * SnSpace \in Nat /\ g * SnSpace \in Nat
        /\ (hfn + g + 1) * SnSpace = (hfn * SnSpace) + (g * SnSpace) + SnSpace
    BY <1>1, <1>2, <2>1
  <2> QED BY <2>1, <2>2 DEF g
<1> HIDE DEF a, c, d
<1>5. a + sn \in Nat /\ a + sn < d
  BY <1>1, <1>4
<1> QED BY <1>5 DEF a, d

\* DoReceivePdu keeps the counts in step whatever PDU comes, as long as the
\* hyper frame number does not come round.
LEMMA ReceiveCounts ==
  ASSUME LwaActive, PdcpTypeOK, ReceiverCounts, rxHfn + 1 < U16,
         NEW pdu \in Pdu, DoReceivePdu(pdu)
  PROVE  ReceiverCounts' /\ rxHfn' \in {rxHfn, rxHfn + 1, 1}
<1> USE CountConstants
<1>1. /\ rxSn \in Nat /\ rxSn <= MaxPdcpSn /\ rxHfn \in Nat /\ lastSubmitted \in 0 .. MaxPdcpSn
      /\ pdu.sn \in 0 .. MaxPdcpSn /\ pdu.sn \in Nat
      /\ \A c \in DOMAIN sdusBuffer : c \in Nat /\ sdusBuffer[c].sn \in 0 .. MaxPdcpSn
  <2>1. rxSn \in Nat /\ rxHfn \in Nat /\ rxSn <= MaxPdcpSn
    BY DEF PdcpTypeOK, ReceiverCounts
  <2>2. lastSubmitted \in 0 .. MaxPdcpSn /\ pdu.sn \in 0 .. MaxPdcpSn /\ pdu.sn \in Nat
    BY DEF PdcpTypeOK, Pdu
  <2>3. \A c \in DOMAIN sdusBuffer : c \in Nat /\ sdusBuffer[c].sn \in 0 .. MaxPdcpSn
    BY DEF PdcpTypeOK, Pdu
  <2> QED BY <2>1, <2>2, <2>3
<1>2. (IF rxSn > MaxPdcpSn THEN 0 ELSE rxSn) = rxSn
  BY <1>1
<1>3. \/ IsOld(pdu.sn) /\ Discard(pdu, rxSn)
      \/ /\ ~IsOld(pdu.sn)
         /\ \/ NextCycle(pdu, rxSn) \/ PreviousCycle(pdu, rxSn)
            \/ Ahead(pdu, rxSn) \/ Behind(pdu, rxSn)
  BY <1>2 DEF DoReceivePdu
\* What remains to be shown of the four ways to find the COUNT.
<1>4. ASSUME NEW count \in Nat, Store(pdu, count), count < U16 * SnSpace,
             rxSn' \in Nat, rxSn' <= MaxPdcpSn,
             rxHfn' = 0 => /\ rxHfn = 0 /\ rxSn <= rxSn'
                           /\ count = pdu.sn /\ pdu.sn < rxSn'
      PROVE  ReceiverCounts'
  <2>1. /\ \A c \in DOMAIN sdusBuffer' :
             \/ c \in DOMAIN sdusBuffer /\ sdusBuffer'[c] = sdusBuffer[c]
             \/ c = count /\ sdusBuffer'[c] = pdu
        /\ \/ lastSubmitted' \in {lastSubmitted, pdu.sn}
           \/ \E c \in DOMAIN sdusBuffer : lastSubmitted' = sdusBuffer[c].sn
    BY <1>4, StoredOrNew DEF Store
  <2>2. \A c \in DOMAIN sdusBuffer' : c < U16 * SnSpace
    <3> DEFINE top == U16 * SnSpace
    <3>1. \A c \in DOMAIN sdusBuffer : c < top
      BY DEF ReceiverCounts
    <3>2. count < top
      BY <1>4
    <3> HIDE DEF top
    <3>3. \A c \in DOMAIN sdusBuffer' : c < top
      BY <2>1, <3>1, <3>2
    <3> QED BY <3>3 DEF top
  <2>3. ASSUME rxHfn' = 0
        PROVE  /\ lastSubmitted' < rxSn' \/ lastSubmitted' = MaxPdcpSn
               /\ \A c \in DOMAIN sdusBuffer' : c < rxSn' /\ sdusBuffer'[c].sn = c
    <3>1. /\ rxSn <= rxSn' /\ count = pdu.sn /\ pdu.sn < rxSn'
          /\ lastSubmitted < rxSn \/ lastSubmitted = MaxPdcpSn
          /\ \A c \in DOMAIN sdusBuffer : c < rxSn /\ sdusBuffer[c].sn = c
      BY <1>4, <2>3 DEF ReceiverCounts, FirstCycle
    <3>2. \A c \in DOMAIN sdusBuffer' : c < rxSn' /\ sdusBuffer'[c].sn = c
      BY <1>1, <1>4, <2>1, <3>1
    <3>3. lastSubmitted' < rxSn' \/ lastSubmitted' = MaxPdcpSn
      BY <1>1, <1>4, <2>1, <3>1
    <3> QED BY <3>2, <3>3
  <2> QED BY <1>4, <2>2, <2>3 DEF ReceiverCounts, FirstCycle
<1>5. CASE Discard(pdu, rxSn)
  BY <1>5 DEF Discard, ReceiverCounts, FirstCycle
<1>6. CASE NextCycle(pdu, rxSn)
  <2>1. rxHfn' = rxHfn + 1
    <3>1. \A x, m \in Nat : x < m => x % m = x
      OBVIOUS
    <3>2. rxHfn + 1 \in Nat
      BY <1>1
    <3>3. (rxHfn + 1) % U16 = rxHfn + 1
      BY <3>1, <3>2
    <3> QED BY <1>6, <3>3 DEF NextCycle
  <2>2. rxHfn' \in 0 .. U16 - 1 /\ rxHfn' # 0
    BY <1>1, <2>1
  <2>3. /\ rxHfn' * SnSpace + pdu.sn \in Nat
        /\ rxHfn' * SnSpace + pdu.sn < U16 * SnSpace
    BY <1>1, <2>2, CountFits
  <2>4. rxSn' \in Nat /\ rxSn' <= MaxPdcpSn
    BY <1>1, <1>6 DEF NextCycle
  <2>5. Store(pdu, rxHfn' * SnSpace + pdu.sn)
    BY <1>6 DEF NextCycle
  <2> QED BY <1>4, <2>1, <2>2, <2>3, <2>4, <2>5
<1>7. CASE PreviousCycle(pdu, rxSn) /\ ~IsOld(pdu.sn)
  <2>1. pdu.sn - rxSn >= Window /\ rxSn' = rxSn /\ rxHfn' = rxHfn
    BY <1>7 DEF PreviousCycle
  <2>2. rxHfn # 0
    <3> SUFFICES ASSUME rxHfn = 0 PROVE FALSE
      OBVIOUS
    <3>1. lastSubmitted < rxSn \/ lastSubmitted = MaxPdcpSn
      BY DEF ReceiverCounts, FirstCycle
    <3> QED BY <1>1, <1>7, <2>1, <3>1 DEF IsOld
  <2>3. rxHfn - 1 \in 0 .. U16 - 1
    BY <1>1, <2>2
  <2>4. /\ (rxHfn - 1) * SnSpace + pdu.sn \in Nat
        /\ (rxHfn - 1) * SnSpace + pdu.sn < U16 * SnSpace
    BY <1>1, <2>3, CountFits
  <2>5. Wrapped((rxHfn - 1) * SnSpace + pdu.sn, U32) = (rxHfn - 1) * SnSpace + pdu.sn
    <3>1. \A x \in Nat : Wrapped(x, U32) = x
      BY DEF Wrapped
    <3> QED BY <2>4, <3>1
  <2>6. Store(pdu, (rxHfn - 1) * SnSpace + pdu.sn)
    BY <1>7, <2>5 DEF PreviousCycle
  <2> QED BY <1>1, <1>4, <2>1, <2>2, <2>4, <2>6
<1>8. CASE Ahead(pdu, rxSn) \/ Behind(pdu, rxSn)
  <2>1. Store(pdu, rxHfn * SnSpace + pdu.sn)
    BY <1>8 DEF Ahead, Behind
  <2>2. rxHfn \in 0 .. U16 - 1
    BY <1>1
  <2>3. /\ rxHfn * SnSpace + pdu.sn \in Nat
        /\ rxHfn * SnSpace + pdu.sn < U16 * SnSpace
    BY <1>1, <2>2, CountFits
  <2>4. /\ rxSn' \in Nat /\ rxSn' <= MaxPdcpSn /\ rxHfn' \in {rxHfn, 1}
        /\ rxHfn' = 0 => rxHfn = 0 /\ rxSn <= rxSn' /\ pdu.sn < rxSn'
    <3>1. CASE Behind(pdu, rxSn)
      <4>1. /\ 0 < rxSn - pdu.sn /\ rxSn' = rxSn /\ rxHfn' = rxHfn
        BY <3>1 DEF Behind
      <4> QED BY <1>1, <4>1
    <3>2. CASE Ahead(pdu, rxSn) /\ pdu.sn + 1 > MaxPdcpSn
      <4>1. rxSn' = 0 /\ rxHfn' = 1
        BY <3>2 DEF Ahead
      <4> QED BY <1>1, <4>1
    <3>3. CASE Ahead(pdu, rxSn) /\ ~(pdu.sn + 1 > MaxPdcpSn)
      <4>1. 0 <= pdu.sn - rxSn /\ rxSn' = pdu.sn + 1 /\ rxHfn' = rxHfn
        BY <3>3 DEF Ahead
      <4> QED BY <1>1, <3>3, <4>1
    <3> QED BY <1>8, <3>1, <3>2, <3>3
  <2>5. rxHfn = 0 => rxHfn * SnSpace + pdu.sn = pdu.sn
    <3>1. 0 * SnSpace + pdu.sn = pdu.sn
      BY <1>1
    <3> QED BY <3>1
  <2> QED BY <1>4, <2>1, <2>3, <2>4, <2>5
<1> QED BY <1>3, <1>5, <1>6, <1>7, <1>8

\* The timer hands up what was stored.
LEMMA ExpiryCounts ==
  ASSUME PdcpTypeOK, ReceiverCounts, ExpireReorderingTimer
  PROVE  ReceiverCounts' /\ rxHfn' = rxHfn
<1>1. PICK released \in Releasable :
        \E order \in Ascending(released) :
          /\ lastSubmitted' = IF released = {} THEN lastSubmitted
                              ELSE sdusBuffer[order[Cardinality(released)]].sn
          /\ sdusBuffer' = Without(sdusBuffer, released)
  BY DEF ExpireReorderingTimer
<1>2. PICK order \in Ascending(released) :
        /\ lastSubmitted' = IF released = {} THEN lastSubmitted
                            ELSE sdusBuffer[order[Cardinality(released)]].sn
        /\ sdusBuffer' = Without(sdusBuffer, released)
  BY <1>1
<1>3. rxSn' = rxSn /\ rxHfn' = rxHfn
  BY DEF ExpireReorderingTimer
<1>4. \A c \in DOMAIN sdusBuffer' : c \in DOMAIN sdusBuffer /\ sdusBuffer'[c] = sdusBuffer[c]
  BY <1>2 DEF Without
<1>5. lastSubmitted' = lastSubmitted \/ \E c \in DOMAIN sdusBuffer : lastSubmitted' = sdusBuffer[c].sn
  <2>1. CASE released = {}
    BY <1>2, <2>1
  <2>2. CASE released # {}
    <3>1. released \subseteq DOMAIN sdusBuffer /\ IsFiniteSet(released)
      <4>1. released \subseteq DOMAIN sdusBuffer
        BY DEF Releasable
      <4> QED BY <4>1, FS_Subset DEF PdcpTypeOK
    <3>2. Cardinality(released) \in 1 .. Cardinality(released)
      BY <2>2, <3>1, FS_CardinalityType, FS_EmptySet
    <3>3. order[Cardinality(released)] \in DOMAIN sdusBuffer
      BY <3>1, <3>2 DEF Ascending
    <3> QED BY <1>2, <2>2, <3>3
  <2> QED BY <2>1, <2>2
<1>6. \A c \in DOMAIN sdusBuffer' : c < U16 * SnSpace
  BY <1>4 DEF ReceiverCounts
<1>7. ASSUME rxHfn = 0
      PROVE  /\ lastSubmitted' < rxSn \/ lastSubmitted' = MaxPdcpSn
             /\ \A c \in DOMAIN sdusBuffer' : c < rxSn /\ sdusBuffer'[c].sn = c
  BY <1>4, <1>5, <1>7 DEF ReceiverCounts, FirstCycle
<1> QED BY <1>3, <1>6, <1>7 DEF ReceiverCounts, FirstCycle

\* A PDU leaves a path, and the hyper frame number grows by one at most.
LEMMA ArrivalCounts ==
  ASSUME LwaActive, HfnFits, TypeOK, CountsInStep, Receive
  PROVE  CountsInStep'
<1>1. /\ nextSdu \in Nat /\ nextSdu < U16 /\ rxHfn \in Nat
      /\ IsFiniteSet(rlcPath) /\ IsFiniteSet(lwaPath)
      /\ Cardinality(rlcPath) \in Nat /\ Cardinality(lwaPath) \in Nat
      /\ rxHfn + Cardinality(rlcPath) + Cardinality(lwaPath) <= nextSdu
  <2>1. /\ IsFiniteSet(rlcPath) /\ IsFiniteSet(lwaPath)
        /\ rxHfn + Cardinality(rlcPath) + Cardinality(lwaPath) <= nextSdu
    BY DEF CountsInStep, HfnInStep
  <2>2. Cardinality(rlcPath) \in Nat /\ Cardinality(lwaPath) \in Nat
    BY <2>1, FS_CardinalityType
  <2>3. nextSdu \in Nat /\ nextSdu < U16 /\ rxHfn \in Nat
    BY CountConstants, BoundAssumption DEF TypeOK, PdcpTypeOK, HfnFits
  <2> QED BY <2>1, <2>2, <2>3
<1>2. PICK pdu \in rlcPath \union lwaPath :
        /\ DoReceivePdu(pdu) /\ nextSdu' = nextSdu
        /\ \/ pdu \in rlcPath /\ rlcPath' = rlcPath \ {pdu} /\ lwaPath' = lwaPath
           \/ pdu \in lwaPath /\ lwaPath' = lwaPath \ {pdu} /\ rlcPath' = rlcPath
  BY DEF Receive, ReceivePdcpPdu, ReceiveLwaPacket
<1>3. \A path : IsFiniteSet(path) /\ pdu \in path
        => /\ IsFiniteSet(path \ {pdu})
           /\ Cardinality(path \ {pdu}) = Cardinality(path) - 1
  BY FS_RemoveElement
<1>4. /\ IsFiniteSet(rlcPath') /\ IsFiniteSet(lwaPath')
      /\ Cardinality(rlcPath') + Cardinality(lwaPath')
           = Cardinality(rlcPath) + Cardinality(lwaPath) - 1
  <2>1. CASE pdu \in rlcPath /\ rlcPath' = rlcPath \ {pdu} /\ lwaPath' = lwaPath
    <3>1. IsFiniteSet(rlcPath') /\ Cardinality(rlcPath') = Cardinality(rlcPath) - 1
      BY <1>1, <1>3, <2>1
    <3> QED BY <1>1, <2>1, <3>1
  <2>2. CASE pdu \in lwaPath /\ lwaPath' = lwaPath \ {pdu} /\ rlcPath' = rlcPath
    <3>1. IsFiniteSet(lwaPath') /\ Cardinality(lwaPath') = Cardinality(lwaPath) - 1
      BY <1>1, <1>3, <2>2
    <3> QED BY <1>1, <2>2, <3>1
  <2> QED BY <1>2, <2>1, <2>2
<1>5. Cardinality(rlcPath') \in Nat /\ Cardinality(lwaPath') \in Nat
  BY <1>4, FS_CardinalityType
<1>6. rxHfn + 1 < U16
  BY <1>1, <1>4, <1>5, CountConstants
<1>7. ReceiverCounts' /\ rxHfn' \in {rxHfn, rxHfn + 1, 1}
  <2>1. pdu \in Pdu /\ PdcpTypeOK /\ ReceiverCounts
    BY DEF TypeOK, CountsInStep
  <2> QED BY <1>2, <1>6, <2>1, ReceiveCounts
<1>8. rxHfn' + Cardinality(rlcPath') + Cardinality(lwaPath') <= nextSdu'
  BY <1>1, <1>2, <1>4, <1>5, <1>7
<1> QED BY <1>4, <1>7, <1>8 DEF CountsInStep, HfnInStep

\* A PDU that is sent enters one path, one that is lost leaves one or both.
LEMMA SendCounts ==
  ASSUME LwaActive, TypeOK, CountsInStep, TransmitPdcpSdu \/ LosePdu
  PROVE  CountsInStep'
<1>1. /\ nextSdu \in Nat /\ rxHfn \in Nat
      /\ IsFiniteSet(rlcPath) /\ IsFiniteSet(lwaPath)
      /\ rxHfn + Cardinality(rlcPath) + Cardinality(lwaPath) <= nextSdu
  BY CountConstants, BoundAssumption
     DEF TypeOK, PdcpTypeOK, CountsInStep, HfnInStep
<1>2. Cardinality(rlcPath) \in Nat /\ Cardinality(lwaPath) \in Nat
  BY <1>1, FS_CardinalityType
<1>3. ReceiverCounts' /\ rxHfn' = rxHfn
  <2>1. UNCHANGED rxVars /\ ReceiverCounts
    BY DEF TransmitPdcpSdu, LosePdu, CountsInStep
  <2> QED BY <2>1 DEF rxVars, ReceiverCounts, FirstCycle
<1>4. CASE TransmitPdcpSdu
  <2>1. \A path : IsFiniteSet(path)
          => /\ IsFiniteSet(path \union {NewPdu(nextSdu)})
             /\ Cardinality(path \union {NewPdu(nextSdu)})
                  \in {Cardinality(path), Cardinality(path) + 1}
    BY FS_AddElement
  <2>2. /\ IsFiniteSet(rlcPath') /\ IsFiniteSet(lwaPath') /\ nextSdu' = nextSdu + 1
        /\ \/ Cardinality(rlcPath') \in {Cardinality(rlcPath), Cardinality(rlcPath) + 1}
              /\ Cardinality(lwaPath') = Cardinality(lwaPath)
           \/ Cardinality(lwaPath') \in {Cardinality(lwaPath), Cardinality(lwaPath) + 1}
              /\ Cardinality(rlcPath') = Cardinality(rlcPath)
    BY <1>1, <1>4, <2>1 DEF TransmitPdcpSdu
  <2> QED BY <1>1, <1>2, <1>3, <2>2 DEF CountsInStep, HfnInStep
<1>5. CASE LosePdu
  <2>1. /\ rlcPath' \subseteq rlcPath /\ lwaPath' \subseteq lwaPath /\ nextSdu' = nextSdu
    BY <1>5 DEF LosePdu
  <2>2. /\ IsFiniteSet(rlcPath') /\ Cardinality(rlcPath') <= Cardinality(rlcPath)
        /\ IsFiniteSet(lwaPath') /\ Cardinality(lwaPath') <= Cardinality(lwaPath)
    BY <1>1, <2>1, FS_Subset
  <2>3. Cardinality(rlcPath') \in Nat /\ Cardinality(lwaPath') \in Nat
    BY <2>2, FS_CardinalityType
  <2> QED BY <1>1, <1>2, <1>3, <2>1, <2>2, <2>3 DEF CountsInStep, HfnInStep
<1> QED BY <1>4, <1>5

\* Without LWA nothing is ever stored.
LEMMA NothingIsStored ==
  ASSUME ~LwaActive, DOMAIN sdusBuffer = {}, [Next]_vars
  PROVE  DOMAIN sdusBuffer' = {}
<1>1. CASE ReceivePdcpPdu \/ ReceiveLwaPacket
  BY <1>1 DEF ReceivePdcpPdu, ReceiveLwaPacket, DoReceivePdu, PassThrough
<1>2. CASE ReorderingTimeout
  <2>1. PICK released \in Releasable : sdusBuffer' = Without(sdusBuffer, released)
    BY <1>2 DEF ReorderingTimeout, ExpireReorderingTimer
  <2> QED BY <2>1 DEF Without
<1>3. CASE TransmitPdcpSdu \/ ConnectTrace \/ LosePdu \/ UNCHANGED vars
  BY <1>3 DEF TransmitPdcpSdu, ConnectTrace, LosePdu, vars, rxVars
<1> QED BY <1>1, <1>2, <1>3 DEF Next

\* The counts stay in step for as long as m_rxHfn can count the PDUs.
LEMMA CountsStayInStep ==
  ASSUME HfnFits
  PROVE  Spec => []CountsInStep
<1>1. Init => CountsInStep
  <2> SUFFICES ASSUME Init PROVE CountsInStep
    OBVIOUS
  <2>1. /\ rxSn = 0 /\ rxHfn = 0 /\ lastSubmitted = MaxPdcpSn /\ DOMAIN sdusBuffer = {}
        /\ rlcPath = {} /\ lwaPath = {} /\ nextSdu = 0
    BY DEF Init, PdcpInit
  <2>2. IsFiniteSet({}) /\ Cardinality({}) = 0
    BY FS_EmptySet
  <2>3. ReceiverCounts
    BY <2>1, CountConstants DEF ReceiverCounts, FirstCycle
  <2>4. HfnInStep
    BY <2>1, <2>2 DEF HfnInStep
  <2> QED BY <2>1, <2>3, <2>4 DEF CountsInStep
<1>2. TypeOK /\ CountsInStep /\ [Next]_vars => CountsInStep'
  <2> SUFFICES ASSUME TypeOK, CountsInStep, [Next]_vars PROVE CountsInStep'
    OBVIOUS
  <2>1. CASE ~LwaActive
    <3>1. DOMAIN sdusBuffer' = {}
      BY <2>1, NothingIsStored DEF CountsInStep
    <3> QED BY <2>1, <3>1 DEF CountsInStep
  <2>2. CASE LwaActive
    <3>1. CASE Receive
      BY <2>2, <3>1, ArrivalCounts
    <3>2. CASE TransmitPdcpSdu \/ LosePdu
      BY <2>2, <3>2, SendCounts
    <3>3. CASE ReorderingTimeout
      <4>1. ReceiverCounts' /\ rxHfn' = rxHfn
        BY <2>2, <3>3, ExpiryCounts DEF ReorderingTimeout, TypeOK, CountsInStep
      <4>2. UNCHANGED <<rlcPath, lwaPath, nextSdu>>
        BY <3>3 DEF ReorderingTimeout, pathVars
      <4> QED BY <2>2, <4>1, <4>2 DEF CountsInStep, HfnInStep
    <3>4. CASE ConnectTrace \/ UNCHANGED vars
      BY <2>2, <3>4
         DEF ConnectTrace, vars, rxVars, pathVars, CountsInStep, ReceiverCounts, FirstCycle,
             HfnInStep
    <3> QED BY <3>1, <3>2, <3>3, <3>4 DEF Next, Receive
  <2> QED BY <2>1, <2>2
<1> QED BY <1>1, <1>2, TypeCorrect, PTL DEF Spec

\* No PDU is stored under a COUNT near 2^32, where no timer would release it:
\* DoReceivePdu takes a PDU for one of the cycle before only in a later cycle
\* than the first, however far the sender runs ahead and whatever is lost.
THEOREM CountNeverUnderflows ==
  ASSUME HfnFits
  PROVE  Spec => []NoCountUnderflow
<1>1. TypeOK /\ CountsInStep => NoCountUnderflow
  <2> SUFFICES ASSUME TypeOK, CountsInStep, NEW c \in DOMAIN sdusBuffer
               PROVE  c < U32 - SnSpace
    BY DEF NoCountUnderflow
  <2>1. c \in Nat /\ c < U16 * SnSpace
    BY DEF TypeOK, PdcpTypeOK, CountsInStep, ReceiverCounts
  <2> QED BY <2>1, CountsBelowU32, CountConstants
<1> QED BY <1>1, TypeCorrect, CountsStayInStep, PTL

-----------------------------------------------------------------------------
(* Delivery in order: FlowFits and TwoCycles.                              *)

\* What the assumptions on the constants say in the words of this module.
LEMMA ConstantFacts ==
  /\ Window \in Nat /\ Window > 0
  /\ SnSpace \in Nat /\ SnSpace = 2 * Window
  /\ MaxPdcpSn = SnSpace - 1
  /\ U16 \in Nat /\ 2 * SnSpace < U16
  /\ U32 \in Nat
  /\ MaxSdus \in Nat /\ MaxOutstanding \in Nat
BY SnAssumption, WidthAssumption, BoundAssumption DEF MaxPdcpSn

\* A step that takes nothing back of what has gone up.
HandsUp == \E batch \in Seq(Nat) : handedUp' = handedUp \o batch

\* A step that adds to what has gone up the SDUs that follow it without a gap.
HandsUpRun ==
  \E batch \in Seq(Nat) :
    /\ handedUp' = handedUp \o batch
    /\ \A i \in DOMAIN batch : batch[i] = Submitted + i - 1

\* A step that takes out of the buffer only what goes up.
KeepsTheRest == \A c \in DOMAIN sdusBuffer : c \in DOMAIN sdusBuffer' \/ c < Submitted'

LEMMA NothingHandedUp ==
  ASSUME handedUp \in Seq(Nat), UNCHANGED handedUp
  PROVE  HandsUp /\ HandsUpRun
<1>1. << >> \in Seq(Nat) /\ handedUp \o << >> = handedUp /\ DOMAIN << >> = {}
  BY ConcatEmptySeq, EmptySeq
<1> QED BY <1>1 DEF HandsUp, HandsUpRun

\* Appending a later increasing sequence keeps a sequence increasing.
LEMMA ConcatIncreasing ==
  ASSUME NEW s \in Seq(Nat), NEW t \in Seq(Nat), Increasing(s), Increasing(t),
         \A i \in DOMAIN s, j \in DOMAIN t : s[i] < t[j]
  PROVE  Increasing(s \o t)
<1>1. /\ s \o t \in Seq(Nat)
      /\ Len(s \o t) = Len(s) + Len(t)
      /\ \A i \in 1 .. Len(s) + Len(t) :
           (s \o t)[i] = IF i <= Len(s) THEN s[i] ELSE t[i - Len(s)]
  BY ConcatProperties
<1>2. /\ Len(s) \in Nat /\ DOMAIN s = 1 .. Len(s)
      /\ Len(t) \in Nat /\ DOMAIN t = 1 .. Len(t)
      /\ DOMAIN (s \o t) = 1 .. Len(s) + Len(t)
  BY <1>1, LenProperties
<1>3. SUFFICES ASSUME NEW i \in 1 .. Len(s) + Len(t),
                      NEW j \in 1 .. Len(s) + Len(t), i < j
               PROVE  (s \o t)[i] < (s \o t)[j]
  BY <1>2 DEF Increasing
<1>4. CASE j <= Len(s)
  <2>1. i \in DOMAIN s /\ j \in DOMAIN s
    BY <1>2, <1>3, <1>4
  <2>2. (s \o t)[i] = s[i] /\ (s \o t)[j] = s[j]
    BY <1>1, <1>2, <1>3, <1>4
  <2> QED BY <1>3, <2>1, <2>2 DEF Increasing
<1>5. CASE i <= Len(s) /\ j > Len(s)
  <2>1. i \in DOMAIN s /\ j - Len(s) \in DOMAIN t
    BY <1>2, <1>3, <1>5
  <2>2. (s \o t)[i] = s[i] /\ (s \o t)[j] = t[j - Len(s)]
    BY <1>1, <1>2, <1>3, <1>5
  <2> QED BY <2>1, <2>2
<1>6. CASE i > Len(s)
  <2>1. i - Len(s) \in DOMAIN t /\ j - Len(s) \in DOMAIN t /\ i - Len(s) < j - Len(s)
    BY <1>2, <1>3, <1>6
  <2>2. (s \o t)[i] = t[i - Len(s)] /\ (s \o t)[j] = t[j - Len(s)]
    BY <1>1, <1>2, <1>3, <1>6
  <2> QED BY <2>1, <2>2 DEF Increasing
<1> QED BY <1>2, <1>3, <1>4, <1>5, <1>6

\* Everything handed up lies before Submitted.
LEMMA HandedUpBeforeSubmitted ==
  ASSUME handedUp \in Seq(Nat), InOrderDelivery
  PROVE  /\ Submitted \in Nat
         /\ \A i \in DOMAIN handedUp : handedUp[i] < Submitted
<1>1. Len(handedUp) \in Nat /\ DOMAIN handedUp = 1 .. Len(handedUp)
  BY LenProperties
<1>2. CASE handedUp = << >>
  BY <1>2 DEF Submitted
<1>3. CASE handedUp # << >>
  <2>1. Len(handedUp) \in 1 .. Len(handedUp)
    BY <1>1, <1>3, EmptySeq
  <2>2. handedUp[Len(handedUp)] \in Nat /\ Submitted = handedUp[Len(handedUp)] + 1
    BY <1>3, <2>1, ElementOfSeq DEF Submitted
  <2>3. ASSUME NEW i \in DOMAIN handedUp
        PROVE  handedUp[i] < Submitted
    <3>1. i <= Len(handedUp) /\ handedUp[i] \in Nat
      BY <1>1, <2>3, ElementOfSeq
    <3>2. CASE i = Len(handedUp)
      BY <2>2, <3>2
    <3>3. CASE i < Len(handedUp)
      <4>1. handedUp[i] < handedUp[Len(handedUp)]
        BY <1>1, <2>1, <2>3, <3>3 DEF InOrderDelivery, Increasing
      <4> QED BY <2>2, <3>1, <4>1
    <3> QED BY <1>1, <2>3, <3>1, <3>2, <3>3
  <2> QED BY <2>2, <2>3
<1> QED BY <1>2, <1>3

\* Handing up a later increasing sequence keeps the order and moves
\* Submitted behind its last element.
LEMMA HandUpInOrder ==
  ASSUME handedUp \in Seq(Nat), InOrderDelivery,
         NEW batch \in Seq(Nat), Increasing(batch), batch # << >>,
         \A j \in DOMAIN batch : Submitted <= batch[j],
         handedUp' = handedUp \o batch
  PROVE  /\ InOrderDelivery'
         /\ Submitted' = batch[Len(batch)] + 1
<1>1. \A i \in DOMAIN handedUp : handedUp[i] < Submitted
  BY HandedUpBeforeSubmitted
<1>2. \A i \in DOMAIN handedUp, j \in DOMAIN batch : handedUp[i] < batch[j]
  <2> SUFFICES ASSUME NEW i \in DOMAIN handedUp, NEW j \in DOMAIN batch
               PROVE  handedUp[i] < batch[j]
    OBVIOUS
  <2>1. handedUp[i] \in Nat /\ batch[j] \in Nat
    BY LenProperties, ElementOfSeq
  <2> QED BY <1>1, <2>1, HandedUpBeforeSubmitted
<1>3. Increasing(handedUp \o batch)
  BY <1>2, ConcatIncreasing DEF InOrderDelivery
<1>4. Len(batch) \in Nat /\ Len(batch) > 0 /\ Len(handedUp) \in Nat
  BY LenProperties, EmptySeq
<1>5. /\ handedUp' \in Seq(Nat)
      /\ Len(handedUp') = Len(handedUp) + Len(batch)
      /\ handedUp'[Len(handedUp) + Len(batch)] = batch[Len(batch)]
  BY <1>4, ConcatProperties
<1>6. handedUp' # << >>
  BY <1>4, <1>5
<1>7. Submitted' = batch[Len(batch)] + 1
  BY <1>5, <1>6 DEF Submitted
<1> QED BY <1>3, <1>7 DEF InOrderDelivery, Increasing

\* The entries of the buffer after Inserted, when counts are positions.
LEMMA InsertedInStep ==
  ASSUME PdcpTypeOK, BufferInStep, NEW pdu \in Pdu,
         Submitted <= pdu.idx, pdu.sn = SnOf(pdu.idx)
  PROVE  \A c \in DOMAIN Inserted(pdu, pdu.idx) :
           /\ c \in Nat
           /\ Submitted <= c
           /\ c = pdu.idx \/ c < NextExpected
           /\ Inserted(pdu, pdu.idx)[c].idx = c
           /\ Inserted(pdu, pdu.idx)[c].sn = SnOf(c)
BY DEF PdcpTypeOK, BufferInStep, Inserted, Pdu

\* Storing a PDU under the position of its SDU keeps the two ends in step.
LEMMA StoreInStep ==
  ASSUME PdcpTypeOK, InOrderDelivery, BufferInStep,
         NEW pdu \in Pdu, Submitted <= pdu.idx, pdu.sn = SnOf(pdu.idx),
         IsNext(pdu.sn) <=> pdu.idx = Submitted,
         StoreAndHandUp(pdu, pdu.idx),
         NextExpected \in Nat, NextExpected' \in Nat,
         Submitted <= NextExpected,
         NextExpected <= NextExpected', pdu.idx < NextExpected'
  PROVE  /\ HandsUpRun /\ KeepsTheRest
         /\ pdu.idx \in DOMAIN sdusBuffer' \/ pdu.idx < Submitted'
         /\ InOrderDelivery'
         /\ BufferInStep'
         /\ Submitted' \in Nat
         /\ Submitted <= Submitted' /\ Submitted' <= NextExpected'
         /\ \/ Submitted' = Submitted /\ lastSubmitted' = lastSubmitted
            \/ Submitted' # 0 /\ lastSubmitted' = SnOf(Submitted' - 1)
<1> DEFINE buffer == Inserted(pdu, pdu.idx)
<1>1. \A c \in DOMAIN buffer :
        /\ c \in Nat
        /\ Submitted <= c
        /\ c < NextExpected'
        /\ buffer[c].idx = c
        /\ buffer[c].sn = SnOf(c)
  BY InsertedInStep DEF Pdu
<1>2. \A c \in DOMAIN buffer : buffer[c] \in Pdu
  BY InsertedType DEF Pdu
<1>3. Submitted \in Nat /\ pdu.idx \in Nat /\ handedUp \in Seq(Nat)
  BY HandedUpBeforeSubmitted DEF Pdu, PdcpTypeOK
<1>0. DOMAIN buffer = DOMAIN sdusBuffer \union {pdu.idx}
  BY <1>3, InsertedType
<1> HIDE DEF buffer
<1>4. CASE ~IsNext(pdu.sn)
  <2>1. sdusBuffer' = buffer /\ UNCHANGED <<handedUp, lastSubmitted>>
    BY <1>4 DEF StoreAndHandUp, buffer
  <2>2. Submitted' = Submitted
    BY <2>1 DEF Submitted
  <2>3. InOrderDelivery'
    BY <2>1 DEF InOrderDelivery, Increasing
  <2>4. BufferInStep'
    BY <1>1, <2>1, <2>2 DEF BufferInStep
  <2>5. HandsUpRun
    BY <1>3, <2>1, NothingHandedUp
  <2>6. KeepsTheRest /\ pdu.idx \in DOMAIN sdusBuffer'
    BY <1>0, <2>1 DEF KeepsTheRest
  <2> QED BY <1>3, <2>1, <2>2, <2>3, <2>4, <2>5, <2>6
<1>5. CASE IsNext(pdu.sn)
  <2>0. pdu.idx = Submitted
    BY <1>5
  <2>1. PICK last \in DOMAIN buffer :
          /\ RunFrom(buffer, pdu.idx, last)
          /\ handedUp' = handedUp \o RunOfSdus(buffer, pdu.idx, last)
          /\ lastSubmitted' = buffer[last].sn
          /\ sdusBuffer' = Without(buffer, pdu.idx .. last)
    BY <1>5 DEF StoreAndHandUp, buffer
  <2> DEFINE batch == RunOfSdus(buffer, pdu.idx, last)
  <2>2. /\ last \in Nat /\ last >= pdu.idx /\ last < NextExpected'
        /\ pdu.idx .. last \subseteq DOMAIN buffer
        /\ last + 1 \notin DOMAIN buffer
    BY <1>1, <2>1 DEF RunFrom
  <2>3. batch \in Seq(Nat) /\ Len(batch) = last - pdu.idx + 1
    BY <1>2, <1>3, <2>2, RunOfSdusType
  <2>4. /\ DOMAIN batch = 1 .. last - pdu.idx + 1
        /\ \A i \in 1 .. last - pdu.idx + 1 : batch[i] = pdu.idx + i - 1
    <3>1. \A i \in 1 .. last - pdu.idx + 1 : pdu.idx + i - 1 \in DOMAIN buffer
      <4>1. \A i \in 1 .. last - pdu.idx + 1 : pdu.idx + i - 1 \in pdu.idx .. last
        BY <1>3, <2>2
      <4> QED BY <2>2, <4>1
    <3>2. \A i \in 1 .. last - pdu.idx + 1 :
            buffer[pdu.idx + i - 1].idx = pdu.idx + i - 1
      BY <1>1, <3>1
    <3>3. batch = [i \in 1 .. last - pdu.idx + 1 |-> buffer[pdu.idx + i - 1].idx]
      BY DEF RunOfSdus
    <3> HIDE DEF batch
    <3> QED BY <3>2, <3>3
  <2> HIDE DEF batch
  <2>5. Increasing(batch) /\ batch # << >>
    <3>1. \A i, j \in 1 .. last - pdu.idx + 1 :
            i < j => pdu.idx + i - 1 < pdu.idx + j - 1
      BY <1>3, <2>2
    <3>2. \A i, j \in DOMAIN batch : i < j => batch[i] < batch[j]
      BY ONLY <2>4, <3>1
    <3>3. Len(batch) > 0
      BY <1>3, <2>2, <2>3
    <3> QED BY ONLY <2>3, <3>2, <3>3 DEF Increasing
  <2>6. \A j \in DOMAIN batch : Submitted <= batch[j]
    BY <1>3, <2>0, <2>2, <2>4
  <2>7. handedUp' = handedUp \o batch
    BY <2>1 DEF batch
  <2>8. InOrderDelivery' /\ Submitted' = batch[Len(batch)] + 1
    BY <1>3, <2>3, <2>5, <2>6, <2>7, HandUpInOrder
  <2>9. Submitted' = last + 1
    <3>1. last - pdu.idx + 1 \in 1 .. last - pdu.idx + 1
      BY <1>3, <2>2
    <3>2. pdu.idx + (last - pdu.idx + 1) - 1 = last
      BY <1>3, <2>2
    <3>3. batch[Len(batch)] = last
      BY ONLY <2>3, <2>4, <3>1, <3>2
    <3> QED BY <2>8, <3>3
  <2>10. lastSubmitted' = SnOf(last)
    <3>1. buffer[last].sn = SnOf(last)
      BY <1>1
    <3> QED BY <2>1, <3>1
  <2>11. BufferInStep'
    <3>1. \A c \in DOMAIN sdusBuffer' :
            c \in DOMAIN buffer /\ c > last /\ sdusBuffer'[c] = buffer[c]
      BY <1>1, <1>3, <2>0, <2>1, <2>2 DEF Without
    <3>2. \A c \in DOMAIN sdusBuffer' : last + 1 <= c
      BY <1>1, <2>2, <3>1
    <3> QED BY <1>1, <2>9, <3>1, <3>2 DEF BufferInStep
  <2>12. HandsUpRun
    BY <2>0, <2>3, <2>4, <2>7 DEF HandsUpRun
  <2>13. \A c \in DOMAIN buffer : c \in DOMAIN sdusBuffer' \/ c < last + 1
    BY <1>1, <1>3, <2>1, <2>2 DEF Without
  <2>14. KeepsTheRest /\ pdu.idx < Submitted'
    BY <1>0, <1>3, <2>2, <2>9, <2>13 DEF KeepsTheRest
  <2>15. /\ Submitted' \in Nat /\ Submitted' # 0 /\ Submitted' - 1 = last
         /\ Submitted <= Submitted' /\ Submitted' <= NextExpected'
    <3>1. Submitted \in Nat /\ pdu.idx \in Nat /\ Submitted <= pdu.idx
      BY <1>3, <2>0
    <3>2. last \in Nat /\ pdu.idx <= last /\ last < NextExpected'
      BY <1>1, <1>3, <2>2
    <3>3. \A m, n, k, h, x \in Nat :
            m <= k /\ k <= h /\ h < n /\ x = h + 1
            => x # 0 /\ x - 1 = h /\ m <= x /\ x <= n
      OBVIOUS
    <3> QED BY ONLY <2>9, <3>1, <3>2, <3>3, NextExpected' \in Nat
  <2> QED BY <2>8, <2>10, <2>11, <2>12, <2>14, <2>15
<1> QED BY <1>4, <1>5

\* The product in NextExpected, for the two values the hyper frame number has.
LEMMA NextExpectedCases ==
  ASSUME rxHfn \in {0, 1}, rxSn \in Nat
  PROVE  /\ NextExpected \in Nat
         /\ rxHfn = 0 => NextExpected = rxSn
         /\ rxHfn = 1 => NextExpected = SnSpace + rxSn
<1>1. rxHfn = 0 => rxHfn * SnSpace = 0
  BY ConstantFacts
<1>2. rxHfn = 1 => rxHfn * SnSpace = SnSpace
  BY ConstantFacts
<1> QED BY <1>1, <1>2, ConstantFacts DEF NextExpected

\* The window recognises exactly the PDUs whose place has been passed, and
\* knows the next one.
LEMMA WindowIsRight ==
  ASSUME FlowFits, TwoCycles, InStep, NEW pdu \in rlcPath \union lwaPath
  PROVE  /\ pdu \in Pdu
         /\ Submitted \in Nat
         /\ IsOld(pdu.sn) <=> pdu.idx < Submitted
         /\ IsNext(pdu.sn) <=> pdu.idx = Submitted
<1>1. /\ pdu \in Pdu /\ pdu.idx \in Nat /\ pdu.sn = SnOf(pdu.idx)
      /\ pdu.idx < nextSdu /\ nextSdu - pdu.idx <= MaxOutstanding
      /\ nextSdu \in Nat /\ nextSdu <= MaxSdus
  BY ConstantFacts DEF InStep, TypeOK, PathsInStep, Pdu
<1>2. Submitted \in Nat
  BY HandedUpBeforeSubmitted DEF InStep, TypeOK, PdcpTypeOK
<1>3. /\ nextSdu - Submitted <= MaxOutstanding
      /\ lastSubmitted = IF Submitted = 0 THEN MaxPdcpSn ELSE SnOf(Submitted - 1)
  BY DEF InStep, ReceiverInStep
<1>4. Submitted <= nextSdu
  <2>1. rxSn \in Nat
    BY ConstantFacts DEF InStep, TypeOK, PdcpTypeOK
  <2>2. NextExpected \in Int
    BY <2>1, NextExpectedCases, ConstantFacts DEF InStep, ReceiverInStep
  <2> QED BY <1>1, <1>2, <2>2 DEF InStep, ReceiverInStep
<1>5. IsOld(pdu.sn) <=> pdu.idx < Submitted
  BY <1>1, <1>2, <1>3, <1>4, ConstantFacts DEF IsOld, SnOf, FlowFits, TwoCycles
<1>6. IsNext(pdu.sn) <=> pdu.idx = Submitted
  BY <1>1, <1>2, <1>3, <1>4, ConstantFacts DEF IsNext, SnOf, FlowFits, TwoCycles
<1> QED BY <1>1, <1>2, <1>5, <1>6

\* A received PDU leaves the two ends in step.
LEMMA ReceiveInStep ==
  ASSUME LwaActive, FlowFits, TwoCycles, InStep,
         NEW pdu \in rlcPath \union lwaPath,
         DoReceivePdu(pdu), UNCHANGED nextSdu, TypeOK'
  PROVE  /\ ReceiverInStep' /\ BufferInStep' /\ InOrderDelivery'
         /\ Submitted <= Submitted' /\ HandsUpRun /\ KeepsTheRest
         /\ pdu.idx \in DOMAIN sdusBuffer' \/ pdu.idx < Submitted'
<1> DEFINE n == pdu.idx
<1>1. /\ pdu \in Pdu /\ n \in Nat /\ pdu.sn = SnOf(n)
      /\ n < nextSdu /\ nextSdu - n <= MaxOutstanding
      /\ nextSdu \in Nat /\ nextSdu <= MaxSdus
  BY ConstantFacts DEF InStep, TypeOK, PathsInStep, Pdu
<1>2. /\ Submitted \in Nat
      /\ IsOld(pdu.sn) <=> n < Submitted
      /\ IsNext(pdu.sn) <=> n = Submitted
  BY WindowIsRight
<1>3. /\ rxHfn \in {0, 1} /\ rxSn \in Nat /\ rxSn <= MaxPdcpSn
      /\ PdcpTypeOK /\ InOrderDelivery /\ BufferInStep
  BY ConstantFacts DEF InStep, ReceiverInStep, TypeOK, PdcpTypeOK
<1>4. /\ NextExpected \in Nat
      /\ rxHfn = 0 => NextExpected = rxSn
      /\ rxHfn = 1 => NextExpected = SnSpace + rxSn
  BY <1>3, NextExpectedCases
<1>5. /\ Submitted <= NextExpected /\ NextExpected <= nextSdu
      /\ nextSdu - Submitted <= MaxOutstanding
      /\ lastSubmitted = IF Submitted = 0 THEN MaxPdcpSn ELSE SnOf(Submitted - 1)
  BY DEF InStep, ReceiverInStep
<1>6. CASE IsOld(pdu.sn)
  <2>1. UNCHANGED <<rxSn, rxHfn, lastSubmitted, sdusBuffer, handedUp>>
    BY <1>3, <1>6, ConstantFacts DEF DoReceivePdu, Discard
  <2>2. Submitted' = Submitted /\ NextExpected' = NextExpected
    BY <2>1 DEF Submitted, NextExpected
  <2>3. HandsUpRun
    BY <1>3, <2>1, NothingHandedUp DEF PdcpTypeOK
  <2>4. KeepsTheRest /\ pdu.idx < Submitted'
    BY <1>2, <1>6, <2>1, <2>2 DEF KeepsTheRest
  <2> QED BY <1>2, <1>3, <1>5, <2>1, <2>2, <2>3, <2>4
          DEF InStep, ReceiverInStep, BufferInStep, InOrderDelivery, Increasing
<1>7. CASE ~IsOld(pdu.sn)
  <2>0. Submitted <= n
    BY <1>1, <1>2, <1>7
  <2>1. \/ NextCycle(pdu, rxSn) \/ PreviousCycle(pdu, rxSn)
        \/ Ahead(pdu, rxSn) \/ Behind(pdu, rxSn)
    BY <1>3, <1>7, ConstantFacts DEF DoReceivePdu
  \* Each branch finds the position of the SDU and moves NextExpected behind it.
  <2>2. /\ StoreAndHandUp(pdu, n)
        /\ rxHfn' \in {0, 1} /\ rxSn' \in Nat /\ rxSn' <= MaxPdcpSn
        /\ \/ n < NextExpected /\ rxHfn' = rxHfn /\ rxSn' = rxSn
           \/ /\ n >= NextExpected
              /\ \/ rxHfn' = 0 /\ rxSn' = n + 1
                 \/ rxHfn' = 1 /\ SnSpace + rxSn' = n + 1
    <3>1. CASE NextCycle(pdu, rxSn)
      <4>1. n >= NextExpected /\ rxHfn = 0 /\ SnSpace + pdu.sn = n
        BY <1>1, <1>2, <1>3, <1>4, <1>5, <2>0, <3>1, ConstantFacts
           DEF NextCycle, SnOf, FlowFits, TwoCycles
      <4>2. (0 + 1) % U16 = 1
        BY ConstantFacts
      <4>3. rxHfn' = 1
        BY <3>1, <4>1, <4>2 DEF NextCycle
      <4>4. rxHfn' * SnSpace + pdu.sn = n
        BY <1>1, <4>1, <4>3, ConstantFacts
      <4>5. StoreAndHandUp(pdu, n)
        BY <3>1, <4>4 DEF NextCycle, Store
      <4>6. rxSn' = pdu.sn + 1
        BY <3>1 DEF NextCycle
      <4>7. pdu.sn \in Nat /\ pdu.sn + 1 <= MaxPdcpSn
        BY <1>1, <4>1, ConstantFacts DEF TwoCycles, Pdu
      <4> QED BY <1>1, <4>1, <4>3, <4>5, <4>6, <4>7, ConstantFacts
    <3>2. CASE PreviousCycle(pdu, rxSn)
      <4>1. n < NextExpected /\ rxHfn = 1 /\ pdu.sn = n
        BY <1>1, <1>2, <1>3, <1>4, <1>5, <2>0, <3>2, ConstantFacts
           DEF PreviousCycle, SnOf, FlowFits, TwoCycles
      <4>2. Wrapped((rxHfn - 1) * SnSpace + pdu.sn, U32) = n
        BY <1>1, <4>1, ConstantFacts DEF Wrapped
      <4>3. StoreAndHandUp(pdu, n)
        BY <3>2, <4>2 DEF PreviousCycle, Store
      <4> QED BY <1>3, <3>2, <4>1, <4>3 DEF PreviousCycle
    <3>3. CASE Ahead(pdu, rxSn)
      <4>0. /\ n >= NextExpected
            /\ rxHfn = 0 => pdu.sn = n
            /\ rxHfn = 1 => SnSpace + pdu.sn = n
        BY <1>1, <1>2, <1>3, <1>4, <1>5, <2>0, <3>3, ConstantFacts
           DEF Ahead, SnOf, FlowFits, TwoCycles
      <4>1. n >= NextExpected /\ rxHfn * SnSpace + pdu.sn = n
        BY <1>1, <1>3, <4>0, ConstantFacts
      <4>2. StoreAndHandUp(pdu, n)
        BY <3>3, <4>1 DEF Ahead, Store
      <4>3. CASE pdu.sn + 1 > MaxPdcpSn
        <5>1. rxSn' = 0 /\ rxHfn' = 1
          BY <3>3, <4>3 DEF Ahead
        <5>2. n + 1 = SnSpace
          BY <1>1, <1>3, <4>1, <4>3, ConstantFacts DEF SnOf, TwoCycles
        <5> QED BY <4>1, <4>2, <5>1, <5>2, ConstantFacts
      <4>4. CASE ~(pdu.sn + 1 > MaxPdcpSn)
        <5>1. rxSn' = pdu.sn + 1 /\ rxHfn' = rxHfn
          BY <3>3, <4>4 DEF Ahead
        <5>2. \/ rxHfn = 0 /\ pdu.sn = n
              \/ rxHfn = 1 /\ SnSpace + pdu.sn = n
          BY <1>1, <1>3, <4>1, ConstantFacts DEF SnOf
        <5> QED BY <1>1, <1>3, <4>1, <4>2, <4>4, <5>1, <5>2, ConstantFacts DEF Pdu
      <4> QED BY <4>3, <4>4
    <3>4. CASE Behind(pdu, rxSn)
      <4>1. n < NextExpected /\ rxHfn * SnSpace + pdu.sn = n
        BY <1>1, <1>2, <1>3, <1>4, <1>5, <2>0, <3>4, ConstantFacts
           DEF Behind, SnOf, FlowFits, TwoCycles
      <4>2. StoreAndHandUp(pdu, n)
        BY <3>4, <4>1 DEF Behind, Store
      <4> QED BY <1>3, <3>4, <4>1, <4>2 DEF Behind
    <3> QED BY <2>1, <3>1, <3>2, <3>3, <3>4
  <2>3. /\ NextExpected' \in Nat
        /\ rxHfn' = 0 => NextExpected' = rxSn'
        /\ rxHfn' = 1 => NextExpected' = SnSpace + rxSn'
    <3>0. rxHfn' \in {0, 1} /\ rxSn' \in Nat
      BY <2>2
    <3>1. CASE rxHfn' = 0
      <4>1. rxHfn' * SnSpace = 0
        BY <3>1, ConstantFacts
      <4>2. NextExpected' = 0 + rxSn'
        BY <4>1 DEF NextExpected
      <4>3. \A x \in Nat : 0 + x = x
        OBVIOUS
      <4>4. NextExpected' = rxSn'
        BY <3>0, <4>2, <4>3
      <4> QED BY <3>0, <3>1, <4>4
    <3>2. CASE rxHfn' = 1
      <4>1. rxHfn' * SnSpace = SnSpace
        BY <3>2, ConstantFacts
      <4>2. NextExpected' = SnSpace + rxSn'
        BY <4>1 DEF NextExpected
      <4>3. \A x \in Nat : SnSpace + x \in Nat
        BY ConstantFacts
      <4> QED BY <3>0, <3>2, <4>2, <4>3
    <3> QED BY <3>0, <3>1, <3>2
  <2>4. /\ NextExpected <= NextExpected' /\ n < NextExpected'
        /\ NextExpected' <= nextSdu
    BY <1>1, <1>3, <1>4, <1>5, <2>2, <2>3
  <2>5. /\ HandsUpRun /\ InOrderDelivery' /\ BufferInStep' /\ KeepsTheRest
        /\ pdu.idx \in DOMAIN sdusBuffer' \/ pdu.idx < Submitted'
        /\ Submitted' \in Nat
        /\ Submitted <= Submitted' /\ Submitted' <= NextExpected'
        /\ \/ Submitted' = Submitted /\ lastSubmitted' = lastSubmitted
           \/ Submitted' # 0 /\ lastSubmitted' = SnOf(Submitted' - 1)
    <3>1. pdu.sn = SnOf(pdu.idx) /\ Submitted <= pdu.idx
      BY <1>1, <2>0
    <3>2. StoreAndHandUp(pdu, pdu.idx)
      BY <2>2
    <3>3. NextExpected \in Nat /\ NextExpected' \in Nat /\ Submitted <= NextExpected
      BY <1>4, <1>5, <2>3
    <3> HIDE DEF n
    <3> QED BY <1>1, <1>2, <1>3, <2>4, <3>1, <3>2, <3>3, StoreInStep DEF n
  <2>6. nextSdu' - Submitted' <= MaxOutstanding
    <3>1. Submitted' \in Nat /\ Submitted <= Submitted'
      BY <2>5
    <3>2. nextSdu' = nextSdu
      OBVIOUS
    <3>3. \A s, p, q, m \in Nat : s - p <= m /\ p <= q => s - q <= m
      OBVIOUS
    <3> QED BY <1>1, <1>2, <1>5, <3>1, <3>2, <3>3, ConstantFacts
  <2>7. lastSubmitted' = IF Submitted' = 0 THEN MaxPdcpSn ELSE SnOf(Submitted' - 1)
    BY <1>5, <2>5
  <2> QED BY <1>1, <2>2, <2>4, <2>5, <2>6, <2>7 DEF ReceiverInStep, MaxPdcpSn
<1> QED BY <1>6, <1>7

\* The timer takes a prefix of the buffer, in the order of the COUNTs, and
\* what it leaves lies behind what it took.
LEMMA ReleasedPrefix ==
  ASSUME PdcpTypeOK, NEW released \in Releasable
  PROVE  /\ released \subseteq DOMAIN sdusBuffer
         /\ IsFiniteSet(released) /\ Cardinality(released) \in Nat
         /\ \A c \in released, d \in DOMAIN sdusBuffer \ released : c < d
<1>1. released \subseteq DOMAIN sdusBuffer
  BY DEF Releasable
<1>2. IsFiniteSet(released) /\ Cardinality(released) \in Nat
  BY <1>1, FS_Subset, FS_CardinalityType DEF PdcpTypeOK
<1>3. SUFFICES ASSUME NEW c \in released, NEW d \in DOMAIN sdusBuffer \ released
               PROVE  c < d
  BY <1>1, <1>2
<1>4. c \in Nat /\ d \in Nat /\ reorderingRxCount \in Nat
  BY <1>1, ConstantFacts DEF PdcpTypeOK
<1>5. c <= reorderingRxCount
  BY <1>3 DEF Releasable
<1>6. CASE d <= reorderingRxCount
  BY <1>3, <1>6 DEF Releasable
<1>7. CASE ~(d <= reorderingRxCount)
  BY <1>4, <1>5, <1>7
<1> QED BY <1>6, <1>7

\* An increasing function from 1 .. Cardinality(T) to T takes every value.
LEMMA IncreasingIsOnto ==
  ASSUME NEW T, IsFiniteSet(T), NEW k \in Nat, k = Cardinality(T),
         NEW f \in [1 .. k -> T], \A i \in 1 .. k : f[i] \in Nat,
         \A i, j \in 1 .. k : i < j => f[i] < f[j]
  PROVE  \A c \in T : \E i \in 1 .. k : f[i] = c
<1>1. ASSUME NEW i \in 1 .. k, NEW j \in 1 .. k, f[i] = f[j] PROVE i = j
  <2>1. ~(i < j) /\ ~(j < i)
    BY <1>1
  <2> QED BY <2>1
<1>2. f \in Injection(1 .. k, T)
  BY <1>1 DEF Injection, IsInjective
<1>3. Cardinality(1 .. k) = k
  BY FS_Interval
<1>4. f \in Surjection(1 .. k, T)
  BY <1>2, <1>3, FS_Injection
<1> QED BY <1>4 DEF Surjection

\* The expiry of the reordering timer leaves the two ends in step.
LEMMA ExpireInStep ==
  ASSUME InStep, ExpireReorderingTimer, UNCHANGED nextSdu
  PROVE  /\ ReceiverInStep' /\ BufferInStep' /\ InOrderDelivery'
         /\ Submitted <= Submitted' /\ HandsUp /\ KeepsTheRest
<1> DEFINE Batch(released, order) ==
             [i \in 1 .. Cardinality(released) |-> sdusBuffer[order[i]].idx]
           Taken(released, order) ==
             /\ handedUp' = handedUp \o Batch(released, order)
             /\ lastSubmitted' = IF released = {} THEN lastSubmitted
                                 ELSE sdusBuffer[order[Cardinality(released)]].sn
             /\ sdusBuffer' = Without(sdusBuffer, released)
<1>0. PICK released \in Releasable :
        \E order \in Ascending(released) : Taken(released, order)
  BY DEF ExpireReorderingTimer
<1>1. PICK order \in Ascending(released) : Taken(released, order)
  BY <1>0
<1>2. /\ PdcpTypeOK /\ handedUp \in Seq(Nat) /\ InOrderDelivery
      /\ nextSdu \in Nat /\ nextSdu' = nextSdu
      /\ Submitted \in Nat
      /\ UNCHANGED <<rxSn, rxHfn>>
  BY HandedUpBeforeSubmitted, ConstantFacts
     DEF InStep, TypeOK, PdcpTypeOK, ExpireReorderingTimer
<1>3. /\ released \subseteq DOMAIN sdusBuffer
      /\ Cardinality(released) \in Nat
      /\ \A c \in released, d \in DOMAIN sdusBuffer \ released : c < d
  BY <1>2, ReleasedPrefix
<1>4. /\ rxHfn \in {0, 1} /\ rxSn \in Nat /\ rxSn <= MaxPdcpSn
      /\ NextExpected \in Nat /\ NextExpected' = NextExpected
      /\ Submitted <= NextExpected /\ NextExpected <= nextSdu
      /\ nextSdu - Submitted <= MaxOutstanding
  BY <1>2, NextExpectedCases, ConstantFacts
     DEF InStep, ReceiverInStep, TypeOK, PdcpTypeOK, NextExpected
<1>5. \A c \in DOMAIN sdusBuffer :
        /\ c \in Nat /\ Submitted <= c /\ c < NextExpected
        /\ sdusBuffer[c].idx = c /\ sdusBuffer[c].sn = SnOf(c)
  BY DEF InStep, BufferInStep, TypeOK, PdcpTypeOK
<1>6. CASE released = {}
  <2>1. Cardinality(released) = 0
    BY <1>6, FS_EmptySet
  <2>2. Batch(released, order) = << >>
    BY <2>1
  <2>3. handedUp' = handedUp
    BY <1>1, <1>2, <2>2, ConcatEmptySeq
  <2>4. Submitted' = Submitted /\ lastSubmitted' = lastSubmitted
    BY <1>1, <1>6, <2>3 DEF Submitted
  <2>5. InOrderDelivery'
    BY <1>2, <2>3 DEF InOrderDelivery, Increasing
  <2>6. BufferInStep'
    BY <1>1, <1>4, <1>5, <2>4 DEF BufferInStep, Without
  <2>7. ReceiverInStep'
    BY <1>2, <1>4, <2>4 DEF InStep, ReceiverInStep
  <2>8. HandsUp
    BY <1>2, <2>3, NothingHandedUp
  <2>9. KeepsTheRest
    BY <1>1, <1>6 DEF KeepsTheRest, Without
  <2> QED BY <1>2, <2>4, <2>5, <2>6, <2>7, <2>8, <2>9
<1>7. CASE released # {}
  <2> DEFINE k == Cardinality(released)
             batch == Batch(released, order)
             last == order[k]
  <2>1. k \in Nat /\ k > 0
    BY <1>2, <1>3, <1>7, ReleasedPrefix, FS_EmptySet
  <2>2. /\ \A i \in 1 .. k : order[i] \in released
        /\ \A i, j \in 1 .. k : i < j => order[i] < order[j]
    BY DEF Ascending
  <2>3. \A i \in 1 .. k : sdusBuffer[order[i]].idx = order[i] /\ order[i] \in Nat
    BY <1>3, <1>5, <2>2
  <2>4. batch = [i \in 1 .. k |-> sdusBuffer[order[i]].idx]
    OBVIOUS
  <2>5. handedUp' = handedUp \o batch /\ sdusBuffer' = Without(sdusBuffer, released)
    BY <1>1
  <2>6. lastSubmitted' = sdusBuffer[last].sn
    BY <1>1, <1>7
  <2> HIDE DEF k, batch
  <2>7. last \in released
    BY <2>1, <2>2
  <2> HIDE DEF last
  <2>8. /\ batch \in Seq(Nat) /\ Len(batch) = k /\ DOMAIN batch = 1 .. k
        /\ \A i \in 1 .. k : batch[i] = order[i]
    BY <2>1, <2>3, <2>4
  <2>9. Increasing(batch) /\ batch # << >>
    <3>1. \A i, j \in DOMAIN batch : i < j => batch[i] < batch[j]
      BY ONLY <2>2, <2>8
    <3>2. Len(batch) > 0
      BY ONLY <2>1, <2>8
    <3> QED BY ONLY <2>8, <3>1, <3>2 DEF Increasing
  <2>10. \A j \in DOMAIN batch : Submitted <= batch[j]
    BY <1>3, <1>5, <2>2, <2>8
  <2>11. InOrderDelivery' /\ Submitted' = batch[Len(batch)] + 1
    BY <1>2, <2>5, <2>8, <2>9, <2>10, HandUpInOrder
  <2>12. Submitted' = last + 1
    <3>1. batch[Len(batch)] = last
      BY <2>1, <2>8 DEF last
    <3> QED BY <2>11, <3>1
  <2>13. /\ last \in Nat /\ Submitted <= last /\ last < NextExpected
         /\ sdusBuffer[last].sn = SnOf(last)
    BY <1>3, <1>5, <2>7
  <2>14. Submitted' \in Nat /\ Submitted <= Submitted' /\ Submitted' <= NextExpected
         /\ Submitted' # 0 /\ Submitted' - 1 = last
    <3>1. \A s, l, r \in Nat : s <= l /\ l < r =>
            l + 1 \in Nat /\ s <= l + 1 /\ l + 1 <= r /\ l + 1 # 0 /\ (l + 1) - 1 = l
      OBVIOUS
    <3> QED BY <1>2, <1>4, <2>12, <2>13, <3>1
  <2>15. BufferInStep'
    <3>1. \A c \in DOMAIN sdusBuffer' :
            c \in DOMAIN sdusBuffer /\ last < c /\ sdusBuffer'[c] = sdusBuffer[c]
      BY <1>3, <2>5, <2>7 DEF Without
    <3>2. \A c \in DOMAIN sdusBuffer' : last + 1 <= c
      BY <1>5, <2>13, <3>1
    <3> QED BY <1>4, <1>5, <2>12, <3>1, <3>2 DEF BufferInStep
  <2>16. nextSdu' - Submitted' <= MaxOutstanding
    <3>1. \A s, p, q, m \in Nat : s - p <= m /\ p <= q => s - q <= m
      OBVIOUS
    <3> QED BY <1>2, <1>4, <2>14, <3>1, ConstantFacts
  <2>17. lastSubmitted' = SnOf(Submitted' - 1)
    BY <2>6, <2>13, <2>14
  <2>18. HandsUp
    BY <2>5, <2>8 DEF HandsUp
  <2>19. \A c \in released : c <= last
    <3>1. k = Cardinality(released) /\ IsFiniteSet(released)
      BY <1>2, ReleasedPrefix DEF k
    <3>2. order \in [1 .. k -> released]
      BY <3>1 DEF Ascending
    <3>3. \A c \in released : \E i \in 1 .. k : order[i] = c
      <4>1. \A i \in 1 .. k : order[i] \in Nat
        BY <2>3
      <4> QED BY ONLY <2>1, <2>2, <3>1, <3>2, <4>1, IncreasingIsOnto
    <3> QED BY <2>1, <2>2, <2>3, <3>3 DEF last
  <2>20. KeepsTheRest
    <3>1. \A c \in DOMAIN sdusBuffer : c \in DOMAIN sdusBuffer' \/ c \in released
      BY <2>5 DEF Without
    <3> QED BY <1>3, <1>5, <2>12, <2>13, <2>19, <3>1 DEF KeepsTheRest
  <2> QED BY <1>2, <1>4, <2>11, <2>14, <2>15, <2>16, <2>17, <2>18, <2>20 DEF ReceiverInStep
<1> QED BY <1>6, <1>7

\* A PDU whose SDU has just been numbered is in step.
LEMMA TransmitInStep ==
  ASSUME FlowFits, TwoCycles, InStep, TransmitPdcpSdu
  PROVE  PathsInStep'
<1>1. /\ nextSdu \in Nat /\ nextSdu < MaxSdus /\ nextSdu' = nextSdu + 1
      /\ txSn = SnOf(nextSdu)
      /\ txSn' = IF txSn + 1 > MaxPdcpSn THEN 0 ELSE txSn + 1
  BY ConstantFacts
     DEF InStep, TypeOK, PathsInStep, TransmitPdcpSdu, NumberSdu
<1>2. txSn' = SnOf(nextSdu')
  BY <1>1, ConstantFacts DEF SnOf, TwoCycles
<1>3. ASSUME NEW pdu \in rlcPath' \union lwaPath'
      PROVE  /\ pdu.idx < nextSdu'
             /\ nextSdu' - pdu.idx <= MaxOutstanding
             /\ pdu.sn = SnOf(pdu.idx)
  <2>1. CASE pdu = NewPdu(nextSdu)
    <3>1. pdu.idx = nextSdu /\ pdu.sn = SnOf(nextSdu)
      BY <1>1, <2>1 DEF NewPdu
    <3>2. MaxOutstanding >= 1
      BY BoundAssumption
    <3> QED BY <1>1, <3>1, <3>2, ConstantFacts
  <2>2. CASE pdu \in rlcPath \union lwaPath
    <3>1. pdu.idx \in InFlight /\ pdu.idx \in Nat
      BY <2>2 DEF InFlight, InStep, TypeOK, Pdu
    <3>2. nextSdu - pdu.idx < MaxOutstanding
      BY <3>1 DEF TransmitPdcpSdu, SenderMayRun
    <3>3. pdu.idx < nextSdu /\ pdu.sn = SnOf(pdu.idx)
      BY <2>2 DEF InStep, PathsInStep
    <3> QED BY <1>1, <3>1, <3>2, <3>3, ConstantFacts
  <2> QED BY <1>3, <2>1, <2>2 DEF TransmitPdcpSdu
<1> QED BY <1>2, <1>3 DEF PathsInStep

\* With LWA on, the two ends of the bearer stay in step for ever: the
\* inductive invariant of the bearer.
THEOREM InStepCorrect ==
  ASSUME LwaActive, FlowFits, TwoCycles
  PROVE  Spec => []InStep
<1>1. Init => InStep
  <2> SUFFICES ASSUME Init, TypeOK PROVE InStep
    BY InitType
  <2>1. /\ Submitted = 0 /\ handedUp = << >> /\ nextSdu = 0 /\ rxSn = 0 /\ rxHfn = 0
        /\ lastSubmitted = MaxPdcpSn /\ DOMAIN sdusBuffer = {} /\ txSn = 0
        /\ rlcPath \union lwaPath = {}
    BY DEF Init, PdcpInit, Submitted
  <2>2. NextExpected = 0
    BY <2>1, NextExpectedCases
  <2>3. PathsInStep
    BY <2>1, ConstantFacts DEF PathsInStep, SnOf
  <2>4. ReceiverInStep
    BY <2>1, <2>2, ConstantFacts DEF ReceiverInStep
  <2>5. BufferInStep
    BY <2>1 DEF BufferInStep
  <2>6. InOrderDelivery
    BY <2>1 DEF InOrderDelivery, Increasing
  <2> QED BY <2>3, <2>4, <2>5, <2>6 DEF InStep
<1>2. InStep /\ [Next]_vars => InStep'
  <2> SUFFICES ASSUME InStep, [Next]_vars, TypeOK' PROVE InStep'
    BY NextType DEF InStep
  \* The sender and the paths leave the receiver alone.
  <2>0. ASSUME UNCHANGED <<rxSn, rxHfn, lastSubmitted, sdusBuffer, handedUp>>,
               nextSdu' = nextSdu
        PROVE  ReceiverInStep' /\ BufferInStep' /\ InOrderDelivery'
    BY <2>0 DEF InStep, ReceiverInStep, BufferInStep, InOrderDelivery, Increasing,
                NextExpected, Submitted
  \* A PDU that leaves its path leaves the others in step.
  <2>9. ASSUME rlcPath' \union lwaPath' \subseteq rlcPath \union lwaPath,
               UNCHANGED <<txSn, nextSdu>>
        PROVE  PathsInStep'
    BY <2>9 DEF InStep, PathsInStep
  <2>1. CASE TransmitPdcpSdu
    <3>1. PathsInStep'
      BY <2>1, TransmitInStep
    <3>2. /\ UNCHANGED <<rxSn, rxHfn, lastSubmitted, sdusBuffer, handedUp>>
          /\ nextSdu' = nextSdu + 1 /\ nextSdu - Submitted < MaxOutstanding
      BY <2>1 DEF TransmitPdcpSdu, SenderMayRun, rxVars
    <3>3. Submitted' = Submitted /\ NextExpected' = NextExpected
      BY <3>2 DEF Submitted, NextExpected
    <3>4. /\ Submitted \in Nat /\ nextSdu \in Nat /\ NextExpected \in Nat
      BY HandedUpBeforeSubmitted, NextExpectedCases, ConstantFacts
         DEF InStep, ReceiverInStep, TypeOK, PdcpTypeOK
    <3>5. ReceiverInStep'
      BY <3>2, <3>3, <3>4, ConstantFacts DEF InStep, ReceiverInStep
    <3>6. BufferInStep' /\ InOrderDelivery'
      BY <3>2, <3>3 DEF InStep, BufferInStep, InOrderDelivery, Increasing
    <3> QED BY <3>1, <3>5, <3>6 DEF InStep
  <2>2. CASE ConnectTrace
    BY <2>0, <2>2, <2>9 DEF ConnectTrace, txVars, rxVars, InStep
  <2>3. CASE ReceivePdcpPdu
    <3>1. PICK pdu \in rlcPath :
            /\ DoReceivePdu(pdu)
            /\ rlcPath' = rlcPath \ {pdu}
            /\ UNCHANGED <<txVars, nextSdu, lwaPath, traceConnected, lost>>
      BY <2>3 DEF ReceivePdcpPdu
    <3>2. ReceiverInStep' /\ BufferInStep' /\ InOrderDelivery'
      BY <3>1, ReceiveInStep
    <3>3. PathsInStep'
      BY <2>9, <3>1 DEF txVars
    <3> QED BY <3>2, <3>3 DEF InStep
  <2>4. CASE ReceiveLwaPacket
    <3>1. PICK pdu \in lwaPath :
            /\ DoReceivePdu(pdu)
            /\ lwaPath' = lwaPath \ {pdu}
            /\ UNCHANGED <<txVars, nextSdu, rlcPath, traceConnected, lost>>
      BY <2>4 DEF ReceiveLwaPacket
    <3>2. ReceiverInStep' /\ BufferInStep' /\ InOrderDelivery'
      BY <3>1, ReceiveInStep
    <3>3. PathsInStep'
      BY <2>9, <3>1 DEF txVars
    <3> QED BY <3>2, <3>3 DEF InStep
  <2>5. CASE LosePdu
    <3>1. PathsInStep'
      BY <2>5, <2>9 DEF LosePdu, txVars
    <3>2. ReceiverInStep' /\ BufferInStep' /\ InOrderDelivery'
      BY <2>0, <2>5 DEF LosePdu, rxVars
    <3> QED BY <3>1, <3>2 DEF InStep
  <2>6. CASE ReorderingTimeout
    <3>1. PathsInStep'
      BY <2>6, <2>9 DEF ReorderingTimeout, txVars, pathVars
    <3>2. ReceiverInStep' /\ BufferInStep' /\ InOrderDelivery'
      BY <2>6, ExpireInStep DEF ReorderingTimeout, pathVars
    <3> QED BY <3>1, <3>2 DEF InStep
  <2>7. CASE UNCHANGED vars
    BY <2>0, <2>7, <2>9 DEF vars, txVars, rxVars, pathVars, InStep
  <2> QED BY <2>1, <2>2, <2>3, <2>4, <2>5, <2>6, <2>7 DEF Next
<1> QED BY <1>1, <1>2, PTL DEF Spec

\* With LWA on, SDUs go up in order, each at most once.
THEOREM DeliveryInOrder ==
  ASSUME LwaActive, FlowFits, TwoCycles
  PROVE  Spec => []InOrderDelivery
<1>1. InStep => InOrderDelivery
  BY DEF InStep
<1> QED BY <1>1, InStepCorrect, PTL

\* With LWA on, the COUNT of every stored PDU is the position of its SDU.
THEOREM CountsArePositions ==
  ASSUME LwaActive, FlowFits, TwoCycles
  PROVE  Spec => []CountIsPosition
<1>1. InStep => CountIsPosition
  BY DEF InStep, BufferInStep, CountIsPosition
<1> QED BY <1>1, InStepCorrect, PTL

\* With LWA on, what a received PDU lets go up follows what has gone up
\* without a gap: only the timer skips an SDU.
THEOREM OnlyTimerSkips ==
  ASSUME LwaActive, FlowFits, TwoCycles
  PROVE  Spec => GapsOnlyByTimer
<1> DEFINE NoGap == \A i \in DOMAIN handedUp' \ DOMAIN handedUp :
                      handedUp'[i] = Submitted + (i - Len(handedUp)) - 1
<1>1. InStep /\ TypeOK' /\ [Next]_vars => [Receive => NoGap]_vars
  <2> SUFFICES ASSUME InStep, TypeOK', Receive PROVE NoGap
    OBVIOUS
  <2>1. PICK pdu \in rlcPath \union lwaPath : DoReceivePdu(pdu) /\ UNCHANGED nextSdu
    BY DEF Receive, ReceivePdcpPdu, ReceiveLwaPacket
  <2>2. HandsUpRun
    BY <2>1, ReceiveInStep
  <2>3. PICK batch \in Seq(Nat) :
          /\ handedUp' = handedUp \o batch
          /\ \A i \in DOMAIN batch : batch[i] = Submitted + i - 1
    BY <2>2 DEF HandsUpRun
  <2>4. handedUp \in Seq(Nat)
    BY DEF InStep, TypeOK, PdcpTypeOK
  <2>5. /\ Len(handedUp) \in Nat /\ DOMAIN handedUp = 1 .. Len(handedUp)
        /\ Len(batch) \in Nat /\ DOMAIN batch = 1 .. Len(batch)
        /\ DOMAIN handedUp' = 1 .. Len(handedUp) + Len(batch)
        /\ \A i \in 1 .. Len(handedUp) + Len(batch) :
             handedUp'[i] = IF i <= Len(handedUp) THEN handedUp[i]
                            ELSE batch[i - Len(handedUp)]
    BY <2>3, <2>4, LenProperties, ConcatProperties
  <2>6. ASSUME NEW i \in DOMAIN handedUp' \ DOMAIN handedUp
        PROVE  handedUp'[i] = Submitted + (i - Len(handedUp)) - 1
    <3>1. i - Len(handedUp) \in DOMAIN batch /\ ~(i <= Len(handedUp))
      BY <2>5, <2>6
    <3>2. handedUp'[i] = batch[i - Len(handedUp)]
      BY <2>5, <2>6, <3>1
    <3> QED BY <2>3, <3>1, <3>2
  <2> QED BY <2>6
<1>2. InStep => TypeOK
  BY DEF InStep
<1> QED BY <1>1, <1>2, InStepCorrect, PTL DEF Spec, GapsOnlyByTimer

-----------------------------------------------------------------------------
(* What the upper layer gets.                                              *)


\* The last element of an increasing sequence is its largest.
LEMMA LastIsLargest ==
  ASSUME NEW s \in Seq(Nat), Increasing(s), s # << >>
  PROVE  /\ s[Len(s)] \in Nat
         /\ \A i \in DOMAIN s : s[i] <= s[Len(s)]
<1>1. Len(s) \in Nat /\ DOMAIN s = 1 .. Len(s) /\ Len(s) \in DOMAIN s
  BY LenProperties, EmptySeq
<1>2. \A i \in DOMAIN s : s[i] \in Nat
  BY <1>1, ElementOfSeq
<1>3. ASSUME NEW i \in DOMAIN s PROVE s[i] <= s[Len(s)]
  <2>1. CASE i = Len(s)
    BY <1>1, <1>2, <2>1
  <2>2. CASE i # Len(s)
    <3>1. i < Len(s)
      BY <1>1, <1>3, <2>2
    <3>2. s[i] < s[Len(s)]
      BY <1>1, <1>3, <3>1 DEF Increasing
    <3> QED BY <1>1, <1>2, <3>2
  <2> QED BY <2>1, <2>2
<1> QED BY <1>1, <1>2, <1>3

\* A step that hands SDUs up between two states that are in step delivers
\* them as the service does, or delivers none.
LEMMA HandsUpDelivers ==
  ASSUME InStep, InStep', HandsUp, UNCHANGED nextSdu
  PROVE  Service!Deliver \/ UNCHANGED <<nextSdu, handedUp>>
<1>1. PICK batch \in Seq(Nat) : handedUp' = handedUp \o batch
  BY DEF HandsUp
<1>2. /\ handedUp \in Seq(Nat) /\ handedUp' \in Seq(Nat) /\ Increasing(handedUp')
      /\ rxHfn' \in {0, 1} /\ rxSn' \in Nat
      /\ Submitted' <= NextExpected' /\ NextExpected' <= nextSdu' /\ nextSdu \in Nat
  BY ConstantFacts
     DEF InStep, ReceiverInStep, InOrderDelivery, Increasing, TypeOK, PdcpTypeOK
<1>3. /\ Len(handedUp) \in Nat /\ Len(batch) \in Nat
      /\ Len(handedUp') = Len(handedUp) + Len(batch)
      /\ DOMAIN handedUp' = 1 .. Len(handedUp')
      /\ \A i \in 1 .. Len(handedUp) : handedUp'[i] = handedUp[i]
  BY <1>1, <1>2, LenProperties, ConcatProperties
<1>4. CASE batch = << >>
  BY <1>1, <1>2, <1>4, ConcatEmptySeq
<1>5. CASE batch # << >>
  <2>1. Len(handedUp') > Len(handedUp) /\ handedUp' # << >>
    BY <1>2, <1>3, <1>5, EmptySeq
  <2>2. /\ handedUp'[Len(handedUp')] \in Nat
        /\ \A i \in DOMAIN handedUp' : handedUp'[i] <= handedUp'[Len(handedUp')]
    BY <1>2, <2>1, LastIsLargest
  <2>3. Submitted' = handedUp'[Len(handedUp')] + 1
    BY <2>1 DEF Submitted
  <2>4. NextExpected' \in Nat
    <3>1. rxHfn' \in Nat
      BY <1>2
    <3>2. rxHfn' * SnSpace \in Nat
      BY <3>1, ProductInNat, ConstantFacts
    <3>3. NextExpected' = rxHfn' * SnSpace + rxSn'
      BY DEF NextExpected
    <3>4. \A x, y \in Nat : x + y \in Nat
      OBVIOUS
    <3> QED BY <1>2, <3>2, <3>3, <3>4
  <2>5. \A x, y, z, w \in Nat : x <= y /\ y + 1 <= z /\ z <= w => x < w
    OBVIOUS
  <2>6. ASSUME NEW i \in Len(handedUp) + 1 .. Len(handedUp')
        PROVE  /\ Service!NextIndex(handedUp) <= handedUp'[i]
               /\ handedUp'[i] < nextSdu
               /\ i > Len(handedUp) + 1 => handedUp'[i - 1] < handedUp'[i]
    <3>0. i \in 1 .. Len(handedUp')
      BY ONLY <1>3, <2>1, <2>6
    <3>1. i \in DOMAIN handedUp' /\ handedUp'[i] \in Nat
      BY ONLY <1>2, <1>3, <3>0, ElementOfSeq
    <3>2. handedUp'[i] < nextSdu
      BY <1>2, <2>2, <2>3, <2>4, <2>5, <3>1
    <3>3. Service!NextIndex(handedUp) <= handedUp'[i]
      <4>1. CASE handedUp = << >>
        BY <3>1, <4>1 DEF Service!NextIndex
      <4>2. CASE handedUp # << >>
        <5>1. Len(handedUp) \in 1 .. Len(handedUp)
          BY <1>2, <1>3, <4>2, EmptySeq
        <5>2. /\ handedUp'[Len(handedUp)] = handedUp[Len(handedUp)]
              /\ handedUp[Len(handedUp)] \in Nat
          BY <1>2, <1>3, <5>1, ElementOfSeq
        <5>3. Len(handedUp) \in DOMAIN handedUp' /\ Len(handedUp) < i
          BY <1>3, <2>6, <5>1
        <5>4. handedUp'[Len(handedUp)] < handedUp'[i]
          BY <1>2, <3>1, <5>3 DEF Increasing
        <5> QED BY <3>1, <4>2, <5>2, <5>4 DEF Service!NextIndex
      <4> QED BY <4>1, <4>2
    <3>4. ASSUME i > Len(handedUp) + 1
          PROVE  handedUp'[i - 1] < handedUp'[i]
      <4>1. i - 1 \in DOMAIN handedUp' /\ i - 1 < i
        BY <1>3, <2>6, <3>4
      <4> QED BY <1>2, <3>1, <4>1 DEF Increasing
    <3> QED BY <3>2, <3>3, <3>4
  <2> QED BY <1>3, <2>1, <2>6 DEF Service!Deliver
<1> QED BY <1>4, <1>5

\* Every step of the bearer is a step of the service.
LEMMA StepServes ==
  ASSUME LwaActive, FlowFits, TwoCycles, InStep, InStep', [Next]_vars
  PROVE  [Service!Next]_<<nextSdu, handedUp>>
<1>1. CASE TransmitPdcpSdu
  BY <1>1 DEF TransmitPdcpSdu, rxVars, Service!Next, Service!Send
<1>2. CASE ConnectTrace \/ LosePdu \/ UNCHANGED vars
  BY <1>2 DEF ConnectTrace, LosePdu, rxVars, pathVars, vars
<1>3. CASE ReceivePdcpPdu \/ ReceiveLwaPacket
  <2>1. PICK pdu \in rlcPath \union lwaPath : DoReceivePdu(pdu)
    BY <1>3 DEF ReceivePdcpPdu, ReceiveLwaPacket
  <2>2. UNCHANGED nextSdu
    BY <1>3 DEF ReceivePdcpPdu, ReceiveLwaPacket
  <2>3. HandsUp
    BY <2>1, <2>2, ReceiveInStep DEF InStep, HandsUp, HandsUpRun
  <2> QED BY <2>2, <2>3, HandsUpDelivers DEF Service!Next
<1>4. CASE ReorderingTimeout
  <2>1. HandsUp /\ UNCHANGED nextSdu
    BY <1>4, ExpireInStep DEF ReorderingTimeout, pathVars
  <2> QED BY <2>1, HandsUpDelivers DEF Service!Next
<1> QED BY <1>1, <1>2, <1>3, <1>4 DEF Next

\* With LWA on, the bearer implements the ordered delivery service.
THEOREM BearerImplementsService ==
  ASSUME LwaActive, FlowFits, TwoCycles
  PROVE  Spec => ImplementsOrderedDelivery
<1>1. Init => Service!Init
  BY DEF Init, PdcpInit, Service!Init
<1>2. InStep /\ InStep' /\ [Next]_vars => [Service!Next]_<<nextSdu, handedUp>>
  BY StepServes
<1> QED BY <1>1, <1>2, InStepCorrect, PTL DEF Spec, ImplementsOrderedDelivery, Service!Spec

\* The last position that has gone up is a number, in every state.
LEMMA SubmittedIsNat ==
  ASSUME InStep'
  PROVE  Submitted' \in Nat
<1>1. handedUp' \in Seq(Nat)
  BY DEF InStep, TypeOK, PdcpTypeOK
<1>2. CASE handedUp' = << >>
  BY <1>2 DEF Submitted
<1>3. CASE handedUp' # << >>
  <2>1. Len(handedUp') \in 1 .. Len(handedUp')
    BY <1>1, <1>3, LenProperties, EmptySeq
  <2>2. handedUp'[Len(handedUp')] \in Nat
    BY <1>1, <2>1, ElementOfSeq
  <2> QED BY <1>3, <2>2 DEF Submitted
<1> QED BY <1>2, <1>3

\* An SDU that may still go up is stored, under way or lost.
Accounted ==
  \A i \in Nat : Submitted <= i /\ i < nextSdu
    => i \in DOMAIN sdusBuffer \union InFlight \union lost

\* Each step keeps account of every SDU.
LEMMA StepAccounts ==
  ASSUME LwaActive, FlowFits, TwoCycles, InStep, InStep', Accounted, [Next]_vars
  PROVE  Accounted'
<1>0. /\ Submitted \in Nat /\ nextSdu \in Nat
  BY HandedUpBeforeSubmitted DEF InStep, TypeOK, PdcpTypeOK
<1>1. CASE TransmitPdcpSdu
  <2>1. /\ UNCHANGED <<handedUp, sdusBuffer>> /\ nextSdu' = nextSdu + 1
        /\ rlcPath \subseteq rlcPath' /\ lwaPath \subseteq lwaPath' /\ lost \subseteq lost'
    BY <1>1 DEF TransmitPdcpSdu, rxVars
  <2>2. Submitted' = Submitted /\ InFlight \subseteq InFlight'
    BY <2>1 DEF Submitted, InFlight
  <2>3. nextSdu \in InFlight' \union lost'
    <3>1. NewPdu(nextSdu).idx = nextSdu
      BY DEF NewPdu
    <3> QED BY <1>1, <3>1 DEF TransmitPdcpSdu, InFlight
  <2>4. ASSUME NEW i \in Nat, Submitted <= i, i < nextSdu + 1
        PROVE  i \in DOMAIN sdusBuffer' \union InFlight' \union lost'
    <3>1. CASE i < nextSdu
      BY <2>1, <2>2, <2>4, <3>1 DEF Accounted
    <3>2. CASE i = nextSdu
      BY <2>3, <3>2
    <3> QED BY <1>0, <2>4, <3>1, <3>2
  <2> QED BY <2>1, <2>2, <2>4 DEF Accounted
<1>2. CASE ReceivePdcpPdu \/ ReceiveLwaPacket
  <2>1. PICK pdu \in rlcPath \union lwaPath :
          /\ DoReceivePdu(pdu)
          /\ rlcPath \union lwaPath \subseteq (rlcPath' \union lwaPath') \union {pdu}
    BY <1>2 DEF ReceivePdcpPdu, ReceiveLwaPacket
  <2>2. UNCHANGED <<nextSdu, lost>>
    BY <1>2 DEF ReceivePdcpPdu, ReceiveLwaPacket
  <2>3. /\ Submitted <= Submitted' /\ KeepsTheRest
        /\ pdu.idx \in DOMAIN sdusBuffer' \/ pdu.idx < Submitted'
    BY <2>1, <2>2, ReceiveInStep DEF InStep
  <2>4. InFlight \subseteq InFlight' \union {pdu.idx}
    BY <2>1 DEF InFlight
  <2>5. Submitted' \in Nat
    BY SubmittedIsNat
  <2>6. ASSUME NEW i \in Nat, Submitted' <= i, i < nextSdu
        PROVE  i \in DOMAIN sdusBuffer' \union InFlight' \union lost
    <3>1. i \in DOMAIN sdusBuffer \union InFlight \union lost /\ ~(i < Submitted')
      BY <1>0, <2>3, <2>5, <2>6 DEF Accounted
    <3> QED BY <2>3, <2>4, <3>1 DEF KeepsTheRest
  <2> QED BY <2>2, <2>6 DEF Accounted
<1>3. CASE ReorderingTimeout
  <2>1. UNCHANGED <<nextSdu, rlcPath, lwaPath, lost>>
    BY <1>3 DEF ReorderingTimeout, pathVars
  <2>2. Submitted <= Submitted' /\ KeepsTheRest
    BY <1>3, <2>1, ExpireInStep DEF ReorderingTimeout
  <2>3. InFlight' = InFlight
    BY <2>1 DEF InFlight
  <2>4. Submitted' \in Nat
    BY SubmittedIsNat
  <2>5. ASSUME NEW i \in Nat, Submitted' <= i, i < nextSdu
        PROVE  i \in DOMAIN sdusBuffer' \union InFlight \union lost
    <3>1. i \in DOMAIN sdusBuffer \union InFlight \union lost /\ ~(i < Submitted')
      BY <1>0, <2>2, <2>4, <2>5 DEF Accounted
    <3> QED BY <2>2, <3>1 DEF KeepsTheRest
  <2> QED BY <2>1, <2>3, <2>5 DEF Accounted
<1>4. CASE LosePdu
  <2>1. PICK pdu \in rlcPath \union lwaPath :
          /\ rlcPath' = rlcPath \ {pdu}
          /\ lwaPath' = lwaPath \ {pdu}
          /\ lost' = lost \union {pdu.idx}
          /\ UNCHANGED <<txVars, rxVars, nextSdu, traceConnected>>
    BY <1>4 DEF LosePdu
  <2>2. Submitted' = Submitted /\ UNCHANGED <<sdusBuffer, nextSdu>>
    BY <2>1 DEF rxVars, Submitted
  <2>3. InFlight \union lost \subseteq InFlight' \union lost'
    BY <2>1 DEF InFlight
  <2> QED BY <2>2, <2>3 DEF Accounted
<1>5. CASE ConnectTrace \/ UNCHANGED vars
  <2>1. UNCHANGED <<handedUp, sdusBuffer, nextSdu, rlcPath, lwaPath, lost>>
    BY <1>5 DEF ConnectTrace, vars, rxVars, pathVars
  <2> QED BY <2>1 DEF Accounted, Submitted, InFlight
<1> QED BY <1>1, <1>2, <1>3, <1>4, <1>5 DEF Next

\* With LWA on, DoReceivePdu and the timer drop an SDU only when a later one
\* has gone up before: the window takes no new PDU for an old one, and no two
\* PDUs meet under one COUNT.
THEOREM OnlyLateDropped ==
  ASSUME LwaActive, FlowFits, TwoCycles
  PROVE  Spec => []OnlyLateSdusAreDropped
<1>1. Init => Accounted
  <2> SUFFICES ASSUME Init, NEW i \in Nat PROVE ~(i < nextSdu)
    BY DEF Accounted
  <2> QED BY DEF Init
<1>2. InStep /\ InStep' /\ Accounted /\ [Next]_vars => Accounted'
  BY StepAccounts
<1>3. InStep /\ Accounted => OnlyLateSdusAreDropped
  <2> DEFINE handed == {handedUp[i] : i \in DOMAIN handedUp}
             stored == {sdusBuffer[c].idx : c \in DOMAIN sdusBuffer}
  <2> SUFFICES ASSUME InStep, Accounted,
                      NEW i \in (0 .. nextSdu - 1)
                                  \ (handed \union stored \union InFlight \union lost)
               PROVE  \E j \in handed : j > i
    BY DEF OnlyLateSdusAreDropped
  <2>1. i \in Nat /\ i < nextSdu
    BY DEF InStep, TypeOK
  <2>2. \A c \in DOMAIN sdusBuffer : c \in stored
    BY DEF InStep, BufferInStep
  <2>3. ~(Submitted <= i)
    BY <2>1, <2>2 DEF Accounted
  <2>4. handedUp \in Seq(Nat)
    BY DEF InStep, TypeOK, PdcpTypeOK
  <2>5. handedUp # << >>
    BY <2>1, <2>3 DEF Submitted
  <2>6. Len(handedUp) \in DOMAIN handedUp
    BY <2>4, <2>5, LenProperties, EmptySeq
  <2>7. /\ handedUp[Len(handedUp)] \in handed
        /\ handedUp[Len(handedUp)] \in Nat
        /\ Submitted = handedUp[Len(handedUp)] + 1
    BY <2>4, <2>5, <2>6, LenProperties, ElementOfSeq DEF Submitted
  <2>8. handedUp[Len(handedUp)] > i
    BY <2>1, <2>3, <2>7
  <2> QED BY <2>7, <2>8
<1> QED BY <1>1, <1>2, <1>3, InStepCorrect, PTL DEF Spec

-----------------------------------------------------------------------------
(* The reordering timer.                                                   *)

\* What the timer was started for lies below the COUNT it waits for.
GuardInStep ==
  timerRunning => \A c \in guarded : c \in Nat /\ c < reorderingRxCount

\* In the first two cycles no COUNT is cut to 16 bits.
LEMMA StartInStep ==
  ASSUME TwoCycles, InStep', StartTimerIfStored
  PROVE  GuardInStep'
<1>1. /\ rxHfn' \in Nat /\ rxSn' \in Nat
      /\ NextExpected' <= nextSdu' /\ nextSdu' \in Nat /\ nextSdu' <= MaxSdus
  BY ConstantFacts DEF InStep, ReceiverInStep, TypeOK, PdcpTypeOK
<1>2. NextExpected' = rxHfn' * SnSpace + rxSn'
  BY DEF NextExpected
<1>3. NextExpected' \in Nat
  <2>1. rxHfn' * SnSpace \in Nat
    BY <1>1, ProductInNat, ConstantFacts
  <2>2. \A x, y \in Nat : x + y \in Nat
    OBVIOUS
  <2> QED BY <1>1, <1>2, <2>1, <2>2
<1>4. NextExpected' % U16 = NextExpected'
  <2>1. \A x, y, m, s, u \in Nat : x <= y /\ y <= m /\ m < 2 * s /\ 2 * s < u => x < u
    OBVIOUS
  <2>2. \A x, u \in Nat : x < u => x % u = x
    OBVIOUS
  <2>3. NextExpected' < U16
    BY <1>1, <1>3, <2>1, ConstantFacts DEF TwoCycles
  <2> QED BY <1>3, <2>2, <2>3, ConstantFacts
<1>5. \A c \in DOMAIN sdusBuffer' : c \in Nat /\ c < NextExpected'
  BY DEF InStep, BufferInStep, TypeOK, PdcpTypeOK
<1>6. CASE DOMAIN sdusBuffer' = {}
  BY <1>6 DEF StartTimerIfStored, GuardInStep
<1>7. CASE DOMAIN sdusBuffer' # {}
  <2>1. guarded' = DOMAIN sdusBuffer' /\ reorderingRxCount' = NextExpected'
    BY <1>2, <1>4, <1>7 DEF StartTimerIfStored
  <2> QED BY <1>5, <2>1 DEF GuardInStep
<1> QED BY <1>6, <1>7

\* A received PDU leaves the timer alone, or restarts it because the number of
\* the last SDU handed up is greater than the COUNT it waits for.
LEMMA ReceiveLeavesTimer ==
  ASSUME NEW pdu, DoReceivePdu(pdu)
  PROVE  \/ UNCHANGED <<timerRunning, reorderingRxCount, guarded>>
         \/ /\ timerRunning => reorderingRxCount < lastSubmitted'
            /\ StartTimerIfStored
<1>1. ASSUME NEW count, Store(pdu, count)
      PROVE  \/ UNCHANGED <<timerRunning, reorderingRxCount, guarded>>
             \/ /\ timerRunning => reorderingRxCount < lastSubmitted'
                /\ StartTimerIfStored
  BY <1>1 DEF Store
<1> QED
  BY <1>1
     DEF DoReceivePdu, PassThrough, Discard, NextCycle, PreviousCycle, Ahead, Behind

\* The timer waits for what it was started for.
LEMMA GuardCorrect ==
  ASSUME LwaActive, FlowFits, TwoCycles
  PROVE  Spec => []GuardInStep
<1>1. Init => GuardInStep
  BY DEF Init, PdcpInit, GuardInStep
<1>2. GuardInStep /\ InStep' /\ [Next]_vars => GuardInStep'
  <2> SUFFICES ASSUME GuardInStep, InStep', [Next]_vars PROVE GuardInStep'
    OBVIOUS
  <2>0. ASSUME UNCHANGED <<timerRunning, reorderingRxCount, guarded>>
        PROVE  GuardInStep'
    BY <2>0 DEF GuardInStep
  <2>1. CASE ReceivePdcpPdu \/ ReceiveLwaPacket
    <3>1. PICK pdu \in rlcPath \union lwaPath : DoReceivePdu(pdu)
      BY <2>1 DEF ReceivePdcpPdu, ReceiveLwaPacket
    <3> QED BY <2>0, <3>1, ReceiveLeavesTimer, StartInStep
  <2>2. CASE ReorderingTimeout
    BY <2>2, StartInStep DEF ReorderingTimeout, ExpireReorderingTimer
  <2>3. CASE TransmitPdcpSdu \/ ConnectTrace \/ LosePdu \/ UNCHANGED vars
    BY <2>0, <2>3 DEF TransmitPdcpSdu, ConnectTrace, LosePdu, vars, rxVars
  <2> QED BY <2>1, <2>2, <2>3 DEF Next
<1> QED BY <1>1, <1>2, InStepCorrect, PTL DEF Spec

\* When the timer runs out, everything that was stored when it was started
\* leaves the buffer; only a loop that the erased iterator ends leaves some of
\* it, having released an older part, and the timer runs for the rest.
THEOREM ExpiryReleases ==
  ASSUME LwaActive, FlowFits, TwoCycles
  PROVE  Spec => ExpiryReleasesGuarded
<1> DEFINE left     == guarded \cap DOMAIN sdusBuffer'
           released == DOMAIN sdusBuffer \ DOMAIN sdusBuffer'
           Part     == /\ EraseMayStop
                       /\ \E c \in DOMAIN sdusBuffer' : c <= reorderingRxCount
                       /\ released # {} /\ \A c \in released, d \in left : c < d
                       /\ timerRunning' /\ left \subseteq guarded'
<1>1. ASSUME GuardInStep, InStep, ReorderingTimeout, left # {}
      PROVE  Part
  <2> DEFINE due == {c \in DOMAIN sdusBuffer : c <= reorderingRxCount}
  <2>1. timerRunning /\ reorderingRxCount \in Nat
    BY <1>1, ConstantFacts DEF ReorderingTimeout, ExpireReorderingTimer, InStep, TypeOK, PdcpTypeOK
  <2>2. PICK taken \in Releasable :
          sdusBuffer' = Without(sdusBuffer, taken) /\ StartTimerIfStored
    BY <1>1 DEF ReorderingTimeout, ExpireReorderingTimer
  <2>3. DOMAIN sdusBuffer' = DOMAIN sdusBuffer \ taken
    BY <2>2 DEF Without
  <2>4. left \subseteq due \ taken
    <3>1. \A c \in guarded : c <= reorderingRxCount
      BY <1>1, <2>1 DEF GuardInStep
    <3> QED BY <2>3, <3>1
  <2>5. /\ taken \subseteq due /\ EraseMayStop /\ taken # {}
        /\ \A c \in taken, d \in due \ taken : c < d
    BY <1>1, <2>4 DEF Releasable
  <2>6. released = taken
    BY <2>3, <2>5
  <2>7. timerRunning' /\ guarded' = DOMAIN sdusBuffer'
    BY <1>1, <2>2 DEF StartTimerIfStored
  <2>8. \E c \in DOMAIN sdusBuffer' : c <= reorderingRxCount
    BY <1>1, <2>4
  <2> HIDE DEF due
  <2> QED BY <2>4, <2>5, <2>6, <2>7, <2>8
<1>2. GuardInStep /\ InStep /\ [Next]_vars => [ReorderingTimeout => left = {} \/ Part]_vars
  BY <1>1
<1> QED BY <1>2, InStepCorrect, GuardCorrect, PTL DEF Spec, ExpiryReleasesGuarded

\* Once something has gone up, DoReceivePdu stops or restarts the timer only
\* after everything it was started for has gone up.
THEOREM RestartsWhenSubmitted ==
  ASSUME LwaActive, FlowFits, TwoCycles
  PROVE  Spec => RestartOnlyWhenSubmitted
<1> DEFINE Early == /\ timerRunning /\ Receive /\ handedUp # << >>
                    /\ <<timerRunning, guarded>>' # <<timerRunning, guarded>>
<1>1. GuardInStep /\ InStep /\ InStep' /\ [Next]_vars
        => [Early => guarded \cap DOMAIN sdusBuffer' = {}]_vars
  <2> SUFFICES ASSUME GuardInStep, InStep, InStep', Early
               PROVE  guarded \cap DOMAIN sdusBuffer' = {}
    OBVIOUS
  <2>1. PICK pdu \in rlcPath \union lwaPath : DoReceivePdu(pdu) /\ UNCHANGED nextSdu
    BY DEF Receive, ReceivePdcpPdu, ReceiveLwaPacket
  <2>2. timerRunning /\ reorderingRxCount < lastSubmitted'
    BY <2>1, ReceiveLeavesTimer
  <2>3. Submitted \in Nat /\ Submitted # 0
    <3>1. handedUp \in Seq(Nat) /\ InOrderDelivery
      BY DEF InStep, TypeOK, PdcpTypeOK
    <3>2. Len(handedUp) \in 1 .. Len(handedUp)
      BY <3>1, LenProperties, EmptySeq
    <3>3. handedUp[Len(handedUp)] \in Nat
      BY <3>1, <3>2, ElementOfSeq
    <3> QED BY <3>3 DEF Submitted
  <2>4. Submitted <= Submitted' /\ ReceiverInStep' /\ BufferInStep' /\ TypeOK'
    BY <2>1, ReceiveInStep DEF InStep
  <2>5. Submitted' \in Nat
    <3>1. handedUp' \in Seq(Nat)
      BY <2>4 DEF TypeOK, PdcpTypeOK
    <3>2. CASE handedUp' = << >>
      BY <3>2 DEF Submitted
    <3>3. CASE handedUp' # << >>
      <4>1. Len(handedUp') \in 1 .. Len(handedUp')
        BY <3>1, <3>3, LenProperties, EmptySeq
      <4>2. handedUp'[Len(handedUp')] \in Nat
        BY <3>1, <4>1, ElementOfSeq
      <4> QED BY <3>3, <4>2 DEF Submitted
    <3> QED BY <3>2, <3>3
  <2>6. lastSubmitted' = SnOf(Submitted' - 1)
    <3>1. Submitted' # 0
      BY <2>3, <2>4, <2>5
    <3> QED BY <2>4, <3>1 DEF ReceiverInStep
  <2>7. \A s \in Nat : SnOf(s - 1) < s
    BY ConstantFacts DEF SnOf
  <2>8. lastSubmitted' < Submitted' /\ lastSubmitted' \in Nat
    BY <2>4, <2>5, <2>6, <2>7, ConstantFacts DEF TypeOK, PdcpTypeOK
  <2>9. reorderingRxCount \in Nat
    BY ConstantFacts DEF InStep, TypeOK, PdcpTypeOK
  <2>10. \A c \in guarded : c \in Nat /\ c < Submitted'
    <3>1. \A c, r, l, s \in Nat : c < r /\ r < l /\ l < s => c < s
      OBVIOUS
    <3> QED BY <2>2, <2>5, <2>8, <2>9, <3>1 DEF GuardInStep
  <2>11. \A c \in DOMAIN sdusBuffer' : Submitted' <= c
    BY <2>4 DEF BufferInStep
  <2> QED BY <2>5, <2>10, <2>11
<1> QED BY <1>1, InStepCorrect, GuardCorrect, PTL DEF Spec, RestartOnlyWhenSubmitted

=============================================================================
