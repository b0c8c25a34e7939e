--------------------------- MODULE LteRlcAm_proofs ---------------------------
(***************************************************************************)
(* Proofs about LteRlcAm, for STATUS PDUs that do not overtake one         *)
(* another: every SDU goes up once, in order and without a gap, the        *)
(* transmitter forgets a PDU only when the receiver has it, and the        *)
(* assertions of the loop over a STATUS PDU hold.                          *)
(*                                                                         *)
(* The state holds sequence numbers, the argument counts PDUs: the         *)
(* invariant says of which count every number is the residue, and that the *)
(* counts of both windows lie within Window of one another.                *)
(***************************************************************************)
EXTENDS LteRlcAm, ArithmeticLemmas, FiniteSetTheorems

-----------------------------------------------------------------------------
(* Sequence numbers and the counts they stand for.                         *)

\* The sequence number of the PDU with n PDUs before it.
Sn(n) == n % SnSpace

LEMMA SnConstants ==
  /\ Window \in Nat \ {0} /\ SnSpace \in Nat \ {0} /\ SnSpace = 2 * Window
  /\ Window < SnSpace
BY AmSnAssumption

LEMMA SnType ==
  ASSUME NEW a \in Int
  PROVE  Sn(a) \in 0 .. SnSpace - 1
BY Division, SnConstants DEF Sn

\* The distance of two numbers is the difference of their counts.
LEMMA DistanceOfCounts ==
  ASSUME NEW a \in Int, NEW b \in Int, 0 <= a - b, a - b < SnSpace
  PROVE  Distance(Sn(a), Sn(b)) = a - b
BY RemainderOfDifference, SnConstants DEF Distance, Sn

LEMMA SnIsInjective ==
  ASSUME NEW a \in Int, NEW b \in Int, a - b < SnSpace, b - a < SnSpace, Sn(a) = Sn(b)
  PROVE  a = b
<1>1. Distance(Sn(a), Sn(a)) = 0
  BY DistanceOfCounts, SnConstants
<1>2. CASE a >= b
  BY <1>1, <1>2, DistanceOfCounts, SnConstants
<1>3. CASE b >= a
  BY <1>1, <1>3, DistanceOfCounts, SnConstants
<1> QED BY <1>2, <1>3

LEMMA SnPlus ==
  ASSUME NEW a \in Int, NEW k \in Int
  PROVE  (Sn(a) + k) % SnSpace = Sn(a + k)
BY RemainderOfSum, SnConstants DEF Sn

LEMMA SnItself ==
  ASSUME NEW x \in 0 .. SnSpace - 1
  PROVE  Sn(x) = x
<1>1. ((SnSpace * 0) + x) % SnSpace = x
  BY RemainderOf, SnConstants
<1>2. (SnSpace * 0) + x = x
  BY SnConstants
<1> QED BY <1>1, <1>2 DEF Sn

\* Every number is that of one of the SnSpace counts from a base on.
LEMMA SnFromBase ==
  ASSUME NEW x \in 0 .. SnSpace - 1, NEW b \in Int
  PROVE  /\ Distance(x, Sn(b)) \in 0 .. SnSpace - 1
         /\ x = Sn(b + Distance(x, Sn(b)))
<1> DEFINE d == Distance(x, Sn(b))
<1>0. x \in Int /\ Sn(b) \in Int /\ x - Sn(b) \in Int
  BY SnType, SnConstants
<1>1. d = Sn(x - Sn(b))
  BY DEF Distance, Sn
<1>2. d \in 0 .. SnSpace - 1 /\ d \in Int
  BY <1>0, <1>1, SnType, SnConstants
<1> HIDE DEF d
<1>3. (Sn(b) + d) % SnSpace = Sn(b + d)
  BY <1>2, SnPlus
<1>4. (Sn(x - Sn(b)) + Sn(b)) % SnSpace = Sn((x - Sn(b)) + Sn(b))
  BY <1>0, SnPlus
<1>5. (x - Sn(b)) + Sn(b) = x /\ Sn(x - Sn(b)) + Sn(b) = Sn(b) + d
  BY <1>0, <1>1, <1>2
<1>6. Sn(b + d) = Sn(x)
  BY <1>3, <1>4, <1>5
<1> QED BY <1>2, <1>6, SnItself DEF d

LEMMA IntervalOfCounts ==
  ASSUME NEW a \in Int, NEW b \in Int, 0 <= b - a, b - a < SnSpace
  PROVE  /\ Interval(Sn(a), Sn(b)) = {Sn(n) : n \in a .. b - 1}
         /\ Cardinality(Interval(Sn(a), Sn(b))) = b - a
<1>1. Interval(Sn(a), Sn(b)) = {(Sn(a) + k) % SnSpace : k \in 0 .. (b - a) - 1}
  BY DistanceOfCounts DEF Interval
<1>2. \A k \in 0 .. (b - a) - 1 : (Sn(a) + k) % SnSpace = Sn(a + k)
  BY SnPlus
<1> DEFINE T == Interval(Sn(a), Sn(b))
           U == a .. b - 1
           f == [n \in U |-> Sn(n)]
<1>3. T = {Sn(n) : n \in a .. b - 1}
  <2>1. ASSUME NEW n \in a .. b - 1
        PROVE  Sn(n) \in T
    <3>1. n - a \in 0 .. (b - a) - 1 /\ a + (n - a) = n
      OBVIOUS
    <3> QED BY <1>1, <1>2, <3>1
  <2>2. ASSUME NEW x \in T
        PROVE  \E n \in a .. b - 1 : x = Sn(n)
    <3>1. PICK k \in 0 .. (b - a) - 1 : x = Sn(a + k)
      BY <1>1, <1>2
    <3>2. a + k \in a .. b - 1
      OBVIOUS
    <3> QED BY <3>1, <3>2
  <2> QED BY <2>1, <2>2
<1>4. Cardinality(U) = b - a /\ IsFiniteSet(U)
  <2>1. b - 1 \in Int /\ (a > b - 1 => b - a = 0)
    OBVIOUS
  <2>2. IsFiniteSet(U) /\ Cardinality(U) = IF a > b - 1 THEN 0 ELSE (b - 1) - a + 1
    BY <2>1, FS_Interval
  <2> HIDE DEF U
  <2> QED BY <2>1, <2>2
<1>5. f \in Bijection(U, T)
  <2>1. \A m, n \in U : Sn(m) = Sn(n) => m = n
    <3> SUFFICES ASSUME NEW m \in U, NEW n \in U, Sn(m) = Sn(n)
                 PROVE  m = n
      OBVIOUS
    <3> QED BY SnIsInjective, SnConstants
  <2> HIDE DEF U
  <2>2. T = {Sn(n) : n \in U}
    BY <1>3 DEF U
  <2> HIDE DEF T
  <2> QED BY <2>1, <2>2 DEF Bijection, Injection, Surjection, IsInjective
<1>6. Cardinality(T) = Cardinality(U)
  BY <1>4, <1>5, FS_Bijection DEF ExistsBijection
<1> QED BY <1>3, <1>4, <1>6

\* The first number of a set from a base on: before it none is in the set.
LEMMA FirstFromBase ==
  ASSUME NEW sns \in SUBSET (0 .. SnSpace - 1), sns # {}, NEW b \in Int
  PROVE  \E m \in b .. b + SnSpace - 1 :
           /\ FirstFrom(sns, Sn(b)) = Sn(m)
           /\ Sn(m) \in sns
           /\ \A k \in b .. m - 1 : Sn(k) \notin sns
<1> DEFINE D == {Distance(x, Sn(b)) : x \in sns}
           x == FirstFrom(sns, Sn(b))
           m == b + Distance(x, Sn(b))
<1>1. \A y \in sns : Distance(y, Sn(b)) \in 0 .. SnSpace - 1 /\ y = Sn(b + Distance(y, Sn(b)))
  BY SnFromBase
<1>2. D \in SUBSET Nat /\ D # {}
  <2>1. \A y \in sns : Distance(y, Sn(b)) \in Nat
    BY <1>1, SnConstants
  <2> QED BY <2>1
<1>3. PICK d \in D : \A e \in D : d <= e
  BY <1>2, LeastOf
<1>4. \E y \in sns : \A z \in sns : Distance(y, Sn(b)) <= Distance(z, Sn(b))
  BY <1>3
<1>5. x \in sns /\ \A z \in sns : Distance(x, Sn(b)) <= Distance(z, Sn(b))
  BY <1>4 DEF FirstFrom
<1> HIDE DEF x
<1>6. Distance(x, Sn(b)) \in 0 .. SnSpace - 1 /\ x = Sn(m)
  BY <1>1, <1>5
<1>7. m \in b .. b + SnSpace - 1
  BY <1>6, SnConstants
<1>8. ASSUME NEW k \in b .. m - 1, Sn(k) \in sns
      PROVE  FALSE
  <2>1. Distance(Sn(k), Sn(b)) = k - b
    BY <1>6, DistanceOfCounts, SnConstants
  <2>2. Distance(x, Sn(b)) <= Distance(Sn(k), Sn(b))
    BY <1>5, <1>8
  <2> HIDE DEF m
  <2>3. Distance(x, Sn(b)) = m - b /\ m \in Int
    BY <1>6 DEF m
  <2> QED BY <2>1, <2>2, <2>3
<1> HIDE DEF m
<1>9. Sn(m) \in sns
  BY <1>5, <1>6
<1> QED BY <1>6, <1>7, <1>8, <1>9 DEF x

LEMMA FirstMissingFrom ==
  ASSUME NEW received, NEW b \in Int, NEW n \in b .. b + SnSpace - 1, Sn(n) \notin received
  PROVE  \E m \in b .. n :
           /\ FirstMissing(received, Sn(b)) = Sn(m)
           /\ Sn(m) \notin received
           /\ \A k \in b .. m - 1 : Sn(k) \in received
<1> DEFINE missing == (0 .. SnSpace - 1) \ received
<1>1. Sn(n) \in missing /\ missing \in SUBSET (0 .. SnSpace - 1)
  BY SnType, SnConstants
<1>2. PICK m \in b .. b + SnSpace - 1 :
           /\ FirstFrom(missing, Sn(b)) = Sn(m)
           /\ Sn(m) \in missing
           /\ \A k \in b .. m - 1 : Sn(k) \notin missing
  BY <1>1, FirstFromBase
<1>3. m <= n
  BY <1>1, <1>2, SnConstants
<1>4. \A k \in b .. m - 1 : Sn(k) \in 0 .. SnSpace - 1
  BY SnType
<1> QED BY <1>2, <1>3, <1>4, SnConstants DEF FirstMissing

LEMMA SnIsPeriodic ==
  ASSUME NEW a \in Int
  PROVE  Sn(a + SnSpace) = Sn(a)
<1> DEFINE q == a \div SnSpace
           r == a % SnSpace
<1>1. r \in 0 .. SnSpace - 1 /\ q \in Int /\ a = (SnSpace * q) + r
  BY Division, SnConstants
<1> HIDE DEF q, r
<1> DEFINE p == q + 1
<1>2. p \in Int /\ a + SnSpace = (SnSpace * p) + r
  BY <1>1, Distributes, SnConstants
<1> HIDE DEF p
<1>3. (a + SnSpace) % SnSpace = r
  <2>1. ((SnSpace * p) + r) % SnSpace = r
    BY <1>1, <1>2, RemainderOf, SnConstants
  <2> QED BY <1>2, <2>1
<1> QED BY <1>3 DEF r, Sn

-----------------------------------------------------------------------------
(* The invariant.                                                          *)

\* How many PDUs the transmitter knows to be received, how many SDUs the
\* receiver has handed up, how many PDUs its STATUS PDUs may report on, and
\* how many it knows to be sent.
Lower == sentPdus - Distance(vtS, vtA)
Expected == Len(handedUp)
ReportEdge == Expected + Distance(vrMs, vrR)
Beyond == Expected + Distance(vrH, vrR)

StatusPdus == [nacks : SUBSET (0 .. SnSpace - 1), ack : 0 .. SnSpace - 1]

AmTypes ==
  /\ handedUp \in Seq(Nat)
  /\ statusChannel \in Seq(StatusPdus)
  /\ vrX \in 0 .. SnSpace - 1
  /\ DOMAIN retxBuffer = {} => retxBuffer = << >>

TransmissionWindow ==
  /\ sentPdus \in Nat /\ Lower \in Nat
  /\ vtS = Sn(sentPdus) /\ vtA = Sn(Lower)
  /\ Lower <= sentPdus /\ sentPdus <= Lower + Window

\* The receiver is ahead of what the transmitter knows of it.
ReceptionWindow ==
  /\ vrR = Sn(Expected) /\ vrMs = Sn(ReportEdge) /\ vrH = Sn(Beyond)
  /\ ReportEdge \in Nat /\ Beyond \in Nat
  /\ Lower <= Expected /\ Expected <= ReportEdge /\ ReportEdge <= Beyond
  /\ Beyond <= sentPdus

\* Every SDU of a buffer is in its place.
Numbered(buffer, low, high) ==
  \A sn \in DOMAIN buffer :
    buffer[sn] \in Nat /\ low <= buffer[sn] /\ buffer[sn] < high /\ sn = Sn(buffer[sn])

TransmitterBuffers ==
  /\ Numbered(txedBuffer, Lower, sentPdus)
  /\ Numbered(retxBuffer, Lower, sentPdus)
  /\ DOMAIN txedBuffer \cap DOMAIN retxBuffer = {}

ReceptionBuffer == Numbered(rxonBuffer, Expected + 1, Beyond)

DataUnderWay ==
  \A pdu \in BagToSet(channel) :
    /\ pdu.sdu \in Nat
    /\ sentPdus - Window <= pdu.sdu /\ pdu.sdu < sentPdus
    /\ pdu.sn = Sn(pdu.sdu)

\* While t-Reordering runs, nothing is missing from what it was started for
\* up to VR(MS): when it expires VR(MS) does not move back.
Reordering ==
  /\ Sn(ReportEdge) \notin DOMAIN rxonBuffer
  /\ reorderingTimer =>
       \E x \in Expected + 1 .. Beyond :
         /\ vrX = Sn(x)
         /\ \A k \in x .. ReportEdge - 1 : Sn(k) \in DOMAIN rxonBuffer

Received(n) ==
  \/ n < Expected
  \/ \E sn \in DOMAIN rxonBuffer : rxonBuffer[sn] = n

\* What a STATUS PDU says, in counts.
AckEdge(status) == Lower + Distance(status.ack, vtA)
Missing(status) == status.nacks \union {status.ack}
Acks(status) == {n \in Lower .. AckEdge(status) - 1 : Sn(n) \notin status.nacks}

\* What a STATUS PDU acknowledges has been received, and no later one says
\* that it is missing.
Reports ==
  \A i \in DOMAIN statusChannel :
    /\ AckEdge(statusChannel[i]) <= ReportEdge
    /\ \A n \in Acks(statusChannel[i]) :
         /\ Received(n)
         /\ \A j \in DOMAIN statusChannel : i < j => Sn(n) \notin Missing(statusChannel[j])

\* What is in neither buffer of the transmitter has been received, and no
\* STATUS PDU under way says that it is missing.
Forgotten ==
  \A n \in Lower .. sentPdus - 1 :
    Sn(n) \notin DOMAIN txedBuffer \union DOMAIN retxBuffer =>
      /\ Received(n)
      /\ \A i \in DOMAIN statusChannel : Sn(n) \notin Missing(statusChannel[i])

TxPart == TransmissionWindow /\ TransmitterBuffers
RxPart == ReceptionWindow /\ ReceptionBuffer /\ Reordering /\ NothingIsSkipped
AckPart == Reports /\ Forgotten

\* The inductive invariant.
AmInvariant == AmTypes /\ TxPart /\ RxPart /\ DataUnderWay /\ AckPart

-----------------------------------------------------------------------------
(* Consequences of the invariant, and what leaves parts of it alone.       *)

LEMMA AmCounts ==
  ASSUME AmTypes, TransmissionWindow, ReceptionWindow
  PROVE  /\ sentPdus \in Nat /\ Lower \in Nat /\ Expected \in Nat
         /\ ReportEdge \in Nat /\ Beyond \in Nat
         /\ Lower <= sentPdus /\ sentPdus <= Lower + Window
         /\ Lower <= Expected /\ Expected <= ReportEdge /\ ReportEdge <= Beyond
         /\ Beyond <= sentPdus
         /\ vtS = Sn(sentPdus) /\ vtA = Sn(Lower)
         /\ vrR = Sn(Expected) /\ vrMs = Sn(ReportEdge) /\ vrH = Sn(Beyond)
<1>1. Expected \in Nat
  BY DEF Expected, AmTypes
<1> QED BY <1>1 DEF TransmissionWindow, ReceptionWindow

\* A count whose number is in a buffer is what the buffer holds there.
LEMMA NumberedAt ==
  ASSUME NEW buffer, NEW low \in Int, NEW high \in Int, NEW n \in Int,
         Numbered(buffer, low, high), Sn(n) \in DOMAIN buffer,
         high - n <= SnSpace, n - low < SnSpace
  PROVE  buffer[Sn(n)] = n
<1>1. /\ buffer[Sn(n)] \in Nat /\ low <= buffer[Sn(n)] /\ buffer[Sn(n)] < high
      /\ Sn(n) = Sn(buffer[Sn(n)])
  BY DEF Numbered
<1> QED BY <1>1, SnIsInjective, SnConstants

\* Moving the edges of the transmission window.
LEMMA LowerIs ==
  ASSUME NEW s \in Nat, NEW low \in Nat, low <= s, s <= low + Window,
         sentPdus' = s, vtS' = Sn(s), vtA' = Sn(low)
  PROVE  Lower' = low /\ TransmissionWindow'
<1>1. Distance(Sn(s), Sn(low)) = s - low
  BY DistanceOfCounts, SnConstants
<1>2. Lower' = low
  BY <1>1 DEF Lower
<1> QED BY <1>2 DEF TransmissionWindow

LEMMA ConcatenationOf ==
  ASSUME NEW S, NEW s \in Seq(S), NEW t \in Seq(S)
  PROVE  /\ s \o t \in Seq(S) /\ Len(s \o t) = Len(s) + Len(t)
         /\ DOMAIN (s \o t) = 1 .. Len(s) + Len(t)
         /\ \A i \in 1 .. Len(s) + Len(t) :
              (s \o t)[i] = IF i <= Len(s) THEN s[i] ELSE t[i - Len(s)]
OBVIOUS

LEMMA RemovedElements ==
  ASSUME statusChannel \in Seq(StatusPdus), NEW i \in DOMAIN statusChannel
  PROVE  /\ Removed(i) \in Seq(StatusPdus)
         /\ DOMAIN Removed(i) = 1 .. Len(statusChannel) - 1
         /\ \A j \in DOMAIN Removed(i) :
              Removed(i)[j] = statusChannel[IF j < i THEN j ELSE j + 1]
<1> HIDE DEF StatusPdus
<1> DEFINE front == SubSeq(statusChannel, 1, i - 1)
           back == SubSeq(statusChannel, i + 1, Len(statusChannel))
<1>1. i \in 1 .. Len(statusChannel)
  OBVIOUS
<1>2. /\ front \in Seq(StatusPdus) /\ Len(front) = i - 1
      /\ \A j \in 1 .. i - 1 : front[j] = statusChannel[j]
  BY <1>1
<1>3. /\ back \in Seq(StatusPdus) /\ Len(back) = Len(statusChannel) - i
      /\ \A j \in 1 .. Len(statusChannel) - i : back[j] = statusChannel[i + j]
  BY <1>1
<1> HIDE DEF front, back
<1>4. /\ front \o back \in Seq(StatusPdus)
      /\ DOMAIN (front \o back) = 1 .. Len(statusChannel) - 1
      /\ \A j \in 1 .. Len(statusChannel) - 1 :
           (front \o back)[j] = IF j <= i - 1 THEN front[j] ELSE back[j - (i - 1)]
  <2>1. Len(front) = i - 1 /\ Len(front) + Len(back) = Len(statusChannel) - 1
    BY <1>1, <1>2, <1>3
  <2>2. front \in Seq(StatusPdus) /\ back \in Seq(StatusPdus)
    BY <1>2, <1>3
  <2>3. /\ front \o back \in Seq(StatusPdus)
        /\ DOMAIN (front \o back) = 1 .. Len(front) + Len(back)
        /\ \A j \in 1 .. Len(front) + Len(back) :
             (front \o back)[j] = IF j <= Len(front) THEN front[j] ELSE back[j - Len(front)]
    BY <2>2, ConcatenationOf
  <2> QED BY <2>1, <2>3
<1>5. ASSUME NEW j \in 1 .. Len(statusChannel) - 1
      PROVE  (front \o back)[j] = statusChannel[IF j < i THEN j ELSE j + 1]
  <2>1. CASE j < i
    <3>1. j \in 1 .. i - 1
      BY <1>1, <2>1
    <3>2. (front \o back)[j] = front[j]
      BY <1>4, <3>1
    <3> QED BY <1>2, <2>1, <3>1, <3>2
  <2>2. CASE ~ (j < i)
    <3>1. j - (i - 1) \in 1 .. Len(statusChannel) - i /\ ~ (j <= i - 1)
      BY <1>1, <2>2
    <3>2. (front \o back)[j] = back[j - (i - 1)]
      BY <1>4, <3>1
    <3>3. i + (j - (i - 1)) = j + 1
      BY <1>1
    <3>4. back[j - (i - 1)] = statusChannel[j + 1]
      BY <1>3, <3>1, <3>3
    <3> QED BY <2>2, <3>2, <3>4
  <2> QED BY <2>1, <2>2
<1> QED BY <1>4, <1>5 DEF Removed, front, back

LEMMA BagWith ==
  ASSUME NEW bag, NEW pdu
  PROVE  /\ BagToSet(bag (+) SetToBag({pdu})) = BagToSet(bag) \union {pdu}
         /\ BagToSet(bag (-) SetToBag({pdu})) \subseteq BagToSet(bag)
BY DEF (+), (-), SetToBag, BagToSet

\* The transmitter does nothing to what only depends on the receiver.
LEMMA ReceiverStays ==
  ASSUME AmTypes, TransmissionWindow, RxPart, UNCHANGED windowVars,
         TransmissionWindow', Lower' <= Expected, sentPdus <= sentPdus'
  PROVE  /\ RxPart'
         /\ Expected' = Expected /\ ReportEdge' = ReportEdge
         /\ \A n : Received(n)' <=> Received(n)
<1>1. /\ UNCHANGED <<vrR, vrMs, vrX, vrH, rxonBuffer, reorderingTimer, handedUp>>
  BY DEF windowVars
<1>2. Expected' = Expected /\ ReportEdge' = ReportEdge /\ Beyond' = Beyond
  BY <1>1 DEF Expected, ReportEdge, Beyond
<1>3. ReceptionWindow'
  <2>1. sentPdus \in Nat /\ sentPdus' \in Nat /\ Beyond \in Nat /\ Beyond <= sentPdus
    BY DEF TransmissionWindow, RxPart, ReceptionWindow
  <2>2. Beyond' <= sentPdus'
    BY <1>2, <2>1
  <2> QED BY <1>1, <1>2, <2>2 DEF RxPart, ReceptionWindow
<1>4. ReceptionBuffer'
  BY <1>1, <1>2 DEF RxPart, ReceptionBuffer, Numbered
<1>5. Reordering'
  BY <1>1, <1>2 DEF RxPart, Reordering
<1>6. NothingIsSkipped'
  BY <1>1 DEF RxPart, NothingIsSkipped
<1>7. \A n : Received(n)' <=> Received(n)
  BY <1>1, <1>2 DEF Received
<1> QED BY <1>2, <1>3, <1>4, <1>5, <1>6, <1>7 DEF RxPart

\* ACK_SN is the number of the count up to which a STATUS PDU acknowledges.
LEMMA AckEdgeCounts ==
  ASSUME TransmissionWindow, NEW status \in StatusPdus
  PROVE  /\ AckEdge(status) \in Nat
         /\ Lower <= AckEdge(status) /\ AckEdge(status) < Lower + SnSpace
         /\ status.ack = Sn(AckEdge(status))
         /\ Distance(status.ack, vtA) = AckEdge(status) - Lower
<1>1. status.ack \in 0 .. SnSpace - 1
  BY DEF StatusPdus
<1>2. Lower \in Nat /\ vtA = Sn(Lower)
  BY DEF TransmissionWindow
<1> DEFINE d == Distance(status.ack, Sn(Lower))
<1>3. d \in 0 .. SnSpace - 1 /\ status.ack = Sn(Lower + d)
  BY <1>1, <1>2, SnFromBase
<1>4. AckEdge(status) = Lower + d /\ Distance(status.ack, vtA) = d
  BY <1>2 DEF AckEdge
<1> HIDE DEF d
<1> QED BY <1>2, <1>3, <1>4, SnConstants

LEMMA AcksStay ==
  ASSUME AmTypes, TransmissionWindow, RxPart, AckPart,
         UNCHANGED <<vtA, statusChannel>>, Lower' = Lower,
         ReportEdge' \in Nat, ReportEdge <= ReportEdge',
         \A n \in Nat : Received(n) => Received(n)',
         sentPdus' \in Nat,
         \A n \in Lower .. sentPdus' - 1 :
           Sn(n) \notin DOMAIN txedBuffer' \union DOMAIN retxBuffer' =>
             n < sentPdus /\ Sn(n) \notin DOMAIN txedBuffer \union DOMAIN retxBuffer
  PROVE  AckPart'
<1>1. Lower \in Nat /\ sentPdus \in Nat /\ ReportEdge \in Nat
  BY DEF TransmissionWindow, RxPart, ReceptionWindow
<1>2. \A status : /\ AckEdge(status)' = AckEdge(status)
                  /\ Acks(status)' = Acks(status)
  BY DEF AckEdge, Acks
<1>3. Reports'
  <2> SUFFICES ASSUME NEW i \in DOMAIN statusChannel
               PROVE  /\ AckEdge(statusChannel[i])' <= ReportEdge'
                      /\ \A n \in Acks(statusChannel[i])' :
                           /\ Received(n)'
                           /\ \A j \in DOMAIN statusChannel :
                                i < j => Sn(n) \notin Missing(statusChannel[j])
    BY DEF Reports, AckEdge, Acks, Missing
  <2>1. /\ AckEdge(statusChannel[i]) <= ReportEdge
        /\ \A n \in Acks(statusChannel[i]) :
             /\ Received(n)
             /\ \A j \in DOMAIN statusChannel :
                  i < j => Sn(n) \notin Missing(statusChannel[j])
    BY DEF AckPart, Reports
  <2>2. AckEdge(statusChannel[i]) \in Int
    <3>1. statusChannel[i] \in StatusPdus
      BY DEF AmTypes
    <3> QED BY <3>1, AckEdgeCounts
  <2>3. \A n \in Acks(statusChannel[i]) : n \in Nat
    BY <1>1, <2>2 DEF Acks
  <2> QED BY <1>1, <1>2, <2>1, <2>2, <2>3
<1>4. Forgotten'
  <2> SUFFICES ASSUME NEW n \in Lower .. sentPdus' - 1,
                      Sn(n) \notin DOMAIN txedBuffer' \union DOMAIN retxBuffer'
               PROVE  /\ Received(n)'
                      /\ \A i \in DOMAIN statusChannel : Sn(n) \notin Missing(statusChannel[i])
    BY DEF Forgotten, Missing
  <2>1. n < sentPdus /\ Sn(n) \notin DOMAIN txedBuffer \union DOMAIN retxBuffer
    OBVIOUS
  <2>2. n \in Lower .. sentPdus - 1 /\ n \in Nat
    BY <1>1, <2>1
  <2> QED BY <2>1, <2>2 DEF AckPart, Forgotten
<1> QED BY <1>3, <1>4 DEF AckPart

-----------------------------------------------------------------------------
(* The steps of the transmitter.                                           *)

LEMMA InitSatisfies == AmInit => AmInvariant
<1> SUFFICES ASSUME AmInit
             PROVE  AmInvariant
  OBVIOUS
<1>1. Sn(0) = 0 /\ Distance(0, 0) = 0
  <2>1. Sn(0) = 0
    BY SnItself, SnConstants
  <2> QED BY <2>1, DistanceOfCounts, SnConstants
<1>2. Lower = 0 /\ Expected = 0 /\ ReportEdge = 0 /\ Beyond = 0
  BY <1>1 DEF AmInit, Lower, Expected, ReportEdge, Beyond
<1>3. BagToSet(channel) = {}
  BY DEF AmInit, EmptyBag, SetToBag, BagToSet
<1>4. AmTypes
  BY SnConstants DEF AmInit, AmTypes
<1>5. TransmissionWindow /\ ReceptionWindow
  BY <1>1, <1>2, SnConstants DEF AmInit, TransmissionWindow, ReceptionWindow
<1>6. TransmitterBuffers /\ ReceptionBuffer /\ Reordering
  BY DEF AmInit, TransmitterBuffers, ReceptionBuffer, Reordering, Numbered
<1>7. NothingIsSkipped /\ DataUnderWay /\ Reports /\ Forgotten
  BY <1>2, <1>3 DEF AmInit, NothingIsSkipped, DataUnderWay, Reports, Forgotten
<1> QED BY <1>4, <1>5, <1>6, <1>7 DEF AmInvariant, TxPart, RxPart, AckPart

\* Steps that change none of the variables of the invariant.
LEMMA OthersKeep ==
  ASSUME AmInvariant,
         UNCHANGED <<sentPdus, vtA, vtS, txedBuffer, retxBuffer, windowVars,
                     channel, statusChannel>>
  PROVE  AmInvariant'
<1>1. UNCHANGED <<sentPdus, vtA, vtS, txedBuffer, retxBuffer, vrR, vrMs, vrX, vrH,
                  rxonBuffer, reorderingTimer, handedUp, channel, statusChannel>>
  BY DEF windowVars
<1>2. Lower' = Lower
  BY <1>1 DEF Lower
<1>3. AmTypes' /\ TransmissionWindow'
  BY <1>1, <1>2 DEF AmInvariant, TxPart, AmTypes, TransmissionWindow
<1>4. TransmitterBuffers'
  BY <1>1, <1>2 DEF AmInvariant, TxPart, TransmitterBuffers, Numbered
<1>5. DataUnderWay'
  BY <1>1 DEF AmInvariant, DataUnderWay
<1>6. /\ RxPart' /\ Expected' = Expected /\ ReportEdge' = ReportEdge
      /\ \A n : Received(n)' <=> Received(n)
  BY <1>1, <1>2, <1>3, ReceiverStays DEF AmInvariant, TxPart, RxPart, TransmissionWindow,
     ReceptionWindow
<1>7. AckPart'
  <2>1. sentPdus \in Nat /\ Lower \in Nat /\ ReportEdge \in Nat
    BY DEF AmInvariant, TxPart, TransmissionWindow, RxPart, ReceptionWindow
  <2> QED BY <1>1, <1>2, <1>6, <2>1, AcksStay DEF AmInvariant, TxPart
<1> QED BY <1>3, <1>4, <1>5, <1>6, <1>7 DEF AmInvariant, TxPart

LEMMA PutNumbered ==
  ASSUME NEW buffer, NEW low \in Int, NEW high \in Int, NEW top \in Int,
         Numbered(buffer, low, high), high <= top,
         NEW n \in Nat, low <= n, n < top
  PROVE  /\ Numbered(Put(buffer, Sn(n), n), low, top)
         /\ DOMAIN Put(buffer, Sn(n), n) = DOMAIN buffer \union {Sn(n)}
<1> DEFINE put == Put(buffer, Sn(n), n)
<1>1. /\ DOMAIN put = DOMAIN buffer \union {Sn(n)}
      /\ put[Sn(n)] = n
      /\ \A sn \in DOMAIN buffer : sn # Sn(n) => put[sn] = buffer[sn]
  BY DEF Put
<1> HIDE DEF put
<1>2. ASSUME NEW sn \in DOMAIN put
      PROVE  put[sn] \in Nat /\ low <= put[sn] /\ put[sn] < top /\ sn = Sn(put[sn])
  <2>1. CASE sn = Sn(n)
    BY <1>1, <2>1
  <2>2. CASE sn # Sn(n)
    <3>1. sn \in DOMAIN buffer /\ put[sn] = buffer[sn]
      BY <1>1, <2>2
    <3>2. buffer[sn] \in Nat /\ low <= buffer[sn] /\ buffer[sn] < high /\ sn = Sn(buffer[sn])
      BY <3>1 DEF Numbered
    <3> QED BY <3>1, <3>2
  <2> QED BY <2>1, <2>2
<1>3. Numbered(put, low, top)
  BY <1>2 DEF Numbered
<1> QED BY <1>1, <1>3 DEF put

\* What is taken out of a buffer leaves the rest in its place.
LEMMA WithoutNumbered ==
  ASSUME NEW buffer, NEW sns, NEW low, NEW high, Numbered(buffer, low, high)
  PROVE  /\ Numbered(Without(buffer, sns), low, high)
         /\ DOMAIN Without(buffer, sns) = DOMAIN buffer \ sns
         /\ \A sn \in DOMAIN buffer \ sns : Without(buffer, sns)[sn] = buffer[sn]
         /\ DOMAIN Without(buffer, sns) = {} => Without(buffer, sns) = << >>
BY DEF Without, Numbered

LEMMA TransmitNewKeeps ==
  ASSUME AmInvariant, TransmitNew, MayTransmitNew, UNCHANGED <<windowVars, statusChannel>>
  PROVE  AmInvariant'
<1> DEFINE s == sentPdus
<1>1. /\ s \in Nat /\ Lower \in Nat /\ Lower <= s /\ s <= Lower + Window
      /\ vtS = Sn(s) /\ vtA = Sn(Lower)
      /\ Lower <= Expected /\ Expected \in Nat /\ ReportEdge \in Nat
  BY AmCounts DEF AmInvariant, TxPart, RxPart
<1>2. /\ retxBuffer = << >> /\ retxBuffer' = retxBuffer /\ vtA' = vtA
      /\ txedBuffer' = Put(txedBuffer, Sn(s), s)
      /\ sentPdus' = s + 1 /\ vtS' = (Sn(s) + 1) % SnSpace
      /\ BagToSet(channel') = BagToSet(channel) \union {[sn |-> Sn(s), sdu |-> s, poll |-> TRUE]}
      /\ Distance(vtS, vtA) # Window
  BY <1>1, BagWith DEF TransmitNew, Send, WindowFull
<1>3. s < Lower + Window
  BY <1>1, <1>2, DistanceOfCounts, SnConstants
<1>4. vtS' = Sn(s + 1) /\ vtA' = Sn(Lower)
  BY <1>1, <1>2, SnPlus
<1>5. Lower' = Lower /\ TransmissionWindow'
  <2>1. s + 1 \in Nat /\ Lower <= s + 1 /\ s + 1 <= Lower + Window
    BY <1>1, <1>3, SnConstants
  <2> QED BY <1>1, <1>2, <1>4, <2>1, LowerIs
<1>6. TransmitterBuffers'
  <2>1. Numbered(txedBuffer, Lower, s)
    BY DEF AmInvariant, TxPart, TransmitterBuffers
  <2>2. Numbered(txedBuffer', Lower, s + 1)
    <3> HIDE DEF s
    <3>1. s + 1 \in Int /\ s <= s + 1 /\ s < s + 1 /\ Lower \in Int /\ s \in Int
      BY <1>1
    <3>2. Numbered(Put(txedBuffer, Sn(s), s), Lower, s + 1)
      BY <1>1, <2>1, <3>1, PutNumbered
    <3> QED BY <1>2, <3>2
  <2>3. DOMAIN retxBuffer' = {}
    BY <1>2
  <2> QED BY <1>2, <1>5, <2>2, <2>3 DEF TransmitterBuffers, Numbered
<1>7. DOMAIN txedBuffer' = DOMAIN txedBuffer \union {Sn(s)}
  BY <1>2 DEF Put
<1>8. DataUnderWay'
  <2> SUFFICES ASSUME NEW pdu \in BagToSet(channel')
               PROVE  /\ pdu.sdu \in Nat
                      /\ (s + 1) - Window <= pdu.sdu /\ pdu.sdu < s + 1
                      /\ pdu.sn = Sn(pdu.sdu)
    BY <1>2 DEF DataUnderWay
  <2>1. CASE pdu \in BagToSet(channel)
    <3>1. /\ pdu.sdu \in Nat /\ pdu.sdu < s /\ pdu.sn = Sn(pdu.sdu)
          /\ s < pdu.sdu + Window
      BY <2>1 DEF AmInvariant, DataUnderWay, MayTransmitNew
    <3> QED BY <1>1, <3>1, SnConstants
  <2>2. CASE pdu = [sn |-> Sn(s), sdu |-> s, poll |-> TRUE]
    BY <1>1, <2>2, SnConstants
  <2> QED BY <1>2, <2>1, <2>2
<1>9. /\ RxPart' /\ Expected' = Expected /\ ReportEdge' = ReportEdge
      /\ \A n : Received(n)' <=> Received(n)
  BY <1>1, <1>2, <1>5, ReceiverStays DEF AmInvariant, TxPart
<1>10. AmTypes'
  BY <1>2 DEF AmInvariant, AmTypes, windowVars
<1>11. AckPart'
  <2>1. ASSUME NEW n \in Lower .. sentPdus' - 1,
               Sn(n) \notin DOMAIN txedBuffer' \union DOMAIN retxBuffer'
        PROVE  n < sentPdus /\ Sn(n) \notin DOMAIN txedBuffer \union DOMAIN retxBuffer
    <3>1. n # s
      BY <1>7, <2>1
    <3>2. n < s
      BY <1>1, <1>2, <3>1
    <3> QED BY <1>2, <1>7, <2>1, <3>2
  <2>2. sentPdus' \in Nat /\ ReportEdge' \in Nat /\ ReportEdge <= ReportEdge'
    BY <1>1, <1>2, <1>9
  <2> QED BY <1>2, <1>5, <1>9, <2>1, <2>2, AcksStay DEF AmInvariant, TxPart
<1> QED BY <1>5, <1>6, <1>8, <1>9, <1>10, <1>11 DEF AmInvariant, TxPart

LEMMA RetransmitKeeps ==
  ASSUME AmInvariant, Retransmit, UNCHANGED <<windowVars, statusChannel>>
  PROVE  AmInvariant'
<1> DEFINE s == sentPdus
           sn == FirstFrom(DOMAIN retxBuffer, vtA)
           sdu == retxBuffer[sn]
<1>1. /\ s \in Nat /\ Lower \in Nat /\ Lower <= s /\ s <= Lower + Window
      /\ vtS = Sn(s) /\ vtA = Sn(Lower)
      /\ Lower <= Expected /\ Expected \in Nat /\ ReportEdge \in Nat
  BY AmCounts DEF AmInvariant, TxPart, RxPart
<1>2. PICK poll :
        /\ txedBuffer' = Put(txedBuffer, sn, sdu)
        /\ retxBuffer' = Without(retxBuffer, {sn})
        /\ UNCHANGED <<sentPdus, vtA, vtS>>
        /\ BagToSet(channel') = BagToSet(channel) \union {[sn |-> sn, sdu |-> sdu, poll |-> poll]}
  <2> DEFINE poll == \/ Queued = 0 /\ DOMAIN retxBuffer = {sn}
                     \/ WindowFull
                     \/ pollExpired
  <2>1. /\ txedBuffer' = Put(txedBuffer, sn, sdu)
        /\ retxBuffer' = Without(retxBuffer, {sn})
        /\ UNCHANGED <<sentPdus, vtA, vtS>>
        /\ Send(sn, sdu, poll)
    BY DEF Retransmit
  <2> HIDE DEF poll, sn
  <2>2. BagToSet(channel') = BagToSet(channel) \union {[sn |-> sn, sdu |-> sdu, poll |-> poll]}
    BY <2>1, BagWith DEF Send
  <2> QED BY <2>1, <2>2
<1>3. /\ Numbered(txedBuffer, Lower, s) /\ Numbered(retxBuffer, Lower, s)
      /\ DOMAIN txedBuffer \cap DOMAIN retxBuffer = {}
  BY DEF AmInvariant, TxPart, TransmitterBuffers
<1>4. sn \in DOMAIN retxBuffer
  <2>1. DOMAIN retxBuffer # {}
    BY DEF Retransmit, AmInvariant, AmTypes
  <2>2. \A n \in DOMAIN retxBuffer : n \in 0 .. SnSpace - 1
    <3> TAKE n \in DOMAIN retxBuffer
    <3>1. retxBuffer[n] \in Int /\ n = Sn(retxBuffer[n])
      BY <1>3 DEF Numbered
    <3> QED BY <3>1, SnType
  <2>3. DOMAIN retxBuffer \in SUBSET (0 .. SnSpace - 1)
    BY <2>2
  <2> QED BY <1>1, <2>1, <2>3, FirstFromBase
<1> HIDE DEF sn
<1>5. sdu \in Nat /\ Lower <= sdu /\ sdu < s /\ sn = Sn(sdu)
  BY <1>3, <1>4 DEF Numbered
<1> HIDE DEF sdu
<1>6. /\ Numbered(txedBuffer', Lower, s)
      /\ DOMAIN txedBuffer' = DOMAIN txedBuffer \union {sn}
  <2>1. /\ Lower \in Int /\ s \in Int /\ s <= s /\ sdu \in Nat /\ Lower <= sdu /\ sdu < s
        /\ Numbered(txedBuffer, Lower, s)
    BY <1>1, <1>3, <1>5
  <2>2. /\ Numbered(Put(txedBuffer, Sn(sdu), sdu), Lower, s)
        /\ DOMAIN Put(txedBuffer, Sn(sdu), sdu) = DOMAIN txedBuffer \union {Sn(sdu)}
    BY <2>1, PutNumbered
  <2> QED BY <1>2, <1>5, <2>2
<1>7. /\ Numbered(retxBuffer', Lower, s)
      /\ DOMAIN retxBuffer' = DOMAIN retxBuffer \ {sn}
      /\ DOMAIN retxBuffer' = {} => retxBuffer' = << >>
  BY <1>2, <1>3, WithoutNumbered
<1>8. Lower' = Lower /\ TransmissionWindow'
  BY <1>1, <1>2, LowerIs
<1>9. TransmitterBuffers'
  BY <1>2, <1>3, <1>6, <1>7, <1>8 DEF TransmitterBuffers, Numbered
<1>10. DataUnderWay'
  <2> SUFFICES ASSUME NEW pdu \in BagToSet(channel')
               PROVE  /\ pdu.sdu \in Nat
                      /\ s - Window <= pdu.sdu /\ pdu.sdu < s
                      /\ pdu.sn = Sn(pdu.sdu)
    BY <1>2 DEF DataUnderWay
  <2>1. CASE pdu \in BagToSet(channel)
    BY <2>1 DEF AmInvariant, DataUnderWay
  <2>2. CASE pdu = [sn |-> sn, sdu |-> sdu, poll |-> poll]
    BY <1>1, <1>5, <2>2, SnConstants
  <2> QED BY <1>2, <2>1, <2>2
<1>11. /\ RxPart' /\ Expected' = Expected /\ ReportEdge' = ReportEdge
       /\ \A n : Received(n)' <=> Received(n)
  BY <1>1, <1>2, <1>8, ReceiverStays DEF AmInvariant, TxPart
<1>12. AmTypes'
  BY <1>7 DEF AmInvariant, AmTypes, windowVars
<1>13. AckPart'
  <2>1. DOMAIN txedBuffer' \union DOMAIN retxBuffer' = DOMAIN txedBuffer \union DOMAIN retxBuffer
    BY <1>4, <1>6, <1>7
  <2>2. \A n \in Lower .. sentPdus' - 1 : n < sentPdus
    BY <1>1, <1>2
  <2>3. sentPdus' \in Nat /\ ReportEdge' \in Nat /\ ReportEdge <= ReportEdge'
    BY <1>1, <1>2, <1>11
  <2> QED BY <1>2, <1>8, <1>11, <2>1, <2>2, <2>3, AcksStay DEF AmInvariant, TxPart
<1> QED BY <1>8, <1>9, <1>10, <1>11, <1>12, <1>13 DEF AmInvariant, TxPart

LEMMA ExpirePollKeeps ==
  ASSUME AmInvariant, ExpirePollRetransmitTimer
  PROVE  AmInvariant'
<1> DEFINE both == [n \in DOMAIN retxBuffer \union DOMAIN txedBuffer |->
                      IF n \in DOMAIN txedBuffer THEN txedBuffer[n] ELSE retxBuffer[n]]
<1>1. /\ sentPdus \in Nat /\ Lower \in Nat /\ Lower <= sentPdus /\ sentPdus <= Lower + Window
      /\ vtS = Sn(sentPdus) /\ vtA = Sn(Lower)
      /\ Lower <= Expected /\ Expected \in Nat /\ ReportEdge \in Nat
  BY AmCounts DEF AmInvariant, TxPart, RxPart
<1>2. /\ UNCHANGED <<sentPdus, vtA, vtS, channel, statusChannel, windowVars>>
      /\ \/ retxBuffer' = both /\ txedBuffer' = << >>
         \/ UNCHANGED <<retxBuffer, txedBuffer>>
  BY DEF ExpirePollRetransmitTimer, StillTxed, amRxVars
<1>3. CASE UNCHANGED <<retxBuffer, txedBuffer>>
  BY <1>2, <1>3, OthersKeep
<1>4. CASE retxBuffer' = both /\ txedBuffer' = << >>
  <2>1. /\ Numbered(txedBuffer, Lower, sentPdus) /\ Numbered(retxBuffer, Lower, sentPdus)
    BY DEF AmInvariant, TxPart, TransmitterBuffers
  <2>2. Lower' = Lower /\ TransmissionWindow'
    BY <1>1, <1>2, LowerIs
  <2>3. /\ DOMAIN txedBuffer' = {}
        /\ DOMAIN retxBuffer' = DOMAIN retxBuffer \union DOMAIN txedBuffer
    BY <1>4
  <2>4. Numbered(retxBuffer', Lower, sentPdus)
    BY <1>4, <2>1 DEF Numbered
  <2>5. TransmitterBuffers'
    BY <1>2, <2>2, <2>3, <2>4 DEF TransmitterBuffers, Numbered
  <2>6. DOMAIN retxBuffer' = {} => retxBuffer' = << >>
    BY <1>4
  <2>7. AmTypes' /\ DataUnderWay'
    BY <1>2, <2>6 DEF AmInvariant, AmTypes, DataUnderWay, windowVars
  <2>8. /\ RxPart' /\ Expected' = Expected /\ ReportEdge' = ReportEdge
        /\ \A n : Received(n)' <=> Received(n)
    BY <1>1, <1>2, <2>2, ReceiverStays DEF AmInvariant, TxPart
  <2>9. AckPart'
    <3>1. DOMAIN txedBuffer' \union DOMAIN retxBuffer' = DOMAIN txedBuffer \union DOMAIN retxBuffer
      BY <2>3
    <3>2. \A n \in Lower .. sentPdus' - 1 : n < sentPdus
      BY <1>1, <1>2
    <3>3. sentPdus' \in Nat /\ ReportEdge' \in Nat /\ ReportEdge <= ReportEdge'
      BY <1>1, <1>2, <2>8
    <3> QED BY <1>2, <2>2, <2>8, <3>1, <3>2, <3>3, AcksStay DEF AmInvariant, TxPart
  <2> QED BY <2>2, <2>5, <2>7, <2>8, <2>9 DEF AmInvariant, TxPart
<1> QED BY <1>2, <1>3, <1>4

\* The numbers that the loop over a STATUS PDU runs through, in counts.
LEMMA CoveredCounts ==
  ASSUME AmInvariant, NEW status \in StatusPdus, AckEdge(status) <= ReportEdge
  PROVE  /\ Covered(status) = {Sn(n) : n \in Lower .. AckEdge(status) - 1}
         /\ Cardinality(Covered(status)) = AckEdge(status) - Lower
<1> DEFINE a == AckEdge(status)
<1>1. /\ sentPdus \in Nat /\ Lower \in Nat /\ Lower <= sentPdus /\ sentPdus <= Lower + Window
      /\ vtS = Sn(sentPdus) /\ vtA = Sn(Lower)
      /\ ReportEdge \in Nat /\ ReportEdge <= sentPdus
  BY AmCounts DEF AmInvariant, TxPart, RxPart
<1>2. /\ a \in Nat /\ Lower <= a /\ a < Lower + SnSpace
      /\ status.ack = Sn(a) /\ Distance(status.ack, vtA) = a - Lower
  BY AckEdgeCounts DEF AmInvariant, TxPart
<1>3. a <= ReportEdge
  OBVIOUS
<1> HIDE DEF a
<1>4. a <= sentPdus /\ a - Lower < SnSpace /\ 0 <= a - Lower
  BY <1>1, <1>2, <1>3, SnConstants
<1>5. Distance(vtS, vtA) = sentPdus - Lower
  BY <1>1, DistanceOfCounts, SnConstants
<1>6. Covered(status) = Interval(Sn(Lower), Sn(a))
  <2>1. CASE Distance(status.ack, vtA) < Distance(vtS, vtA)
    BY <1>1, <1>2, <2>1 DEF Covered
  <2>2. CASE ~ (Distance(status.ack, vtA) < Distance(vtS, vtA))
    <3>1. a = sentPdus
      BY <1>1, <1>2, <1>4, <1>5, <2>2
    <3> QED BY <1>1, <2>2, <3>1 DEF Covered
  <2> QED BY <2>1, <2>2
<1>7. /\ Interval(Sn(Lower), Sn(a)) = {Sn(n) : n \in Lower .. a - 1}
      /\ Cardinality(Interval(Sn(Lower), Sn(a))) = a - Lower
  BY <1>1, <1>2, <1>4, IntervalOfCounts
<1> QED BY <1>6, <1>7 DEF a

\* VT(A) moves up to the first number that is reported missing, past numbers
\* that are acknowledged only.
LEMMA LowerEdgeMoves ==
  ASSUME AmInvariant, NEW status \in StatusPdus, AckEdge(status) <= ReportEdge,
         HandleStatus(status)
  PROVE  \E m \in Lower .. AckEdge(status) :
           /\ vtA' = Sn(m)
           /\ \A k \in Lower .. m - 1 : Sn(k) \notin status.nacks
<1> DEFINE a == AckEdge(status)
<1>1. Lower \in Nat /\ vtA = Sn(Lower)
  BY DEF AmInvariant, TxPart, TransmissionWindow
<1>2. a \in Nat /\ Lower <= a /\ a < Lower + SnSpace
  BY AckEdgeCounts DEF AmInvariant, TxPart
<1>3. /\ Covered(status) = {Sn(n) : n \in Lower .. a - 1}
      /\ Cardinality(Covered(status)) = a - Lower
  BY CoveredCounts
<1> HIDE DEF a
<1>4. CASE Nacked(status) # {}
  <2>1. Nacked(status) \in SUBSET (0 .. SnSpace - 1)
    <3>1. \A n \in Lower .. a - 1 : Sn(n) \in 0 .. SnSpace - 1
      BY <1>1, <1>2, SnType
    <3> QED BY <1>3, <3>1 DEF Nacked
  <2>2. PICK m \in Lower .. Lower + SnSpace - 1 :
          /\ FirstFrom(Nacked(status), Sn(Lower)) = Sn(m)
          /\ Sn(m) \in Nacked(status)
          /\ \A k \in Lower .. m - 1 : Sn(k) \notin Nacked(status)
    BY <1>1, <1>4, <2>1, FirstFromBase
  <2>3. PICK n \in Lower .. a - 1 : Sn(m) = Sn(n)
    BY <1>3, <2>2 DEF Nacked
  <2>4. m = n
    BY <1>1, <1>2, <2>3, SnIsInjective, SnConstants
  <2>5. \A k \in Lower .. m - 1 : Sn(k) \in Covered(status)
    BY <1>1, <1>2, <1>3, <2>4
  <2>6. \A k \in Lower .. m - 1 : Sn(k) \notin status.nacks
    BY <2>2, <2>5 DEF Nacked
  <2>7. vtA' = Sn(m)
    BY <1>1, <1>4, <2>2 DEF HandleStatus
  <2>8. m \in Lower .. a
    BY <1>1, <1>2, <2>4
  <2> QED BY <2>6, <2>7, <2>8 DEF a
<1>5. CASE Nacked(status) = {}
  <2>1. vtA' = (Sn(Lower) + (a - Lower)) % SnSpace
    BY <1>1, <1>3, <1>5 DEF HandleStatus
  <2>2. a - Lower \in Int /\ Lower + (a - Lower) = a
    BY <1>1, <1>2
  <2>3. vtA' = Sn(a)
    BY <1>1, <2>1, <2>2, SnPlus
  <2>4. \A k \in Lower .. a - 1 : Sn(k) \notin status.nacks
    BY <1>3, <1>5 DEF Nacked
  <2>5. a \in Lower .. a
    BY <1>1, <1>2
  <2> QED BY <2>3, <2>4, <2>5 DEF a
<1> QED BY <1>4, <1>5

\* The buffers after a STATUS PDU: what it acknowledges is in neither, what it
\* says is missing is to be sent again.
LEMMA StatusBuffers ==
  ASSUME AmInvariant, NEW status \in StatusPdus, AckEdge(status) <= ReportEdge,
         HandleStatus(status), NEW m \in Lower .. AckEdge(status),
         \A k \in Lower .. m - 1 : Sn(k) \notin status.nacks
  PROVE  /\ Numbered(txedBuffer', m, sentPdus) /\ Numbered(retxBuffer', m, sentPdus)
         /\ DOMAIN txedBuffer' \cap DOMAIN retxBuffer' = {}
         /\ DOMAIN retxBuffer' = {} => retxBuffer' = << >>
         /\ \A n \in m .. sentPdus - 1 :
              Sn(n) \notin DOMAIN txedBuffer' \union DOMAIN retxBuffer' =>
                \/ Sn(n) \notin DOMAIN txedBuffer \union DOMAIN retxBuffer
                \/ n \in Acks(status)
<1> DEFINE a == AckEdge(status)
<1>1. /\ sentPdus \in Nat /\ Lower \in Nat /\ Lower <= sentPdus /\ sentPdus <= Lower + Window
      /\ ReportEdge \in Nat /\ ReportEdge <= sentPdus
  BY AmCounts DEF AmInvariant, TxPart, RxPart
<1>2. a \in Nat /\ Lower <= a /\ a <= sentPdus
  <2>1. a \in Nat /\ Lower <= a
    BY AckEdgeCounts DEF AmInvariant, TxPart
  <2>2. a <= ReportEdge
    OBVIOUS
  <2> HIDE DEF a
  <2> QED BY <1>1, <2>1, <2>2
<1>3. Covered(status) = {Sn(n) : n \in Lower .. a - 1}
  BY CoveredCounts
<1>4. m \in Nat /\ Lower <= m /\ m <= a
  BY <1>1, <1>2
<1>5. Acks(status) = {n \in Lower .. a - 1 : Sn(n) \notin status.nacks}
  BY DEF Acks
<1> HIDE DEF a
<1>6. /\ Numbered(txedBuffer, Lower, sentPdus) /\ Numbered(retxBuffer, Lower, sentPdus)
      /\ DOMAIN txedBuffer \cap DOMAIN retxBuffer = {}
  BY DEF AmInvariant, TxPart, TransmitterBuffers
<1>7. /\ DOMAIN txedBuffer' = DOMAIN txedBuffer \ Covered(status)
      /\ \A sn \in DOMAIN txedBuffer' : txedBuffer'[sn] = txedBuffer[sn]
  BY DEF HandleStatus, Without
<1>8. /\ DOMAIN retxBuffer' = (DOMAIN retxBuffer \ Acked(status))
                                 \union (DOMAIN txedBuffer \cap Nacked(status))
      /\ \A sn \in DOMAIN retxBuffer' :
           retxBuffer'[sn] = IF sn \in DOMAIN txedBuffer THEN txedBuffer[sn] ELSE retxBuffer[sn]
      /\ DOMAIN retxBuffer' = {} => retxBuffer' = << >>
  BY DEF HandleStatus
\* What is below the new edge is acknowledged.
<1>9. ASSUME NEW n \in Nat, Lower <= n, n < m
      PROVE  Sn(n) \in Acked(status) /\ Sn(n) \notin Nacked(status) /\ Sn(n) \in Covered(status)
  <2>1. n \in Lower .. m - 1 /\ n \in Lower .. a - 1
    BY <1>1, <1>2, <1>4, <1>9
  <2> QED BY <1>3, <2>1 DEF Acked, Nacked
<1>10. ASSUME NEW sn \in DOMAIN txedBuffer'
       PROVE  /\ txedBuffer'[sn] \in Nat /\ m <= txedBuffer'[sn]
              /\ txedBuffer'[sn] < sentPdus /\ sn = Sn(txedBuffer'[sn])
  <2> DEFINE n == txedBuffer'[sn]
  <2>1. n \in Nat /\ Lower <= n /\ n < sentPdus /\ sn = Sn(n) /\ sn \notin Covered(status)
    BY <1>6, <1>7 DEF Numbered
  <2> HIDE DEF n
  <2>2. ~ (n < m)
    BY <1>9, <2>1
  <2>3. m <= n
    BY <1>4, <2>1, <2>2
  <2> QED BY <2>1, <2>3 DEF n
<1>11. ASSUME NEW sn \in DOMAIN retxBuffer'
       PROVE  /\ retxBuffer'[sn] \in Nat /\ m <= retxBuffer'[sn]
              /\ retxBuffer'[sn] < sentPdus /\ sn = Sn(retxBuffer'[sn])
  <2> DEFINE n == retxBuffer'[sn]
  <2>1. n \in Nat /\ Lower <= n /\ n < sentPdus /\ sn = Sn(n)
    <3>1. CASE sn \in DOMAIN txedBuffer
      <4>1. n = txedBuffer[sn]
        BY <1>8, <3>1
      <4> HIDE DEF n
      <4> QED BY <1>6, <3>1, <4>1 DEF Numbered
    <3>2. CASE sn \notin DOMAIN txedBuffer
      <4>1. n = retxBuffer[sn] /\ sn \in DOMAIN retxBuffer
        BY <1>8, <3>2
      <4> HIDE DEF n
      <4> QED BY <1>6, <4>1 DEF Numbered
    <3> QED BY <3>1, <3>2
  <2>2. sn \notin Acked(status) \/ sn \in Nacked(status)
    BY <1>8
  <2> HIDE DEF n
  <2>3. ~ (n < m)
    BY <1>9, <2>1, <2>2
  <2>4. m <= n
    BY <1>4, <2>1, <2>3
  <2> QED BY <2>1, <2>4 DEF n
<1>12. DOMAIN txedBuffer' \cap DOMAIN retxBuffer' = {}
  BY <1>6, <1>7, <1>8 DEF Nacked
<1>13. ASSUME NEW n \in m .. sentPdus - 1,
              Sn(n) \notin DOMAIN txedBuffer', Sn(n) \notin DOMAIN retxBuffer',
              Sn(n) \in DOMAIN txedBuffer \union DOMAIN retxBuffer
       PROVE  n \in Acks(status)
  <2>1. Sn(n) \in Covered(status) /\ Sn(n) \notin status.nacks
    <3>1. CASE Sn(n) \in DOMAIN txedBuffer
      <4>1. Sn(n) \in Covered(status) /\ Sn(n) \notin Nacked(status)
        BY <1>7, <1>8, <1>13, <3>1
      <4> QED BY <4>1 DEF Nacked
    <3>2. CASE Sn(n) \in DOMAIN retxBuffer
      <4>1. Sn(n) \in Acked(status)
        BY <1>8, <1>13, <3>2
      <4> QED BY <4>1 DEF Acked
    <3> QED BY <1>13, <3>1, <3>2
  <2>2. PICK k \in Lower .. a - 1 : Sn(n) = Sn(k)
    BY <1>3, <2>1
  <2>3. n = k
    BY <1>1, <1>2, <1>4, <2>2, SnIsInjective, SnConstants
  <2> QED BY <1>5, <2>1, <2>3
<1> QED BY <1>8, <1>10, <1>11, <1>12, <1>13 DEF Numbered

\* A STATUS PDU that comes later does not acknowledge less than the edge that
\* an earlier one moves VT(A) to, and means the same from there.
LEMMA LaterReports ==
  ASSUME AmInvariant, NEW i \in DOMAIN statusChannel, 1 < i,
         NEW m \in Lower .. AckEdge(statusChannel[1]),
         \A k \in Lower .. m - 1 : Sn(k) \notin statusChannel[1].nacks,
         vtA' = Sn(m), Lower' = m
  PROVE  /\ AckEdge(statusChannel[i]) >= m
         /\ m + Distance(statusChannel[i].ack, Sn(m)) = AckEdge(statusChannel[i])
<1> DEFINE first == statusChannel[1]
           later == statusChannel[i]
           a == AckEdge(first)
           b == AckEdge(later)
<1>1. 1 \in DOMAIN statusChannel /\ first \in StatusPdus /\ later \in StatusPdus
  BY DEF AmInvariant, AmTypes
<1>2. /\ Lower \in Nat /\ a \in Nat /\ Lower <= a /\ b \in Nat /\ Lower <= b
      /\ b < Lower + SnSpace /\ later.ack = Sn(b)
  BY <1>1, AckEdgeCounts DEF AmInvariant, TxPart, TransmissionWindow
<1>3. \A n \in Acks(first) : Sn(n) \notin Missing(later)
  BY <1>1 DEF AmInvariant, AckPart, Reports
<1>4. Acks(first) = {n \in Lower .. a - 1 : Sn(n) \notin first.nacks}
  BY DEF Acks
<1>5. m \in Nat /\ Lower <= m /\ m <= a
  BY <1>2
<1> HIDE DEF a, b
<1>6. m <= b
  <2> SUFFICES ASSUME b < m
               PROVE  FALSE
    BY <1>2, <1>5
  <2>1. b \in Lower .. m - 1 /\ b \in Lower .. a - 1
    BY <1>2, <1>5
  <2>2. b \in Acks(first)
    BY <1>4, <2>1
  <2>3. Sn(b) \in Missing(later)
    BY <1>2 DEF Missing
  <2> QED BY <1>3, <2>2, <2>3
<1>7. Distance(later.ack, Sn(m)) = b - m
  <2>1. 0 <= b - m /\ b - m < SnSpace
    BY <1>2, <1>5, <1>6, SnConstants
  <2> QED BY <1>2, <1>5, <2>1, DistanceOfCounts
<1>8. b >= m /\ m + Distance(later.ack, Sn(m)) = b
  BY <1>2, <1>5, <1>6, <1>7
<1> QED BY <1>8 DEF b

\* The first STATUS PDU comes to the transmitter.
LEMMA ReceiveStatusKeeps ==
  ASSUME AmInvariant, 1 \in DOMAIN statusChannel, statusChannel' = Removed(1),
         HandleStatus(statusChannel[1]), UNCHANGED <<windowVars, channel>>
  PROVE  AmInvariant'
<1> DEFINE first == statusChannel[1]
           a == AckEdge(first)
<1>1. /\ sentPdus \in Nat /\ Lower \in Nat /\ Lower <= sentPdus /\ sentPdus <= Lower + Window
      /\ vtS = Sn(sentPdus) /\ Lower <= Expected /\ Expected \in Nat
      /\ ReportEdge \in Nat /\ ReportEdge <= sentPdus
  BY AmCounts DEF AmInvariant, TxPart, RxPart
<1>2. /\ first \in StatusPdus /\ a <= ReportEdge
      /\ \A n \in Acks(first) :
           /\ Received(n)
           /\ \A j \in DOMAIN statusChannel : 1 < j => Sn(n) \notin Missing(statusChannel[j])
  BY DEF AmInvariant, AmTypes, AckPart, Reports
<1>3. a \in Nat /\ Lower <= a
  BY <1>2, AckEdgeCounts DEF AmInvariant, TxPart
<1>4. PICK m \in Lower .. a : /\ vtA' = Sn(m)
                              /\ \A k \in Lower .. m - 1 : Sn(k) \notin first.nacks
  BY <1>2, LowerEdgeMoves
<1>5. /\ Numbered(txedBuffer', m, sentPdus) /\ Numbered(retxBuffer', m, sentPdus)
      /\ DOMAIN txedBuffer' \cap DOMAIN retxBuffer' = {}
      /\ DOMAIN retxBuffer' = {} => retxBuffer' = << >>
      /\ \A n \in m .. sentPdus - 1 :
           Sn(n) \notin DOMAIN txedBuffer' \union DOMAIN retxBuffer' =>
             \/ Sn(n) \notin DOMAIN txedBuffer \union DOMAIN retxBuffer
             \/ n \in Acks(first)
  BY <1>2, <1>4, StatusBuffers
<1>6. Acks(first) = {n \in Lower .. a - 1 : Sn(n) \notin first.nacks}
  BY DEF Acks
<1> HIDE DEF a
<1>7. m \in Nat /\ Lower <= m /\ m <= a /\ m <= sentPdus /\ sentPdus <= m + Window
  BY <1>1, <1>2, <1>3, SnConstants
<1>8. m <= Expected
  <2> SUFFICES ASSUME Expected < m
               PROVE  FALSE
    BY <1>1, <1>7
  <2>1. Expected \in Lower .. m - 1 /\ Expected \in Lower .. a - 1
    BY <1>1, <1>3, <1>7
  <2>2. Received(Expected)
    BY <1>2, <1>4, <1>6, <2>1
  <2>3. PICK sn \in DOMAIN rxonBuffer : rxonBuffer[sn] = Expected
    BY <1>1, <2>2 DEF Received
  <2>4. Expected + 1 <= Expected
    BY <2>3 DEF AmInvariant, RxPart, ReceptionBuffer, Numbered
  <2> QED BY <1>1, <2>4
<1>9. UNCHANGED <<sentPdus, vtS>>
  BY DEF HandleStatus
<1>10. Lower' = m /\ TransmissionWindow'
  BY <1>1, <1>4, <1>7, <1>9, LowerIs
<1>11. TransmitterBuffers'
  BY <1>5, <1>9, <1>10 DEF TransmitterBuffers, Numbered
<1>12. /\ RxPart' /\ Expected' = Expected /\ ReportEdge' = ReportEdge
       /\ \A n : Received(n)' <=> Received(n)
  BY <1>1, <1>8, <1>9, <1>10, ReceiverStays DEF AmInvariant, TxPart
<1>13. /\ Removed(1) \in Seq(StatusPdus)
       /\ \A j \in DOMAIN statusChannel' : /\ j + 1 \in DOMAIN statusChannel /\ 1 < j + 1
                                           /\ j \in Nat
                                           /\ statusChannel'[j] = statusChannel[j + 1]
  <2>1. /\ Removed(1) \in Seq(StatusPdus)
        /\ DOMAIN Removed(1) = 1 .. Len(statusChannel) - 1
        /\ \A j \in DOMAIN Removed(1) : Removed(1)[j] = statusChannel[IF j < 1 THEN j ELSE j + 1]
    BY RemovedElements DEF AmInvariant, AmTypes
  <2>2. DOMAIN statusChannel = 1 .. Len(statusChannel) /\ Len(statusChannel) \in Nat
    BY DEF AmInvariant, AmTypes
  <2> QED BY <2>1, <2>2
<1>14. AmTypes'
  BY <1>5, <1>13 DEF AmInvariant, AmTypes, windowVars
<1>15. DataUnderWay'
  BY <1>9 DEF AmInvariant, DataUnderWay
<1>16. Reports'
  <2> SUFFICES ASSUME NEW j \in DOMAIN statusChannel'
               PROVE  /\ AckEdge(statusChannel[j])' <= ReportEdge
                      /\ \A n \in Acks(statusChannel[j])' :
                           /\ Received(n)
                           /\ \A k \in DOMAIN statusChannel' :
                                j < k => Sn(n) \notin Missing(statusChannel'[k])
    BY <1>12 DEF Reports, Missing
  <2> DEFINE later == statusChannel[j + 1]
  <2>1. /\ statusChannel'[j] = later /\ j + 1 \in DOMAIN statusChannel /\ 1 < j + 1
        /\ j \in Nat
    BY <1>13
  <2>2. AckEdge(statusChannel[j])' = m + Distance(later.ack, Sn(m))
    BY <1>4, <1>10, <2>1 DEF AckEdge
  <2>3. m + Distance(later.ack, Sn(m)) = AckEdge(later) /\ AckEdge(later) >= m
    BY <1>4, <1>10, <2>1, LaterReports DEF a
  <2>4. /\ AckEdge(later) <= ReportEdge
        /\ \A n \in Acks(later) :
             /\ Received(n)
             /\ \A k \in DOMAIN statusChannel :
                  j + 1 < k => Sn(n) \notin Missing(statusChannel[k])
    BY <2>1 DEF AmInvariant, AckPart, Reports
  <2>5. later \in StatusPdus
    BY <2>1 DEF AmInvariant, AmTypes
  <2>6. AckEdge(later) \in Nat
    BY <2>5, AckEdgeCounts DEF AmInvariant, TxPart
  <2>7. Acks(statusChannel[j])' = {n \in m .. AckEdge(later) - 1 : Sn(n) \notin later.nacks}
    BY <1>10, <2>1, <2>2, <2>3 DEF Acks
  <2>8. Acks(statusChannel[j])' \subseteq Acks(later)
    BY <1>1, <1>7, <2>6, <2>7 DEF Acks
  <2>9. ASSUME NEW n \in Acks(later), NEW k \in DOMAIN statusChannel', j < k
        PROVE  Sn(n) \notin Missing(statusChannel'[k])
    <3>1. /\ k \in Nat /\ k + 1 \in DOMAIN statusChannel
          /\ statusChannel'[k] = statusChannel[k + 1]
      BY <1>13
    <3>2. j + 1 < k + 1
      BY <2>1, <2>9, <3>1
    <3> QED BY <2>4, <3>1, <3>2
  <2> HIDE DEF later
  <2> QED BY <2>2, <2>3, <2>4, <2>8, <2>9
<1>17. Forgotten'
  <2> SUFFICES ASSUME NEW n \in m .. sentPdus - 1,
                      Sn(n) \notin DOMAIN txedBuffer' \union DOMAIN retxBuffer'
               PROVE  /\ Received(n)
                      /\ \A j \in DOMAIN statusChannel' : Sn(n) \notin Missing(statusChannel'[j])
    BY <1>9, <1>10, <1>12 DEF Forgotten, Missing
  <2>1. n \in Lower .. sentPdus - 1
    BY <1>1, <1>7
  <2>2. /\ Received(n)
        /\ \A j \in DOMAIN statusChannel : 1 < j => Sn(n) \notin Missing(statusChannel[j])
    <3>1. CASE Sn(n) \notin DOMAIN txedBuffer \union DOMAIN retxBuffer
      BY <2>1, <3>1 DEF AmInvariant, AckPart, Forgotten
    <3>2. CASE n \in Acks(first)
      BY <1>2, <3>2
    <3> QED BY <1>5, <3>1, <3>2
  <2> QED BY <1>13, <2>2
<1> QED BY <1>10, <1>11, <1>12, <1>14, <1>15, <1>16, <1>17 DEF AmInvariant, TxPart, AckPart

\* A STATUS PDU is lost.
LEMMA LoseStatusKeeps ==
  ASSUME AmInvariant, NEW i \in DOMAIN statusChannel, statusChannel' = Removed(i),
         UNCHANGED <<amTxVars, amRxVars, channel>>
  PROVE  AmInvariant'
<1>1. UNCHANGED <<sentPdus, vtA, vtS, txedBuffer, retxBuffer, windowVars, channel>>
  BY DEF amTxVars, amRxVars
<1>2. /\ Lower \in Nat /\ sentPdus \in Nat /\ Lower <= Expected /\ Expected \in Nat
  BY AmCounts DEF AmInvariant, TxPart, RxPart
<1>3. Lower' = Lower
  BY <1>1 DEF Lower
<1>4. TxPart' /\ DataUnderWay'
  BY <1>1, <1>3 DEF AmInvariant, TxPart, TransmissionWindow, TransmitterBuffers, Numbered,
     DataUnderWay
<1>5. /\ RxPart' /\ Expected' = Expected /\ ReportEdge' = ReportEdge
      /\ \A n : Received(n)' <=> Received(n)
  BY <1>1, <1>2, <1>3, <1>4, ReceiverStays DEF AmInvariant, TxPart
<1> DEFINE before(j) == IF j < i THEN j ELSE j + 1
<1>6. /\ statusChannel' \in Seq(StatusPdus)
      /\ \A j \in DOMAIN statusChannel' : /\ j \in Nat
                                          /\ before(j) \in DOMAIN statusChannel
                                          /\ statusChannel'[j] = statusChannel[before(j)]
      /\ \A j, k \in DOMAIN statusChannel' : j < k => before(j) < before(k)
  <2>1. /\ Removed(i) \in Seq(StatusPdus)
        /\ DOMAIN Removed(i) = 1 .. Len(statusChannel) - 1
        /\ \A j \in DOMAIN Removed(i) : Removed(i)[j] = statusChannel[before(j)]
    BY RemovedElements DEF AmInvariant, AmTypes
  <2>2. /\ DOMAIN statusChannel = 1 .. Len(statusChannel) /\ Len(statusChannel) \in Nat
        /\ i \in 1 .. Len(statusChannel)
    BY DEF AmInvariant, AmTypes
  <2> QED BY <2>1, <2>2
<1> HIDE DEF before
<1>7. AmTypes'
  BY <1>1, <1>6 DEF AmInvariant, AmTypes, windowVars
<1>8. \A status : AckEdge(status)' = AckEdge(status) /\ Acks(status)' = Acks(status)
  BY <1>1, <1>3 DEF AckEdge, Acks
<1>9. Reports'
  <2> SUFFICES ASSUME NEW j \in DOMAIN statusChannel'
               PROVE  /\ AckEdge(statusChannel'[j]) <= ReportEdge
                      /\ \A n \in Acks(statusChannel'[j]) :
                           /\ Received(n)
                           /\ \A k \in DOMAIN statusChannel' :
                                j < k => Sn(n) \notin Missing(statusChannel'[k])
    BY <1>1, <1>3, <1>5 DEF Reports, Missing, AckEdge, Acks
  <2>1. /\ AckEdge(statusChannel'[j]) <= ReportEdge
        /\ \A n \in Acks(statusChannel'[j]) :
             /\ Received(n)
             /\ \A k \in DOMAIN statusChannel :
                  before(j) < k => Sn(n) \notin Missing(statusChannel[k])
    BY <1>6 DEF AmInvariant, AckPart, Reports
  <2> QED BY <1>6, <2>1
<1>10. Forgotten'
  <2> SUFFICES ASSUME NEW n \in Lower .. sentPdus - 1,
                      Sn(n) \notin DOMAIN txedBuffer \union DOMAIN retxBuffer
               PROVE  /\ Received(n)
                      /\ \A j \in DOMAIN statusChannel' : Sn(n) \notin Missing(statusChannel'[j])
    BY <1>1, <1>3, <1>5 DEF Forgotten, Missing
  <2>1. /\ Received(n)
        /\ \A j \in DOMAIN statusChannel : Sn(n) \notin Missing(statusChannel[j])
    BY DEF AmInvariant, AckPart, Forgotten
  <2> QED BY <1>6, <2>1
<1> QED BY <1>4, <1>5, <1>7, <1>9, <1>10 DEF AmInvariant, AckPart

-----------------------------------------------------------------------------
(* The steps of the receiver.                                              *)

\* The transmitter and the STATUS PDUs stay as they are while the receiver
\* takes in more.
LEMMA TransmitterStays ==
  ASSUME AmInvariant, UNCHANGED <<sentPdus, vtA, vtS, txedBuffer, retxBuffer>>,
         statusChannel' = statusChannel,
         AmTypes', BagToSet(channel') \subseteq BagToSet(channel), RxPart',
         ReportEdge <= ReportEdge',
         \A n \in Nat : Received(n) => Received(n)'
  PROVE  AmInvariant'
<1>1. /\ Lower \in Nat /\ sentPdus \in Nat
  BY DEF AmInvariant, TxPart, TransmissionWindow
<1>2. Lower' = Lower
  BY DEF Lower
<1>3. TxPart' /\ DataUnderWay'
  BY <1>2 DEF AmInvariant, TxPart, TransmissionWindow, TransmitterBuffers, Numbered, DataUnderWay
<1>4. AckPart'
  <2>1. sentPdus' \in Nat /\ ReportEdge' \in Nat
    BY <1>1 DEF RxPart, ReceptionWindow
  <2>2. \A n \in Lower .. sentPdus' - 1 : n < sentPdus
    BY <1>1
  <2> QED BY <1>2, <2>1, <2>2, AcksStay DEF AmInvariant, TxPart
<1> QED BY <1>3, <1>4 DEF AmInvariant

\* Moving the edges of the reception window.
LEMMA ReceptionWindowIs ==
  ASSUME NEW e \in Nat, NEW m \in Nat, NEW h \in Nat, e <= m, m <= h, h < e + SnSpace,
         Lower' <= e, h <= sentPdus',
         Expected' = e, vrR' = Sn(e), vrMs' = Sn(m), vrH' = Sn(h)
  PROVE  ReportEdge' = m /\ Beyond' = h /\ ReceptionWindow'
<1>1. Distance(Sn(m), Sn(e)) = m - e /\ Distance(Sn(h), Sn(e)) = h - e
  BY DistanceOfCounts, SnConstants
<1>2. ReportEdge' = m /\ Beyond' = h
  BY <1>1 DEF ReportEdge, Beyond
<1> QED BY <1>2 DEF ReceptionWindow

\* A PDU inside the window is not below VR(R).
LEMMA InsideIsExpected ==
  ASSUME AmInvariant, NEW pdu \in BagToSet(channel), IsInsideReceivingWindow(pdu.sn, vrR)
  PROVE  /\ pdu.sdu \in Nat /\ pdu.sn = Sn(pdu.sdu)
         /\ Expected <= pdu.sdu /\ pdu.sdu < sentPdus
         /\ Distance(pdu.sn, vrR) = pdu.sdu - Expected
<1> DEFINE p == pdu.sdu
<1>1. /\ sentPdus \in Nat /\ Lower \in Nat /\ sentPdus <= Lower + Window
      /\ Expected \in Nat /\ Lower <= Expected /\ Expected <= sentPdus
      /\ vrR = Sn(Expected)
  BY AmCounts DEF AmInvariant, TxPart, RxPart
<1>2. /\ p \in Nat /\ pdu.sn = Sn(p)
      /\ sentPdus - Window <= p /\ p < sentPdus
  BY DEF AmInvariant, DataUnderWay
<1>3. Distance(Sn(p), Sn(Expected)) < Window
  BY <1>1, <1>2 DEF IsInsideReceivingWindow
<1> HIDE DEF p
<1>4. Expected <= p
  <2> SUFFICES ASSUME p < Expected
               PROVE  FALSE
    BY <1>1, <1>2
  <2>1. 0 <= (p + SnSpace) - Expected /\ (p + SnSpace) - Expected < SnSpace
    BY <1>1, <1>2, SnConstants
  <2>2. p + SnSpace \in Int
    BY <1>2, SnConstants
  <2>3. Distance(Sn(p + SnSpace), Sn(Expected)) = (p + SnSpace) - Expected
    BY <1>1, <2>1, <2>2, DistanceOfCounts
  <2>4. Sn(p + SnSpace) = Sn(p)
    BY <1>2, SnIsPeriodic
  <2>5. (p + SnSpace) - Expected >= Window
    BY <1>1, <1>2, SnConstants
  <2> QED BY <1>3, <2>3, <2>4, <2>5, <1>1, <1>2, SnConstants
<1>5. Distance(Sn(p), Sn(Expected)) = p - Expected
  BY <1>1, <1>2, <1>4, DistanceOfCounts, SnConstants
<1> QED BY <1>1, <1>2, <1>4, <1>5 DEF p

\* The reception buffer with a PDU from inside the window.
Buffer(pdu) ==
  IF pdu.sn \in DOMAIN rxonBuffer THEN rxonBuffer ELSE Put(rxonBuffer, pdu.sn, pdu.sdu)

LEMMA BufferNumbered ==
  ASSUME AmInvariant, NEW pdu, pdu.sdu \in Nat, pdu.sn = Sn(pdu.sdu),
         Expected <= pdu.sdu, pdu.sdu < sentPdus,
         NEW top \in Nat, Beyond <= top, pdu.sdu < top
  PROVE  /\ Numbered(Buffer(pdu), Expected, top)
         /\ DOMAIN Buffer(pdu) = DOMAIN rxonBuffer \union {pdu.sn}
         /\ \A sn \in DOMAIN rxonBuffer : Buffer(pdu)[sn] = rxonBuffer[sn]
         /\ Sn(Expected) \in DOMAIN Buffer(pdu) => pdu.sdu = Expected
<1>1. /\ sentPdus \in Nat /\ Lower \in Nat /\ sentPdus <= Lower + Window
      /\ Expected \in Nat /\ Lower <= Expected /\ Expected <= Beyond /\ Beyond \in Nat
      /\ Beyond <= sentPdus
  BY AmCounts DEF AmInvariant, TxPart, RxPart
<1>2. Numbered(rxonBuffer, Expected + 1, Beyond)
  BY DEF AmInvariant, RxPart, ReceptionBuffer
<1>3. Numbered(rxonBuffer, Expected, top) /\ Numbered(rxonBuffer, Expected, Beyond)
  <2> SUFFICES ASSUME NEW sn \in DOMAIN rxonBuffer
               PROVE  /\ rxonBuffer[sn] \in Nat /\ Expected <= rxonBuffer[sn]
                      /\ rxonBuffer[sn] < top /\ rxonBuffer[sn] < Beyond
                      /\ sn = Sn(rxonBuffer[sn])
    BY DEF Numbered
  <2>1. /\ rxonBuffer[sn] \in Nat /\ Expected + 1 <= rxonBuffer[sn]
        /\ rxonBuffer[sn] < Beyond /\ sn = Sn(rxonBuffer[sn])
    BY <1>2 DEF Numbered
  <2> QED BY <1>1, <2>1
<1>4. /\ Numbered(Buffer(pdu), Expected, top)
      /\ DOMAIN Buffer(pdu) = DOMAIN rxonBuffer \union {pdu.sn}
      /\ \A sn \in DOMAIN rxonBuffer : Buffer(pdu)[sn] = rxonBuffer[sn]
  <2>1. CASE pdu.sn \in DOMAIN rxonBuffer
    BY <1>3, <2>1 DEF Buffer
  <2>2. CASE pdu.sn \notin DOMAIN rxonBuffer
    <3> DEFINE n == pdu.sdu
    <3>1. Buffer(pdu) = Put(rxonBuffer, Sn(n), n) /\ pdu.sn = Sn(n)
      BY <2>2 DEF Buffer
    <3>2. n \in Nat /\ Expected <= n /\ n < top /\ top \in Int /\ Expected \in Int /\ top <= top
      BY <1>1
    <3> HIDE DEF n
    <3>3. /\ Numbered(Put(rxonBuffer, Sn(n), n), Expected, top)
          /\ DOMAIN Put(rxonBuffer, Sn(n), n) = DOMAIN rxonBuffer \union {Sn(n)}
      BY <1>3, <3>2, PutNumbered
    <3>4. \A sn \in DOMAIN rxonBuffer : Buffer(pdu)[sn] = rxonBuffer[sn]
      BY <2>2, <3>1 DEF Put
    <3> QED BY <3>1, <3>3, <3>4
  <2> QED BY <2>1, <2>2
<1>6. Sn(Expected) \in DOMAIN Buffer(pdu) => pdu.sdu = Expected
  <2> SUFFICES ASSUME Sn(Expected) \in DOMAIN rxonBuffer \union {Sn(pdu.sdu)}
               PROVE  pdu.sdu = Expected
    BY <1>4
  <2>1. Sn(Expected) \notin DOMAIN rxonBuffer
    <3> SUFFICES ASSUME Sn(Expected) \in DOMAIN rxonBuffer
                 PROVE  FALSE
      OBVIOUS
    <3>1. rxonBuffer[Sn(Expected)] = Expected
      BY <1>1, <1>3, NumberedAt, SnConstants
    <3>2. Expected + 1 <= rxonBuffer[Sn(Expected)]
      BY <1>2 DEF Numbered
    <3> QED BY <1>1, <3>1, <3>2
  <2>2. Sn(Expected) = Sn(pdu.sdu)
    BY <2>1
  <2> QED BY <1>1, <2>2, SnIsInjective, SnConstants
<1> QED BY <1>4, <1>6

\* The edges of the window after a PDU, in counts.
PlacedEdges(pdu, r, m, h) ==
  /\ Expected <= r /\ r <= m /\ ReportEdge <= m /\ m <= h /\ Beyond <= h /\ h <= sentPdus
  /\ vrR' = Sn(r) /\ vrMs' = Sn(m) /\ vrH' = Sn(h)
  /\ Numbered(Buffer(pdu), Expected, h)
  /\ Sn(r) \notin DOMAIN Buffer(pdu) /\ Sn(m) \notin DOMAIN Buffer(pdu)
  /\ \A k \in Expected .. r - 1 : Sn(k) \in DOMAIN Buffer(pdu)
  /\ \A k \in ReportEdge .. m - 1 : Sn(k) \in DOMAIN Buffer(pdu)

LEMMA PlaceEdges ==
  ASSUME AmInvariant, NEW pdu \in BagToSet(channel), IsInsideReceivingWindow(pdu.sn, vrR),
         Place(pdu)
  PROVE  \E r, m, h \in Nat : PlacedEdges(pdu, r, m, h)
<1> DEFINE p == pdu.sdu
           h == IF p >= Beyond THEN p + 1 ELSE Beyond
<1>1. /\ sentPdus \in Nat /\ Lower \in Nat /\ sentPdus <= Lower + Window
      /\ Expected \in Nat /\ Lower <= Expected /\ Expected <= ReportEdge
      /\ ReportEdge \in Nat /\ ReportEdge <= Beyond
      /\ Beyond \in Nat /\ Beyond <= sentPdus
      /\ vrR = Sn(Expected) /\ vrMs = Sn(ReportEdge) /\ vrH = Sn(Beyond)
  BY AmCounts DEF AmInvariant, TxPart, RxPart
<1>2. /\ p \in Nat /\ pdu.sn = Sn(p) /\ Expected <= p /\ p < sentPdus
      /\ Distance(pdu.sn, vrR) = p - Expected
  BY InsideIsExpected
<1>3. Distance(vrH, vrR) = Beyond - Expected
  BY <1>1, DistanceOfCounts, SnConstants
<1>4. h \in Nat /\ Beyond <= h /\ p < h /\ h <= sentPdus
  BY <1>1, <1>2
<1>5. vrH' = Sn(h)
  <2>1. vrH' = IF p - Expected >= Beyond - Expected THEN (Sn(p) + 1) % SnSpace ELSE Sn(Beyond)
    BY <1>1, <1>2, <1>3 DEF Place
  <2>2. (Sn(p) + 1) % SnSpace = Sn(p + 1)
    <3> HIDE DEF p
    <3>1. p \in Int /\ 1 \in Int
      BY <1>2
    <3> QED BY ONLY <3>1, SnPlus
  <2>3. p - Expected >= Beyond - Expected <=> p >= Beyond
    BY <1>1, <1>2
  <2> QED BY <2>1, <2>2, <2>3
<1> HIDE DEF h
<1>6. /\ Numbered(Buffer(pdu), Expected, h)
      /\ DOMAIN Buffer(pdu) = DOMAIN rxonBuffer \union {pdu.sn}
      /\ Sn(Expected) \in DOMAIN Buffer(pdu) => p = Expected
  BY <1>2, <1>4, BufferNumbered
<1> HIDE DEF p
<1>7. Sn(h) \notin DOMAIN Buffer(pdu)
  <2> SUFFICES ASSUME Sn(h) \in DOMAIN Buffer(pdu)
               PROVE  FALSE
    OBVIOUS
  <2>1. h \in Int /\ Expected \in Int /\ h - h <= SnSpace /\ h - Expected < SnSpace
    BY <1>1, <1>4, SnConstants
  <2>2. Buffer(pdu)[Sn(h)] = h
    BY <1>6, <2>1, NumberedAt
  <2>3. Buffer(pdu)[Sn(h)] < h
    BY <1>6 DEF Numbered
  <2> QED BY <1>4, <2>2, <2>3
<1>8. PICK r \in Expected .. h : /\ vrR' = Sn(r)
                                 /\ Sn(r) \notin DOMAIN Buffer(pdu)
                                 /\ \A k \in Expected .. r - 1 : Sn(k) \in DOMAIN Buffer(pdu)
  <2>1. vrR' = IF pdu.sn = vrR THEN FirstMissing(DOMAIN Buffer(pdu), vrR) ELSE vrR
    BY DEF Place, Buffer
  <2>2. CASE pdu.sn = vrR
    <3>1. h \in Expected .. Expected + SnSpace - 1
      BY <1>1, <1>4, SnConstants
    <3> QED BY <1>1, <1>7, <2>1, <2>2, <3>1, FirstMissingFrom
  <2>3. CASE pdu.sn # vrR
    <3>1. p # Expected
      BY <1>1, <1>2, <2>3
    <3>2. Sn(Expected) \notin DOMAIN Buffer(pdu)
      BY <1>6, <3>1
    <3>3. Expected \in Expected .. h /\ Expected .. Expected - 1 = {}
      BY <1>1, <1>4
    <3> QED BY <1>1, <2>1, <2>3, <3>2, <3>3
  <2> QED BY <2>2, <2>3
<1>9. PICK m \in ReportEdge .. h : /\ vrMs' = Sn(m)
                                   /\ Sn(m) \notin DOMAIN Buffer(pdu)
                                   /\ \A k \in ReportEdge .. m - 1 : Sn(k) \in DOMAIN Buffer(pdu)
  <2>1. vrMs' = FirstMissing(DOMAIN Buffer(pdu), vrMs)
    BY DEF Place, Buffer
  <2>2. h \in ReportEdge .. ReportEdge + SnSpace - 1
    BY <1>1, <1>4, SnConstants
  <2> QED BY <1>1, <1>7, <2>1, <2>2, FirstMissingFrom
<1>10. r <= m
  <2> SUFFICES ASSUME m < r
               PROVE  FALSE
    BY <1>1, <1>4
  <2>1. m \in Expected .. r - 1
    BY <1>1, <1>4
  <2> QED BY <1>8, <1>9, <2>1
<1>11. r \in Nat /\ m \in Nat /\ Expected <= r /\ ReportEdge <= m /\ m <= h
  BY <1>1, <1>4
<1>12. PlacedEdges(pdu, r, m, h)
  BY <1>4, <1>5, <1>6, <1>8, <1>9, <1>10, <1>11 DEF PlacedEdges
<1> QED BY <1>4, <1>11, <1>12

\* The PDUs that go up are those from VR(R) on.
LEMMA PlaceHandsUp ==
  ASSUME AmInvariant, NEW pdu \in BagToSet(channel), IsInsideReceivingWindow(pdu.sn, vrR),
         Place(pdu), NEW r \in Nat, NEW m \in Nat, NEW h \in Nat, PlacedEdges(pdu, r, m, h)
  PROVE  /\ handedUp' \in Seq(Nat) /\ Expected' = r
         /\ NothingIsSkipped'
         /\ rxonBuffer' = Without(Buffer(pdu), {Sn(n) : n \in Expected .. r - 1})
<1> DEFINE e == Expected
           buffer == Buffer(pdu)
           up == [k \in 1 .. r - e |-> buffer[(vrR + k - 1) % SnSpace]]
<1>1. /\ sentPdus \in Nat /\ Lower \in Nat /\ sentPdus <= Lower + Window
      /\ e \in Nat /\ Lower <= e /\ vrR = Sn(e)
  BY AmCounts DEF AmInvariant, TxPart, RxPart
<1>2. /\ e <= r /\ r <= h /\ h <= sentPdus /\ vrR' = Sn(r)
      /\ Numbered(buffer, e, h)
      /\ \A k \in e .. r - 1 : Sn(k) \in DOMAIN buffer
  BY DEF PlacedEdges
<1>3. handedUp \in Seq(Nat) /\ Len(handedUp) = e /\ \A k \in 1 .. e : handedUp[k] = k - 1
  BY DEF AmInvariant, AmTypes, RxPart, NothingIsSkipped, Expected
<1>4. /\ handedUp' = handedUp \o
           [k \in 1 .. Cardinality(Interval(vrR, vrR')) |-> buffer[(vrR + k - 1) % SnSpace]]
      /\ rxonBuffer' = Without(buffer, Interval(vrR, vrR'))
  BY DEF Place, Buffer
<1> HIDE DEF e, buffer
<1>5. /\ Interval(vrR, vrR') = {Sn(n) : n \in e .. r - 1}
      /\ Cardinality(Interval(vrR, vrR')) = r - e
  BY <1>1, <1>2, IntervalOfCounts, SnConstants
<1>6. ASSUME NEW k \in 1 .. r - e
      PROVE  up[k] = e + k - 1
  <2> DEFINE n == e + (k - 1)
  <2>1. n \in e .. r - 1 /\ n \in Int /\ k - 1 \in Int /\ n = e + k - 1
    BY <1>1, <1>2
  <2>2. (vrR + k - 1) % SnSpace = (Sn(e) + (k - 1)) % SnSpace
    <3>1. Sn(e) \in Int
      BY <1>1, SnType, SnConstants
    <3>2. vrR + k - 1 = Sn(e) + (k - 1)
      BY <1>1, <3>1
    <3> QED BY <3>2
  <2>3. (Sn(e) + (k - 1)) % SnSpace = Sn(n)
    BY <1>1, <2>1, SnPlus
  <2> HIDE DEF n
  <2>4. h - n <= SnSpace /\ n - e < SnSpace
    BY <1>1, <1>2, <2>1, SnConstants
  <2>5. buffer[Sn(n)] = n
    BY <1>1, <1>2, <2>1, <2>4, NumberedAt
  <2> QED BY <2>1, <2>2, <2>3, <2>5
<1>7. handedUp' = handedUp \o up
  BY <1>4, <1>5
<1>8. up \in Seq(Nat) /\ Len(up) = r - e
  <2>1. r - e \in Nat
    BY <1>1, <1>2
  <2>2. \A k \in 1 .. r - e : up[k] \in Nat
    BY <1>1, <1>6
  <2> QED BY <2>1, <2>2
<1> HIDE DEF up
<1>9. handedUp' \in Seq(Nat) /\ Len(handedUp') = r
  <2>1. handedUp \o up \in Seq(Nat) /\ Len(handedUp \o up) = Len(handedUp) + Len(up)
    BY <1>3, <1>8, ConcatenationOf
  <2>2. Len(handedUp) + Len(up) = r
    BY <1>1, <1>3, <1>8
  <2> QED BY <1>7, <2>1, <2>2
<1>10. ASSUME NEW k \in 1 .. r
       PROVE  handedUp'[k] = k - 1
  <2>1. CASE k <= e
    BY <1>1, <1>3, <1>7, <1>8, <2>1
  <2>2. CASE k > e
    <3>1. k - e \in 1 .. r - e /\ e + (k - e) - 1 = k - 1
      BY <1>1, <2>2
    <3>2. handedUp'[k] = up[k - e]
      <4>1. k \in 1 .. Len(handedUp) + Len(up) /\ ~ (k <= Len(handedUp)) /\ Len(handedUp) = e
        BY <1>1, <1>2, <1>3, <1>8, <2>2
      <4>2. (handedUp \o up)[k] = IF k <= Len(handedUp) THEN handedUp[k] ELSE up[k - Len(handedUp)]
        BY ONLY <1>3, <1>8, <4>1, ConcatenationOf
      <4> QED BY <1>7, <4>1, <4>2
    <3> QED BY <1>6, <3>1, <3>2
  <2> QED BY <1>1, <2>1, <2>2
<1>11. NothingIsSkipped'
  BY <1>9, <1>10 DEF NothingIsSkipped
<1>12. Expected' = r
  BY <1>9 DEF Expected
<1> QED BY <1>4, <1>5, <1>9, <1>11, <1>12 DEF e, buffer

\* What stays in the reception buffer is above VR(R).
LEMMA PlaceBuffer ==
  ASSUME AmInvariant, NEW pdu \in BagToSet(channel), IsInsideReceivingWindow(pdu.sn, vrR),
         Place(pdu), NEW r \in Nat, NEW m \in Nat, NEW h \in Nat, PlacedEdges(pdu, r, m, h)
  PROVE  /\ Numbered(rxonBuffer', r + 1, h)
         /\ DOMAIN rxonBuffer' \subseteq DOMAIN Buffer(pdu)
         /\ \A k \in r .. h : Sn(k) \in DOMAIN Buffer(pdu) => Sn(k) \in DOMAIN rxonBuffer'
         /\ \A n \in Nat : Received(n) => Received(n)'
<1> DEFINE e == Expected
           buffer == Buffer(pdu)
           run == {Sn(n) : n \in e .. r - 1}
<1>1. /\ sentPdus \in Nat /\ Lower \in Nat /\ sentPdus <= Lower + Window
      /\ e \in Nat /\ Lower <= e /\ Beyond \in Nat /\ Beyond <= sentPdus
  BY AmCounts DEF AmInvariant, TxPart, RxPart
<1>2. /\ e <= r /\ r <= h /\ h <= sentPdus /\ Beyond <= h
      /\ Numbered(buffer, e, h) /\ Sn(r) \notin DOMAIN buffer
  BY DEF PlacedEdges
<1>3. /\ Expected' = r
      /\ rxonBuffer' = Without(buffer, run)
  BY PlaceHandsUp
<1>4. \A sn \in DOMAIN rxonBuffer : sn \in DOMAIN buffer /\ buffer[sn] = rxonBuffer[sn]
  <2>1. /\ pdu.sdu \in Nat /\ pdu.sn = Sn(pdu.sdu)
        /\ Expected <= pdu.sdu /\ pdu.sdu < sentPdus
    BY InsideIsExpected
  <2>2. sentPdus \in Nat /\ Beyond <= sentPdus
    BY <1>1
  <2> QED BY <2>1, <2>2, BufferNumbered
<1> HIDE DEF e, buffer
<1>5. /\ Numbered(rxonBuffer', e, h)
      /\ DOMAIN rxonBuffer' = DOMAIN buffer \ run
      /\ \A sn \in DOMAIN buffer \ run : rxonBuffer'[sn] = buffer[sn]
  BY <1>2, <1>3, WithoutNumbered
<1>6. ASSUME NEW sn \in DOMAIN rxonBuffer'
      PROVE  /\ rxonBuffer'[sn] \in Nat /\ r + 1 <= rxonBuffer'[sn]
             /\ rxonBuffer'[sn] < h /\ sn = Sn(rxonBuffer'[sn])
  <2> DEFINE n == rxonBuffer'[sn]
  <2>1. n \in Nat /\ e <= n /\ n < h /\ sn = Sn(n)
    BY <1>5 DEF Numbered
  <2>2. sn \in DOMAIN buffer /\ sn \notin run
    BY <1>5
  <2> HIDE DEF n
  <2>3. n # r
    BY <1>2, <2>1, <2>2
  <2>4. n \notin e .. r - 1
    BY <2>1, <2>2
  <2>5. r + 1 <= n
    BY <1>1, <1>2, <2>1, <2>3, <2>4
  <2> QED BY <2>1, <2>5 DEF n
<1>7. ASSUME NEW k \in r .. h, Sn(k) \in DOMAIN buffer
      PROVE  Sn(k) \in DOMAIN rxonBuffer'
  <2> SUFFICES ASSUME NEW n \in e .. r - 1, Sn(k) = Sn(n)
               PROVE  FALSE
    BY <1>5, <1>7
  <2>1. k = n
    BY <1>1, <1>2, SnIsInjective, SnConstants
  <2> QED BY <2>1
<1>8. ASSUME NEW n \in Nat, Received(n)
      PROVE  Received(n)'
  <2>1. CASE n < e
    <3>1. n < Expected'
      BY <1>1, <1>2, <1>3, <2>1
    <3> QED BY <3>1 DEF Received
  <2>2. CASE \E sn \in DOMAIN rxonBuffer : rxonBuffer[sn] = n
    <3>1. PICK sn \in DOMAIN rxonBuffer : rxonBuffer[sn] = n
      BY <2>2
    <3>2. sn \in DOMAIN buffer /\ buffer[sn] = n
      BY <1>4, <3>1
    <3>3. CASE sn \in run
      <4>1. PICK k \in e .. r - 1 : sn = Sn(k)
        BY <3>3
      <4>2. e <= n /\ n < h /\ sn = Sn(n)
        BY <1>2, <3>2 DEF Numbered
      <4>3. n = k
        <5>1. n \in Int /\ k \in Int /\ n - k < SnSpace /\ k - n < SnSpace
          BY <1>1, <1>2, <4>2, SnConstants
        <5>2. Sn(n) = Sn(k)
          BY <4>1, <4>2
        <5> QED BY <5>1, <5>2, SnIsInjective
      <4>4. n < Expected'
        BY <1>3, <4>3
      <4> QED BY <4>4 DEF Received
    <3>4. CASE sn \notin run
      <4>1. sn \in DOMAIN rxonBuffer' /\ rxonBuffer'[sn] = n
        BY <1>5, <3>2, <3>4
      <4> QED BY <4>1 DEF Received
    <3> QED BY <3>3, <3>4
  <2> QED BY <1>8, <2>1, <2>2 DEF Received, e
<1>9. DOMAIN rxonBuffer' \subseteq DOMAIN buffer
  BY <1>5
<1> QED BY <1>6, <1>7, <1>8, <1>9 DEF Numbered, e, buffer

\* t-Reordering keeps running only for a PDU above the new VR(R).
LEMMA PlaceReordering ==
  ASSUME AmInvariant, NEW pdu \in BagToSet(channel), IsInsideReceivingWindow(pdu.sn, vrR),
         Place(pdu), NEW r \in Nat, NEW m \in Nat, NEW h \in Nat, PlacedEdges(pdu, r, m, h),
         reorderingTimer'
  PROVE  \E x \in r + 1 .. h :
           /\ vrX' = Sn(x)
           /\ \A k \in x .. m - 1 : Sn(k) \in DOMAIN rxonBuffer'
<1> DEFINE e == Expected
           stopped == \/ vrX = vrR'
                      \/ /\ ~IsInsideReceivingWindow(vrX, vrR')
                         /\ vrX # (vrR' + Window) % SnSpace
           goesOn == reorderingTimer /\ ~stopped
<1>1. /\ sentPdus \in Nat /\ Lower \in Nat /\ sentPdus <= Lower + Window
      /\ e \in Nat /\ Lower <= e /\ e <= Beyond /\ Beyond \in Nat /\ Beyond <= sentPdus
      /\ ReportEdge \in Nat
  BY AmCounts DEF AmInvariant, TxPart, RxPart
<1>2. /\ e <= r /\ r <= m /\ m <= h /\ h <= sentPdus /\ Beyond <= h /\ ReportEdge <= m
      /\ vrR' = Sn(r) /\ vrH' = Sn(h)
      /\ \A k \in ReportEdge .. m - 1 : Sn(k) \in DOMAIN Buffer(pdu)
  BY DEF PlacedEdges
<1>3. /\ reorderingTimer' = (goesOn \/ Distance(vrH', vrR') > 0)
      /\ vrX' = IF ~goesOn /\ reorderingTimer' THEN vrH' ELSE vrX
  BY Zenon DEF Place
<1>4. \A k \in r .. h : Sn(k) \in DOMAIN Buffer(pdu) => Sn(k) \in DOMAIN rxonBuffer'
  BY PlaceBuffer
<1>5. \A sn \in DOMAIN rxonBuffer : sn \in DOMAIN Buffer(pdu)
  <2>1. /\ pdu.sdu \in Nat /\ pdu.sn = Sn(pdu.sdu)
        /\ Expected <= pdu.sdu /\ pdu.sdu < sentPdus
    BY InsideIsExpected
  <2>2. sentPdus \in Nat /\ Beyond <= sentPdus
    BY <1>1
  <2> QED BY <2>1, <2>2, BufferNumbered
<1>6. CASE goesOn
  <2>1. PICK x \in e + 1 .. Beyond :
          /\ vrX = Sn(x)
          /\ \A k \in x .. ReportEdge - 1 : Sn(k) \in DOMAIN rxonBuffer
    BY <1>6 DEF AmInvariant, RxPart, Reordering
  <2>2. /\ Sn(x) # Sn(r)
        /\ \/ Distance(Sn(x), Sn(r)) < Window
           \/ Sn(x) = (Sn(r) + Window) % SnSpace
    BY <1>2, <1>6, <2>1 DEF IsInsideReceivingWindow
  <2>3. r < x
    <3> SUFFICES ASSUME x < r
                 PROVE  FALSE
      BY <1>1, <2>2
    <3>1. /\ r - x < Window /\ x \in Int /\ r \in Int
          /\ 0 <= (x + SnSpace) - r /\ (x + SnSpace) - r < SnSpace /\ x + SnSpace \in Int
          /\ (x + SnSpace) - r > Window
      BY <1>1, <1>2, SnConstants
    <3>2. Distance(Sn(x + SnSpace), Sn(r)) = (x + SnSpace) - r
      BY <3>1, DistanceOfCounts
    <3>3. Sn(x + SnSpace) = Sn(x)
      BY <3>1, SnIsPeriodic
    <3>4. ~ (Distance(Sn(x), Sn(r)) < Window)
      BY <3>1, <3>2, <3>3, SnConstants
    <3>5. Sn(x) = Sn(r + Window)
      <4>1. (Sn(r) + Window) % SnSpace = Sn(r + Window)
        BY <3>1, SnPlus, SnConstants
      <4> QED BY <2>2, <3>4, <4>1
    <3>6. x = r + Window
      <4>1. r + Window \in Int /\ x - (r + Window) < SnSpace /\ (r + Window) - x < SnSpace
        BY <3>1, SnConstants
      <4> QED BY <3>1, <3>5, <4>1, SnIsInjective
    <3> QED BY <3>1, <3>6, SnConstants
  <2>4. x \in r + 1 .. h
    BY <1>1, <1>2, <2>3
  <2>5. vrX' = Sn(x)
    BY <1>3, <1>6, <2>1
  <2>6. ASSUME NEW k \in x .. m - 1
        PROVE  Sn(k) \in DOMAIN rxonBuffer'
    <3>1. Sn(k) \in DOMAIN Buffer(pdu)
      <4>1. CASE k < ReportEdge
        <5>1. k \in x .. ReportEdge - 1
          BY <1>1, <4>1
        <5> QED BY <1>5, <2>1, <5>1
      <4>2. CASE ~ (k < ReportEdge)
        <5>1. k \in ReportEdge .. m - 1
          BY <1>1, <4>2
        <5> QED BY <1>2, <5>1
      <4> QED BY <4>1, <4>2
    <3>2. k \in r .. h
      BY <1>1, <1>2, <2>4
    <3> QED BY <1>4, <3>1, <3>2
  <2> QED BY <2>4, <2>5, <2>6
<1>7. CASE ~goesOn
  <2>1. Distance(Sn(h), Sn(r)) > 0 /\ vrX' = Sn(h)
    BY <1>2, <1>3, <1>7
  <2>2. Distance(Sn(h), Sn(r)) = h - r
    BY <1>1, <1>2, DistanceOfCounts, SnConstants
  <2>3. h \in r + 1 .. h
    BY <1>2, <2>1, <2>2
  <2>4. h .. m - 1 = {}
    BY <1>2
  <2> QED BY <2>1, <2>3, <2>4
<1> QED BY <1>6, <1>7

LEMMA PlaceKeeps ==
  ASSUME AmInvariant, NEW pdu \in BagToSet(channel), IsInsideReceivingWindow(pdu.sn, vrR),
         Place(pdu), UNCHANGED <<amTxVars, statusChannel>>,
         BagToSet(channel') \subseteq BagToSet(channel)
  PROVE  AmInvariant'
<1>1. PICK r, m, h \in Nat : PlacedEdges(pdu, r, m, h)
  BY PlaceEdges
<1>2. /\ Expected <= r /\ r <= m /\ ReportEdge <= m /\ m <= h /\ h <= sentPdus
      /\ vrR' = Sn(r) /\ vrMs' = Sn(m) /\ vrH' = Sn(h)
      /\ Sn(m) \notin DOMAIN Buffer(pdu)
  BY <1>1 DEF PlacedEdges
<1>3. /\ sentPdus \in Nat /\ Lower \in Nat /\ sentPdus <= Lower + Window
      /\ Expected \in Nat /\ Lower <= Expected
  BY AmCounts DEF AmInvariant, TxPart, RxPart
<1>4. UNCHANGED <<sentPdus, vtA, vtS, txedBuffer, retxBuffer>> /\ statusChannel' = statusChannel
  BY DEF amTxVars
<1>5. Lower' = Lower
  BY <1>4 DEF Lower
<1>6. /\ handedUp' \in Seq(Nat) /\ Expected' = r /\ NothingIsSkipped'
  BY <1>1, PlaceHandsUp
<1>7. /\ Numbered(rxonBuffer', r + 1, h)
      /\ DOMAIN rxonBuffer' \subseteq DOMAIN Buffer(pdu)
      /\ \A n \in Nat : Received(n) => Received(n)'
  BY <1>1, PlaceBuffer
<1>8. ReportEdge' = m /\ Beyond' = h /\ ReceptionWindow'
  <2>1. h < r + SnSpace /\ Lower' <= r /\ h <= sentPdus'
    BY <1>2, <1>3, <1>4, <1>5, SnConstants
  <2> QED BY <1>2, <1>6, <2>1, ReceptionWindowIs
<1>9. ReceptionBuffer'
  BY <1>6, <1>7, <1>8 DEF ReceptionBuffer, Numbered
<1>10. Reordering'
  <2>1. Sn(m) \notin DOMAIN rxonBuffer'
    BY <1>2, <1>7
  <2>2. reorderingTimer' => \E x \in r + 1 .. h :
                              /\ vrX' = Sn(x)
                              /\ \A k \in x .. m - 1 : Sn(k) \in DOMAIN rxonBuffer'
    BY <1>1, PlaceReordering
  <2> QED BY <1>6, <1>8, <2>1, <2>2 DEF Reordering
<1>11. AmTypes'
  <2>1. vrX' \in 0 .. SnSpace - 1
    <3>1. vrX' = vrX \/ vrX' = Sn(h)
      BY <1>2 DEF Place
    <3>2. vrX \in 0 .. SnSpace - 1
      BY DEF AmInvariant, AmTypes
    <3>3. h \in Int
      OBVIOUS
    <3>4. Sn(h) \in 0 .. SnSpace - 1
      BY <3>3, SnType
    <3> QED BY <3>1, <3>2, <3>4
  <2> QED BY <1>4, <1>6, <2>1 DEF AmInvariant, AmTypes
<1>12. ReportEdge <= ReportEdge' /\ RxPart'
  BY <1>2, <1>6, <1>8, <1>9, <1>10 DEF RxPart
<1> QED BY <1>4, <1>7, <1>11, <1>12, TransmitterStays

\* Steps that take PDUs from the channel only.
LEMMA ChannelShrinks ==
  ASSUME AmInvariant,
         UNCHANGED <<sentPdus, vtA, vtS, txedBuffer, retxBuffer, windowVars, statusChannel>>,
         BagToSet(channel') \subseteq BagToSet(channel)
  PROVE  AmInvariant'
<1>1. Lower' = Lower
  BY DEF Lower
<1>2. TransmissionWindow'
  BY <1>1 DEF AmInvariant, TxPart, TransmissionWindow
<1>3. Lower \in Nat /\ Lower <= Expected /\ sentPdus \in Nat /\ ReportEdge \in Nat
  BY DEF AmInvariant, TxPart, TransmissionWindow, RxPart, ReceptionWindow
<1>4. /\ RxPart' /\ ReportEdge' = ReportEdge
      /\ \A n : Received(n)' <=> Received(n)
  <2>1. Lower' <= Expected /\ sentPdus <= sentPdus'
    BY <1>1, <1>3
  <2> QED BY <1>2, <2>1, ReceiverStays DEF AmInvariant, TxPart
<1>5. AmTypes'
  BY DEF AmInvariant, AmTypes, windowVars
<1>6. ReportEdge <= ReportEdge'
  BY <1>3, <1>4
<1> QED BY <1>4, <1>5, <1>6, TransmitterStays

LEMMA ReceiveDataKeeps ==
  ASSUME AmInvariant, NEW pdu \in BagToSet(channel), ReceiveData(pdu)
  PROVE  AmInvariant'
<1>1. /\ UNCHANGED <<amTxVars, statusChannel>>
      /\ BagToSet(channel') \subseteq BagToSet(channel)
  BY BagWith DEF ReceiveData
<1>2. CASE IsInsideReceivingWindow(pdu.sn, vrR)
  <2>1. Place(pdu)
    BY <1>2 DEF ReceiveData
  <2> QED BY <1>1, <1>2, <2>1, PlaceKeeps
<1>3. CASE ~IsInsideReceivingWindow(pdu.sn, vrR)
  <2>1. UNCHANGED windowVars
    BY <1>3 DEF ReceiveData
  <2> QED BY <1>1, <2>1, ChannelShrinks DEF amTxVars
<1> QED BY <1>2, <1>3

\* t-Reordering expires: VR(MS) moves up, as nothing is missing from the PDU
\* that the timer was started for up to VR(MS).
LEMMA ExpireReorderingKeeps ==
  ASSUME AmInvariant, ExpireReorderingTimer
  PROVE  AmInvariant'
<1>1. /\ sentPdus \in Nat /\ Lower \in Nat /\ sentPdus <= Lower + Window
      /\ Expected \in Nat /\ Lower <= Expected /\ Expected <= ReportEdge
      /\ ReportEdge \in Nat /\ ReportEdge <= Beyond
      /\ Beyond \in Nat /\ Beyond <= sentPdus
      /\ vrR = Sn(Expected) /\ vrH = Sn(Beyond)
  BY AmCounts DEF AmInvariant, TxPart, RxPart
<1>2. /\ UNCHANGED <<vrR, vrH, rxonBuffer, handedUp, amTxVars, channel, statusChannel>>
      /\ reorderingTimer
      /\ vrMs' = FirstMissing(DOMAIN rxonBuffer, vrX)
      /\ reorderingTimer' = (Distance(vrH, vrR) > Distance(vrMs', vrR))
      /\ vrX' = IF reorderingTimer' THEN vrH ELSE vrX
  BY DEF ExpireReorderingTimer
<1>3. UNCHANGED <<sentPdus, vtA, vtS, txedBuffer, retxBuffer>>
  BY <1>2 DEF amTxVars
<1>4. Lower' = Lower /\ Expected' = Expected
  BY <1>2, <1>3 DEF Lower, Expected
<1>5. PICK x \in Expected + 1 .. Beyond :
        /\ vrX = Sn(x)
        /\ \A k \in x .. ReportEdge - 1 : Sn(k) \in DOMAIN rxonBuffer
  BY <1>2 DEF AmInvariant, RxPart, Reordering
<1>6. Sn(Beyond) \notin DOMAIN rxonBuffer
  <2> SUFFICES ASSUME Sn(Beyond) \in DOMAIN rxonBuffer
               PROVE  FALSE
    OBVIOUS
  <2>1. Numbered(rxonBuffer, Expected + 1, Beyond)
    BY DEF AmInvariant, RxPart, ReceptionBuffer
  <2>2. /\ Expected + 1 \in Int /\ Beyond \in Int
        /\ Beyond - Beyond <= SnSpace /\ Beyond - (Expected + 1) < SnSpace
    BY <1>1, SnConstants
  <2>3. rxonBuffer[Sn(Beyond)] = Beyond
    BY <2>1, <2>2, NumberedAt
  <2>4. rxonBuffer[Sn(Beyond)] < Beyond
    BY <2>1 DEF Numbered
  <2> QED BY <1>1, <2>3, <2>4
<1>7. PICK m \in x .. Beyond : /\ vrMs' = Sn(m)
                               /\ Sn(m) \notin DOMAIN rxonBuffer
                               /\ \A k \in x .. m - 1 : Sn(k) \in DOMAIN rxonBuffer
  <2>1. Beyond \in x .. x + SnSpace - 1 /\ x \in Int
    BY <1>1, SnConstants
  <2> QED BY <1>2, <1>5, <1>6, <2>1, FirstMissingFrom
<1>8. ReportEdge <= m
  <2> SUFFICES ASSUME m < ReportEdge
               PROVE  FALSE
    BY <1>1
  <2>1. m \in x .. ReportEdge - 1
    BY <1>1
  <2> QED BY <1>5, <1>7, <2>1
<1>9. m \in Nat /\ Expected <= m /\ m <= Beyond
  BY <1>1, <1>8
<1>10. ReportEdge' = m /\ Beyond' = Beyond /\ ReceptionWindow'
  <2>1. Beyond < Expected + SnSpace /\ Lower' <= Expected /\ Beyond <= sentPdus'
    BY <1>1, <1>3, <1>4, SnConstants
  <2>2. vrR' = Sn(Expected) /\ vrH' = Sn(Beyond)
    BY <1>1, <1>2
  <2> QED BY <1>1, <1>4, <1>7, <1>9, <2>1, <2>2, ReceptionWindowIs
<1>11. ReceptionBuffer' /\ NothingIsSkipped'
  BY <1>2, <1>4, <1>10 DEF AmInvariant, RxPart, ReceptionBuffer, Numbered, NothingIsSkipped
<1>12. Reordering'
  <2>1. ASSUME reorderingTimer'
        PROVE  \E y \in Expected + 1 .. Beyond :
                 /\ vrX' = Sn(y)
                 /\ \A k \in y .. m - 1 : Sn(k) \in DOMAIN rxonBuffer
    <3>1. vrX' = Sn(Beyond)
      BY <1>1, <1>2, <2>1
    <3>2. Beyond \in Expected + 1 .. Beyond /\ Beyond .. m - 1 = {}
      BY <1>1, <1>9
    <3> QED BY <3>1, <3>2
  <2> QED BY <1>2, <1>4, <1>7, <1>10, <2>1 DEF Reordering
<1>13. AmTypes'
  <2>1. vrX' \in 0 .. SnSpace - 1
    <3>1. Sn(Beyond) \in 0 .. SnSpace - 1 /\ vrX \in 0 .. SnSpace - 1
      BY <1>1, SnType DEF AmInvariant, AmTypes
    <3>2. vrX' = vrX \/ vrX' = Sn(Beyond)
      BY <1>1, <1>2
    <3> QED BY <3>1, <3>2
  <2> QED BY <1>2, <1>3, <2>1 DEF AmInvariant, AmTypes
<1>14. \A n : Received(n) => Received(n)'
  BY <1>2, <1>4 DEF Received
<1>15. ReportEdge <= ReportEdge' /\ RxPart'
  BY <1>8, <1>10, <1>11, <1>12 DEF RxPart
<1>16. BagToSet(channel') \subseteq BagToSet(channel) /\ statusChannel' = statusChannel
  BY <1>2
<1> QED BY <1>3, <1>13, <1>14, <1>15, <1>16, TransmitterStays

\* The numbers of a STATUS PDU: what it says is missing has not been received,
\* and below ACK_SN all else has.
LEMMA StatusSays ==
  ASSUME AmInvariant, NEW room
  PROVE  /\ Status(room) \in StatusPdus
         /\ AckEdge(Status(room)) <= ReportEdge
         /\ \A n \in Acks(Status(room)) : Received(n)
         /\ \A n \in Lower .. sentPdus : Received(n) => Sn(n) \notin Missing(Status(room))
<1> DEFINE e == Expected
           ms == ReportEdge
           status == Status(room)
           missing == Interval(vrR, vrMs) \ DOMAIN rxonBuffer
           above == (missing \ status.nacks) \union {vrMs}
<1>1. /\ sentPdus \in Nat /\ Lower \in Nat /\ sentPdus <= Lower + Window
      /\ e \in Nat /\ Lower <= e /\ e <= ms
      /\ ms \in Nat /\ ms <= sentPdus /\ ms <= Beyond /\ Beyond \in Nat /\ Beyond <= sentPdus
      /\ vrR = Sn(e) /\ vrMs = Sn(ms) /\ vtA = Sn(Lower)
  BY AmCounts DEF AmInvariant, TxPart, RxPart
<1>2. /\ status.nacks \subseteq missing
      /\ status.ack = FirstFrom(above, vrR)
      /\ status = [nacks |-> status.nacks, ack |-> status.ack]
  BY DEF Status, ReportUpTo
<1>3. Numbered(rxonBuffer, e + 1, Beyond) /\ Sn(ms) \notin DOMAIN rxonBuffer
  BY DEF AmInvariant, RxPart, ReceptionBuffer, Reordering
<1>4. \A s : AckEdge(s) = Lower + Distance(s.ack, vtA)
  BY DEF AckEdge
<1>5. \A n : Received(n) <=> (n < e \/ \E sn \in DOMAIN rxonBuffer : rxonBuffer[sn] = n)
  BY DEF Received
<1> HIDE DEF status, e, ms
<1>6. missing = {Sn(n) : n \in e .. ms - 1} \ DOMAIN rxonBuffer
  <2>1. Interval(vrR, vrMs) = {Sn(n) : n \in e .. ms - 1}
    BY <1>1, IntervalOfCounts, SnConstants
  <2> QED BY <2>1
<1> HIDE DEF missing
<1>7. missing \in SUBSET (0 .. SnSpace - 1) /\ above \in SUBSET (0 .. SnSpace - 1)
  <2>1. \A n \in e .. ms - 1 : Sn(n) \in 0 .. SnSpace - 1
    BY SnType
  <2>2. Sn(ms) \in 0 .. SnSpace - 1
    BY <1>1, SnType
  <2> QED BY <1>1, <1>6, <2>1, <2>2
<1>8. PICK a \in e .. e + SnSpace - 1 : /\ status.ack = Sn(a)
                                        /\ Sn(a) \in above
                                        /\ \A k \in e .. a - 1 : Sn(k) \notin above
  <2>1. above # {}
    OBVIOUS
  <2> HIDE DEF above
  <2> QED BY <1>1, <1>2, <1>7, <2>1, FirstFromBase
<1>9. a \in Nat /\ e <= a /\ a <= ms
  <2>1. CASE Sn(a) = vrMs
    <3>1. a - ms < SnSpace /\ ms - a < SnSpace /\ a \in Int /\ ms \in Int
      BY <1>1, SnConstants
    <3>2. a = ms
      BY <1>1, <2>1, <3>1, SnIsInjective
    <3> QED BY <1>1, <3>2
  <2>2. CASE Sn(a) \in missing
    <3>1. PICK n \in e .. ms - 1 : Sn(a) = Sn(n)
      BY <1>6, <2>2
    <3>2. a = n
      BY <1>1, <3>1, SnIsInjective, SnConstants
    <3> QED BY <1>1, <3>2
  <2> QED BY <1>8, <2>1, <2>2
<1>10. Sn(a) \notin DOMAIN rxonBuffer
  BY <1>1, <1>3, <1>6, <1>8
<1>11. status \in StatusPdus
  BY <1>2, <1>7, <1>8 DEF StatusPdus
<1>12. AckEdge(status) = a
  <2>1. Distance(Sn(a), Sn(Lower)) = a - Lower
    BY <1>1, <1>9, DistanceOfCounts, SnConstants
  <2> QED BY <1>1, <1>4, <1>8, <1>9, <2>1
<1>13. ASSUME NEW n \in Acks(status)
       PROVE  Received(n)
  <2>1. n \in Lower .. a - 1 /\ Sn(n) \notin status.nacks
    BY <1>12 DEF Acks
  <2>2. CASE n < e
    BY <1>5, <2>2
  <2>3. CASE ~ (n < e)
    <3>1. n \in e .. a - 1 /\ n \in e .. ms - 1
      BY <1>1, <1>9, <2>1, <2>3
    <3>2. Sn(n) \notin missing
      BY <1>8, <2>1, <3>1
    <3>3. Sn(n) \in DOMAIN rxonBuffer
      BY <1>6, <3>1, <3>2
    <3>4. /\ e + 1 \in Int /\ Beyond \in Int /\ n \in Int
          /\ Beyond - n <= SnSpace /\ n - (e + 1) < SnSpace
      BY <1>1, <3>1, SnConstants
    <3>5. rxonBuffer[Sn(n)] = n
      BY <1>3, <3>3, <3>4, NumberedAt
    <3> QED BY <1>5, <3>3, <3>5
  <2> QED BY <2>2, <2>3
<1>14. ASSUME NEW n \in Lower .. sentPdus, Received(n), Sn(n) \in Missing(status)
       PROVE  FALSE
  <2>1. PICK k \in e .. ms : Sn(n) = Sn(k) /\ Sn(k) \notin DOMAIN rxonBuffer
    <3>1. CASE Sn(n) \in status.nacks
      <4>1. Sn(n) \in missing
        BY <1>2, <3>1 DEF missing
      <4>2. PICK k \in e .. ms - 1 : Sn(n) = Sn(k)
        BY <1>6, <4>1
      <4>3. k \in e .. ms /\ Sn(n) \notin DOMAIN rxonBuffer
        BY <1>1, <1>6, <4>1
      <4> QED BY <4>2, <4>3
    <3>2. CASE Sn(n) = status.ack
      <4>1. a \in e .. ms
        BY <1>1, <1>9
      <4> QED BY <1>8, <1>10, <3>2, <4>1
    <3> QED BY <1>14, <3>1, <3>2 DEF Missing
  <2>2. n = k
    <3>1. n \in Int /\ k \in Int /\ n - k < SnSpace /\ k - n < SnSpace
      BY <1>1, SnConstants
    <3> QED BY <2>1, <3>1, SnIsInjective
  <2>3. ~ (n < e)
    BY <1>1, <2>2
  <2>4. PICK sn \in DOMAIN rxonBuffer : rxonBuffer[sn] = n
    BY <1>5, <1>14, <2>3
  <2>5. sn = Sn(n)
    BY <1>3, <2>4 DEF Numbered
  <2> QED BY <2>1, <2>4, <2>5
<1>15. AckEdge(status) <= ms
  BY <1>9, <1>12
<1> QED BY <1>11, <1>13, <1>14, <1>15 DEF status, ms

LEMMA SendStatusKeeps ==
  ASSUME AmInvariant, SendStatus
  PROVE  AmInvariant'
<1>1. PICK room \in 1 .. MaxNacks : statusChannel' = Append(statusChannel, Status(room))
  BY DEF SendStatus
<1> DEFINE new == Status(room)
           n == Len(statusChannel) + 1
<1>2. UNCHANGED <<sentPdus, vtA, vtS, txedBuffer, retxBuffer, windowVars, channel>>
  BY DEF SendStatus, amTxVars
<1>3. /\ Lower \in Nat /\ sentPdus \in Nat /\ Expected \in Nat /\ Lower <= Expected
      /\ ReportEdge \in Nat /\ ReportEdge <= sentPdus
  BY AmCounts DEF AmInvariant, TxPart, RxPart
<1>4. /\ new \in StatusPdus
      /\ AckEdge(new) <= ReportEdge
      /\ \A k \in Acks(new) : Received(k)
      /\ \A k \in Lower .. sentPdus : Received(k) => Sn(k) \notin Missing(new)
  BY StatusSays
<1> HIDE DEF new
<1>5. /\ statusChannel' \in Seq(StatusPdus)
      /\ DOMAIN statusChannel' = DOMAIN statusChannel \union {n}
      /\ statusChannel'[n] = new
      /\ \A i \in DOMAIN statusChannel : /\ statusChannel'[i] = statusChannel[i]
                                         /\ i \in Nat /\ i < n
      /\ n \in Nat
  <2>1. statusChannel \in Seq(StatusPdus) /\ statusChannel' = Append(statusChannel, new)
    BY <1>1 DEF AmInvariant, AmTypes, new
  <2> HIDE DEF StatusPdus
  <2> QED BY <1>4, <2>1
<1> HIDE DEF n
<1>6. Lower' = Lower
  BY <1>2 DEF Lower
<1>7. TxPart' /\ DataUnderWay'
  BY <1>2, <1>6 DEF AmInvariant, TxPart, TransmissionWindow, TransmitterBuffers, Numbered,
     DataUnderWay
<1>8. /\ RxPart' /\ ReportEdge' = ReportEdge
      /\ \A k : Received(k)' <=> Received(k)
  <2>1. Lower' <= Expected /\ sentPdus <= sentPdus'
    BY <1>2, <1>3, <1>6
  <2> QED BY <1>2, <1>7, <2>1, ReceiverStays DEF AmInvariant, TxPart
<1>9. AmTypes'
  BY <1>2, <1>5 DEF AmInvariant, AmTypes, windowVars
<1>10. Reports'
  <2> SUFFICES ASSUME NEW i \in DOMAIN statusChannel'
               PROVE  /\ AckEdge(statusChannel'[i]) <= ReportEdge
                      /\ \A k \in Acks(statusChannel'[i]) :
                           /\ Received(k)
                           /\ \A j \in DOMAIN statusChannel' :
                                i < j => Sn(k) \notin Missing(statusChannel'[j])
    BY <1>2, <1>6, <1>8 DEF Reports, Missing, AckEdge, Acks
  <2>1. CASE i = n
    <3>1. \A j \in DOMAIN statusChannel' : ~ (i < j)
      BY <1>5, <2>1
    <3> QED BY <1>4, <1>5, <2>1, <3>1
  <2>2. CASE i \in DOMAIN statusChannel
    <3> DEFINE old == statusChannel[i]
    <3>1. /\ AckEdge(old) <= ReportEdge
          /\ \A k \in Acks(old) :
               /\ Received(k)
               /\ \A j \in DOMAIN statusChannel :
                    i < j => Sn(k) \notin Missing(statusChannel[j])
      BY <2>2 DEF AmInvariant, AckPart, Reports
    <3>2. old \in StatusPdus
      BY <2>2 DEF AmInvariant, AmTypes
    <3>3. AckEdge(old) \in Nat
      BY <3>2, AckEdgeCounts DEF AmInvariant, TxPart
    <3> HIDE DEF old
    <3>4. \A k \in Acks(old) : k \in Lower .. sentPdus
      BY <1>3, <3>1, <3>3 DEF Acks
    <3>5. statusChannel'[i] = old
      BY <1>5, <2>2 DEF old
    <3>6. ASSUME NEW k \in Acks(old), NEW j \in DOMAIN statusChannel', i < j
          PROVE  Sn(k) \notin Missing(statusChannel'[j])
      <4>1. CASE j = n
        BY <1>4, <1>5, <3>1, <3>4, <4>1
      <4>2. CASE j \in DOMAIN statusChannel
        BY <1>5, <3>1, <3>6, <4>2
      <4> QED BY <1>5, <4>1, <4>2
    <3> QED BY <3>1, <3>5, <3>6
  <2> QED BY <1>5, <2>1, <2>2
<1>11. Forgotten'
  <2> SUFFICES ASSUME NEW k \in Lower .. sentPdus - 1,
                      Sn(k) \notin DOMAIN txedBuffer \union DOMAIN retxBuffer
               PROVE  /\ Received(k)
                      /\ \A j \in DOMAIN statusChannel' : Sn(k) \notin Missing(statusChannel'[j])
    BY <1>2, <1>6, <1>8 DEF Forgotten, Missing
  <2>1. /\ Received(k)
        /\ \A j \in DOMAIN statusChannel : Sn(k) \notin Missing(statusChannel[j])
    BY DEF AmInvariant, AckPart, Forgotten
  <2>2. k \in Lower .. sentPdus
    BY <1>3
  <2> QED BY <1>4, <1>5, <2>1, <2>2
<1> QED BY <1>7, <1>8, <1>9, <1>10, <1>11 DEF AmInvariant, AckPart

-----------------------------------------------------------------------------
(* The theorems.                                                           *)

\* What the proofs need of the channel: the MAC delivers the STATUS PDUs in
\* the order in which they were sent, or loses them.
InOrderStatus == ~StatusOvertakes

LEMMA AmStep ==
  ASSUME InOrderStatus, AmInvariant, [AmNext]_amVars
  PROVE  AmInvariant'
<1>1. CASE TransmitPdcpPdu
  BY <1>1, OthersKeep DEF TransmitPdcpPdu, amRxVars
<1>2. CASE NotifyTxOpportunity
  <2>1. UNCHANGED <<windowVars, statusChannel>>
    BY <1>2 DEF NotifyTxOpportunity, amRxVars
  <2>2. CASE Retransmit
    BY <2>1, <2>2, RetransmitKeeps
  <2>3. CASE MayTransmitNew /\ TransmitNew
    BY <2>1, <2>3, TransmitNewKeeps
  <2> QED BY <1>2, <2>2, <2>3 DEF NotifyTxOpportunity
<1>3. CASE WastedOpportunity
  BY <1>3, OthersKeep DEF WastedOpportunity, amRxVars
<1>4. CASE ReceiveStatus
  <2>1. PICK i \in Arriving : /\ statusChannel' = Removed(i)
                              /\ HandleStatus(statusChannel[i])
                              /\ UNCHANGED <<amRxVars, channel>>
    BY <1>4 DEF ReceiveStatus
  <2>2. i = 1 /\ 1 \in DOMAIN statusChannel
    BY DEF Arriving, InOrderStatus
  <2> QED BY <2>1, <2>2, ReceiveStatusKeeps DEF amRxVars
<1>5. CASE ExpirePollRetransmitTimer
  BY <1>5, ExpirePollKeeps
<1>6. CASE ExpireRbsTimer
  BY <1>6, OthersKeep DEF ExpireRbsTimer, amRxVars
<1>7. CASE ReceivePdu
  BY <1>7, ReceiveDataKeeps DEF ReceivePdu
<1>8. CASE ExpireReorderingTimer
  BY <1>8, ExpireReorderingKeeps
<1>9. CASE SendStatus
  BY <1>9, SendStatusKeeps
<1>10. CASE ExpireStatusProhibitTimer
  BY <1>10, OthersKeep DEF ExpireStatusProhibitTimer, amTxVars
<1>11. CASE LosePdu
  <2>1. /\ UNCHANGED <<amTxVars, amRxVars, statusChannel>>
        /\ BagToSet(channel') \subseteq BagToSet(channel)
    BY <1>11, BagWith DEF LosePdu
  <2> QED BY <2>1, ChannelShrinks DEF amTxVars, amRxVars
<1>12. CASE LoseStatus
  BY <1>12, LoseStatusKeeps DEF LoseStatus
<1>13. CASE UNCHANGED amVars
  BY <1>13, OthersKeep DEF amVars, amTxVars, amRxVars
<1> QED BY <1>1, <1>2, <1>3, <1>4, <1>5, <1>6, <1>7, <1>8, <1>9, <1>10, <1>11, <1>12,
     <1>13 DEF AmNext

\* The invariant holds in every behaviour: both windows stay within Window of
\* one another, every number in a buffer or under way stands for the PDU that
\* it was given to, and what is acknowledged or forgotten has been received.
THEOREM AmInvariantHolds == ASSUME InOrderStatus PROVE AmSpec => []AmInvariant
<1>1. AmInvariant /\ [AmNext]_amVars => AmInvariant'
  BY AmStep
<1> QED BY <1>1, InitSatisfies, PTL DEF AmSpec

\* The receiver of LteRlcAm hands up every SDU once, in order and without a
\* gap, for any window, any number of PDUs and any losses and overtaking of
\* data PDUs.
THEOREM AmNothingIsSkipped == ASSUME InOrderStatus PROVE AmSpec => []NothingIsSkipped
<1>1. AmInvariant => NothingIsSkipped
  BY DEF AmInvariant, RxPart
<1> QED BY <1>1, AmInvariantHolds, PTL

\* DoReceivePdu drops a PDU from the buffers of the transmitter only when the
\* receiver has it.
THEOREM AmForgottenIsReceived == ASSUME InOrderStatus PROVE AmSpec => []ForgottenIsReceived
<1>1. ASSUME AmInvariant
      PROVE  ForgottenIsReceived
  <2>1. /\ sentPdus \in Nat /\ Lower \in Nat /\ Lower <= sentPdus
        /\ sentPdus <= Lower + Window /\ Expected \in Nat /\ Lower <= Expected
    BY <1>1, AmCounts DEF AmInvariant, TxPart, RxPart
  <2>2. /\ DOMAIN handedUp = 1 .. Expected
        /\ \A k \in DOMAIN handedUp : handedUp[k] = k - 1
    BY <1>1 DEF AmInvariant, AmTypes, RxPart, NothingIsSkipped, Expected
  <2>3. Numbered(txedBuffer, Lower, sentPdus) /\ Numbered(retxBuffer, Lower, sentPdus)
    BY <1>1 DEF AmInvariant, TxPart, TransmitterBuffers
  <2>4. ASSUME NEW i \in 0 .. sentPdus - 1
        PROVE  \/ \E sn \in DOMAIN txedBuffer : txedBuffer[sn] = i
               \/ \E sn \in DOMAIN retxBuffer : retxBuffer[sn] = i
               \/ \E sn \in DOMAIN rxonBuffer : rxonBuffer[sn] = i
               \/ \E k \in DOMAIN handedUp : handedUp[k] = i
    <3>1. CASE i < Expected
      <4>1. i + 1 \in DOMAIN handedUp /\ (i + 1) - 1 = i
        BY <2>1, <2>2, <3>1
      <4>2. handedUp[i + 1] = i
        BY <2>2, <4>1
      <4> QED BY <4>1, <4>2
    <3>2. CASE Expected <= i
      <4>1. i \in Lower .. sentPdus - 1
        BY <2>1, <3>2
      <4>2. /\ i \in Int /\ sentPdus \in Int /\ Lower \in Int
            /\ sentPdus - i <= SnSpace /\ i - Lower < SnSpace
        BY <2>1, <4>1, SnConstants
      <4>3. CASE Sn(i) \in DOMAIN txedBuffer
        BY <2>3, <4>2, <4>3, NumberedAt
      <4>4. CASE Sn(i) \in DOMAIN retxBuffer
        BY <2>3, <4>2, <4>4, NumberedAt
      <4>5. CASE Sn(i) \notin DOMAIN txedBuffer \union DOMAIN retxBuffer
        <5>1. Received(i)
          BY <1>1, <4>1, <4>5 DEF AmInvariant, AckPart, Forgotten
        <5>2. ~ (i < Expected)
          BY <2>1, <3>2
        <5> QED BY <5>1, <5>2 DEF Received
      <4> QED BY <4>3, <4>4, <4>5
    <3> QED BY <2>1, <3>1, <3>2
  <2> QED BY <2>4 DEF ForgottenIsReceived
<1> QED BY <1>1, AmInvariantHolds, PTL

=============================================================================
