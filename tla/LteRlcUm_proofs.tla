--------------------------- MODULE LteRlcUm_proofs ---------------------------
(***************************************************************************)
(* The window of LteRlcUm, for every size of the sequence number space:    *)
(* the numbers VR(UR), VR(UX), VR(UH) and those in the reception buffer    *)
(* stand for PDUs counted from the first (WindowInStep), as long as the    *)
(* PDUs under way and the gaps in them are bounded (GapFits).  Then the    *)
(* stored PDUs are inside the window and t-Reordering runs for them.       *)
(***************************************************************************)
EXTENDS LteRlcUm, ArithmeticLemmas, FiniteSetTheorems

-----------------------------------------------------------------------------
(* Sequence numbers and the numbers of the PDUs they stand for.            *)

\* The sequence number of the PDU number n.
Sn(n) == n % SnSpace

LEMMA SnConstants ==
  /\ Window \in Nat /\ SnSpace \in Nat \ {0} /\ SnSpace = 2 * Window
  /\ 1 < Window /\ Window < SnSpace
BY UmSnAssumption

LEMMA SnType ==
  ASSUME NEW a \in Int
  PROVE  Sn(a) \in 0 .. SnSpace - 1
BY Division, SnConstants DEF Sn

\* The distance of two numbers is the difference of the PDUs.
LEMMA DistanceOfPdus ==
  ASSUME NEW a \in Int, NEW b \in Int, 0 <= a - b, a - b < SnSpace
  PROVE  Distance(Sn(a), Sn(b)) = a - b
BY RemainderOfDifference, SnConstants DEF Distance, Sn

LEMMA SnIsInjective ==
  ASSUME NEW a \in Int, NEW b \in Int, a - b < SnSpace, b - a < SnSpace, Sn(a) = Sn(b)
  PROVE  a = b
<1>1. Distance(Sn(a), Sn(a)) = 0
  BY DistanceOfPdus, SnConstants
<1>2. CASE a >= b
  BY <1>1, <1>2, DistanceOfPdus, SnConstants
<1>3. CASE b >= a
  BY <1>1, <1>3, DistanceOfPdus, SnConstants
<1> QED BY <1>2, <1>3

LEMMA SnPlus ==
  ASSUME NEW a \in Int, NEW k \in Int
  PROVE  (Sn(a) + k) % SnSpace = Sn(a + k)
BY RemainderOfSum, SnConstants DEF Sn

LEMMA SnItself ==
  ASSUME NEW x \in 0 .. SnSpace - 1
  PROVE  Sn(x) = x
<1>1. ((SnSpace * 0) + x) % SnSpace = x
  BY RemainderOf, SnConstants
<1>2. (SnSpace * 0) + x = x
  BY SnConstants
<1> QED BY <1>1, <1>2 DEF Sn

\* Every number is that of one of the SnSpace PDUs from a base on.
LEMMA SnFromBase ==
  ASSUME NEW x \in 0 .. SnSpace - 1, NEW b \in Int
  PROVE  /\ Distance(x, Sn(b)) \in 0 .. SnSpace - 1
         /\ x = Sn(b + Distance(x, Sn(b)))
<1> DEFINE d == Distance(x, Sn(b))
<1>0. x \in Int /\ Sn(b) \in Int /\ x - Sn(b) \in Int
  BY SnType, SnConstants
<1>1. d = Sn(x - Sn(b))
  BY DEF Distance, Sn
<1>2. d \in 0 .. SnSpace - 1 /\ d \in Int
  BY <1>0, <1>1, SnType, SnConstants
<1> HIDE DEF d
<1>3. (Sn(b) + d) % SnSpace = Sn(b + d)
  BY <1>2, SnPlus
<1>4. (Sn(x - Sn(b)) + Sn(b)) % SnSpace = Sn((x - Sn(b)) + Sn(b))
  BY <1>0, SnPlus
<1>5. (x - Sn(b)) + Sn(b) = x /\ Sn(x - Sn(b)) + Sn(b) = Sn(b) + d
  BY <1>0, <1>1, <1>2
<1>6. Sn(b + d) = Sn(x)
  BY <1>3, <1>4, <1>5
<1> QED BY <1>2, <1>6, SnItself DEF d

\* The window that ends below the PDU number u.
LEMMA LowerEdgeOf ==
  ASSUME NEW u \in Int
  PROVE  LowerEdge(Sn(u)) = Sn(u - Window)
<1>1. Sn(u) \in Int /\ Window \in Int /\ Sn(u) - Window = Sn(u) + (-Window)
      /\ u + (-Window) = u - Window
  BY SnType, SnConstants
<1>2. (Sn(u) + (-Window)) % SnSpace = Sn(u + (-Window))
  BY <1>1, SnPlus
<1> QED BY <1>1, <1>2 DEF LowerEdge

\* Where a PDU lies in the window, or after it.
LEMMA DistanceInWindow ==
  ASSUME NEW u \in Int, NEW n \in Int, u - Window <= n, n < u + Window
  PROVE  Distance(Sn(n), LowerEdge(Sn(u))) = (n - u) + Window
<1>1. u - Window \in Int /\ 0 <= n - (u - Window) /\ n - (u - Window) < SnSpace
      /\ n - (u - Window) = (n - u) + Window
  BY SnConstants
<1> QED BY <1>1, DistanceOfPdus, LowerEdgeOf

-----------------------------------------------------------------------------
(* The order in which stored PDUs are taken.                               *)

Ascending(order, base) ==
  \A i, j \in DOMAIN order : i < j => Distance(order[i], base) < Distance(order[j], base)

LEMMA AscendingExists ==
  ASSUME NEW b \in Int
  PROVE  \A sns \in SUBSET (0 .. SnSpace - 1) :
           \E order \in [1 .. Cardinality(sns) -> sns] : Ascending(order, Sn(b))
<1> DEFINE D(x) == Distance(x, Sn(b))
           Numbers == 0 .. SnSpace - 1
           S == {k \in Nat : \A sns \in SUBSET Numbers :
                   Cardinality(sns) = k =>
                     \E order \in [1 .. k -> sns] : Ascending(order, Sn(b))}
<1>1. \A sns \in SUBSET Numbers : IsFiniteSet(sns) /\ Cardinality(sns) \in Nat
  <2>1. IsFiniteSet(Numbers)
    BY FS_Interval, SnConstants
  <2> QED BY <2>1, FS_Subset, FS_CardinalityType
<1>2. \A x \in Numbers : D(x) \in Nat /\ D(x) < SnSpace /\ x = Sn(b + D(x))
  <2> SUFFICES ASSUME NEW x \in Numbers
               PROVE  D(x) \in Nat /\ D(x) < SnSpace /\ x = Sn(b + D(x))
    OBVIOUS
  <2>1. D(x) \in 0 .. SnSpace - 1 /\ x = Sn(b + D(x))
    BY SnFromBase
  <2> QED BY <2>1, SnConstants
<1>3. 0 \in S
  <2> SUFFICES ASSUME NEW sns \in SUBSET Numbers, Cardinality(sns) = 0
               PROVE  \E order \in [1 .. 0 -> sns] : Ascending(order, Sn(b))
    OBVIOUS
  <2> DEFINE none == [i \in 1 .. 0 |-> 0]
  <2>1. none \in [1 .. 0 -> sns] /\ Ascending(none, Sn(b))
    BY DEF Ascending
  <2> QED BY <2>1
<1>4. ASSUME NEW k \in Nat, k \in S
      PROVE  k + 1 \in S
  <2> SUFFICES ASSUME NEW sns \in SUBSET Numbers, Cardinality(sns) = k + 1
               PROVE  \E order \in [1 .. k + 1 -> sns] : Ascending(order, Sn(b))
    OBVIOUS
  <2> DEFINE T == {SnSpace - D(x) : x \in sns}
  <2>1. sns # {} /\ IsFiniteSet(sns)
    BY <1>1, FS_EmptySet
  <2>2. T \in SUBSET Nat /\ T # {}
    <3>1. \A x \in sns : SnSpace - D(x) \in Nat
      BY <1>2, SnConstants
    <3> QED BY <2>1, <3>1
  <2>3. PICK t \in T : \A s \in T : t <= s
    BY <2>2, LeastOf
  <2>4. PICK last \in sns : t = SnSpace - D(last)
    BY <2>3
  <2>5. \A x \in sns : D(x) <= D(last)
    <3> SUFFICES ASSUME NEW x \in sns
                 PROVE  D(x) <= D(last)
      OBVIOUS
    <3>1. SnSpace - D(last) <= SnSpace - D(x)
      BY <2>3, <2>4
    <3>2. D(x) \in Int /\ D(last) \in Int
      BY <1>2
    <3> HIDE DEF D
    <3> QED BY <3>1, <3>2, SnConstants
  <2>6. \A x \in sns : x # last => D(x) < D(last)
    <3> SUFFICES ASSUME NEW x \in sns, x # last
                 PROVE  D(x) < D(last)
      OBVIOUS
    <3>1. D(x) \in Int /\ D(last) \in Int /\ x = Sn(b + D(x)) /\ last = Sn(b + D(last))
      BY <1>2
    <3>2. D(x) # D(last) /\ D(x) <= D(last)
      BY <2>5, <3>1
    <3> HIDE DEF D
    <3> QED BY <3>1, <3>2
  <2> DEFINE rest == sns \ {last}
  <2>7. rest \in SUBSET Numbers /\ Cardinality(rest) = k
    BY <2>1, FS_RemoveElement
  <2>8. PICK order \in [1 .. k -> rest] : Ascending(order, Sn(b))
    BY <1>4, <2>7
  <2> DEFINE longer == [i \in 1 .. k + 1 |-> IF i = k + 1 THEN last ELSE order[i]]
  <2>9. \A i \in 1 .. k + 1 : i # k + 1 => i \in 1 .. k
    OBVIOUS
  <2>10. longer \in [1 .. k + 1 -> sns]
    BY <2>8, <2>9
  <2>11. ASSUME NEW i \in 1 .. k + 1, NEW j \in 1 .. k + 1, i < j
         PROVE  D(longer[i]) < D(longer[j])
    <3>1. i \in 1 .. k /\ longer[i] = order[i] /\ order[i] \in rest
      BY <2>8, <2>11
    <3>2. CASE j = k + 1
      BY <2>6, <3>1, <3>2
    <3>3. CASE j # k + 1
      <4>1. j \in 1 .. k /\ longer[j] = order[j]
        BY <2>9, <3>3
      <4> HIDE DEF longer, rest
      <4> QED BY <2>8, <2>11, <3>1, <4>1 DEF Ascending
    <3> QED BY <3>2, <3>3
  <2>12. Ascending(longer, Sn(b))
    <3>1. DOMAIN longer = 1 .. k + 1
      OBVIOUS
    <3> HIDE DEF longer
    <3> QED BY <2>11, <3>1 DEF Ascending
  <2> QED BY <2>10, <2>12
<1> HIDE DEF D
<1>5. Nat \subseteq S
  <2> HIDE DEF S
  <2> QED BY <1>3, <1>4, InductionOnSet
<1> QED BY <1>1, <1>5
LEMMA SortedIsAscending ==
  ASSUME NEW b \in Int, NEW sns \in SUBSET (0 .. SnSpace - 1)
  PROVE  /\ Cardinality(sns) \in Nat
         /\ Sorted(sns, Sn(b)) \in [1 .. Cardinality(sns) -> sns]
         /\ Ascending(Sorted(sns, Sn(b)), Sn(b))
         /\ \A sn \in sns : \E i \in 1 .. Cardinality(sns) : Sorted(sns, Sn(b))[i] = sn
<1> DEFINE c == Cardinality(sns)
           o == Sorted(sns, Sn(b))
<1>1. IsFiniteSet(sns) /\ c \in Nat
  <2>1. IsFiniteSet(0 .. SnSpace - 1)
    BY FS_Interval, SnConstants
  <2> QED BY <2>1, FS_Subset, FS_CardinalityType
<1>2. o \in [1 .. c -> sns] /\ Ascending(o, Sn(b))
  BY AscendingExists DEF Sorted, Ascending
<1> HIDE DEF o, c
<1>3. \A i, j \in 1 .. c : i < j => Distance(o[i], Sn(b)) < Distance(o[j], Sn(b))
  BY <1>2 DEF Ascending
<1>4. \A i \in 1 .. c : Distance(o[i], Sn(b)) \in Int
  <2> SUFFICES ASSUME NEW i \in 1 .. c
               PROVE  Distance(o[i], Sn(b)) \in Int
    OBVIOUS
  <2>1. o[i] \in 0 .. SnSpace - 1
    BY <1>2
  <2> QED BY <2>1, SnFromBase
<1>5. o \in Injection(1 .. c, sns)
  <2>1. ASSUME NEW i \in 1 .. c, NEW j \in 1 .. c, o[i] = o[j]
        PROVE  i = j
    <3>1. ~ (i < j) /\ ~ (j < i)
      BY <1>3, <1>4, <2>1
    <3>2. i \in Int /\ j \in Int
      BY <1>1
    <3> QED BY <3>1, <3>2
  <2> QED BY <1>2, <2>1 DEF Injection, IsInjective
<1>6. Cardinality(1 .. c) = c
  BY <1>1, FS_Interval
<1>7. o \in Surjection(1 .. c, sns)
  BY <1>1, <1>5, <1>6, FS_Injection DEF c
<1>8. \A sn \in sns : \E i \in 1 .. c : o[i] = sn
  BY <1>7 DEF Surjection
<1> QED BY <1>1, <1>2, <1>8 DEF o, c

LEMMA SortedNothing ==
  ASSUME NEW b \in Int
  PROVE  Sorted({}, Sn(b)) = << >>
<1>1. Cardinality({}) = 0
  BY FS_EmptySet
<1>2. Sorted({}, Sn(b)) \in [1 .. 0 -> {}]
  BY <1>1, SortedIsAscending
<1> QED BY <1>2

\* FoldLeft as a sequence of steps: the state before the first PDU, and the
\* state after every one.
Folded(buffer, r, order) ==
  FoldLeft(LAMBDA acc, sn : ReassembleAndDeliver(acc, buffer[sn]), r, order)

AreSteps(state, buffer, r, order, n) ==
  /\ state[0] = r
  /\ \A i \in 1 .. n :
       state[i] = ReassembleAndDeliver(state[i - 1], buffer[order[i]])
  /\ Folded(buffer, r, order) = state[n]

StepsOf(buffer, r, order, n) == CHOOSE state : AreSteps(state, buffer, r, order, n)

LEMMA StepsOfFold ==
  ASSUME NEW r, NEW buffer, NEW n \in Nat, NEW order, DOMAIN order = 1 .. n
  PROVE  AreSteps(StepsOf(buffer, r, order, n), buffer, r, order, n)
<1> DEFINE Step(x, k) == ReassembleAndDeliver(x, buffer[order[k]])
           S == {k \in Nat : \E g : \A s \in SUBSET (1 .. k) :
                   g[s] = IF s = {} THEN r ELSE Step(g[s \ {Max(s)}], Max(s))}
<1>1. \A k \in Nat : \A s \in SUBSET (1 .. k) : s # {} => Max(s) \in s /\ \A i \in s : i <= Max(s)
  <2> SUFFICES ASSUME NEW k \in Nat, NEW s \in SUBSET (1 .. k), s # {}
               PROVE  Max(s) \in s /\ \A i \in s : i <= Max(s)
    OBVIOUS
  <2> DEFINE T == {k - i : i \in s}
  <2>1. T \in SUBSET Nat /\ T # {}
    <3>1. \A i \in s : k - i \in Nat
      OBVIOUS
    <3> QED BY <3>1
  <2>2. PICK t \in T : \A u \in T : t <= u
    BY <2>1, LeastOf
  <2>3. PICK m \in s : t = k - m
    BY <2>2
  <2>4. ASSUME NEW i \in s
        PROVE  m >= i
    <3>1. k - m <= k - i
      BY <2>2, <2>3
    <3> QED BY <3>1
  <2>5. Max(s) \in s /\ \A i \in s : Max(s) >= i
    BY <2>4 DEF Max
  <2>6. \A i \in s : i \in Int
    OBVIOUS
  <2> QED BY <2>5, <2>6
<1>2. 0 \in S
  <2> DEFINE g == [s \in {{}} |-> r]
  <2>1. \A s \in SUBSET (1 .. 0) : s = {} /\ g[s] = r
    OBVIOUS
  <2> HIDE DEF g
  <2>2. \A s \in SUBSET (1 .. 0) :
          g[s] = IF s = {} THEN r ELSE Step(g[s \ {Max(s)}], Max(s))
    BY <2>1
  <2> QED BY <2>2
<1>3. ASSUME NEW k \in Nat, k \in S
      PROVE  k + 1 \in S
  <2>1. PICK g : \A s \in SUBSET (1 .. k) :
                   g[s] = IF s = {} THEN r ELSE Step(g[s \ {Max(s)}], Max(s))
    BY <1>3
  <2> DEFINE h == [s \in SUBSET (1 .. k + 1) |->
                     IF k + 1 \in s THEN Step(g[s \ {k + 1}], k + 1) ELSE g[s]]
  <2>2. ASSUME NEW s \in SUBSET (1 .. k + 1)
        PROVE  h[s] = IF s = {} THEN r ELSE Step(h[s \ {Max(s)}], Max(s))
    <3>1. CASE k + 1 \in s
      <4>1. Max(s) = k + 1
        <5>1. k + 1 \in Nat /\ s # {}
          BY <3>1
        <5>2. Max(s) \in s /\ k + 1 <= Max(s)
          BY <1>1, <3>1, <5>1
        <5>3. Max(s) \in 1 .. k + 1
          BY <5>2
        <5> HIDE DEF h, Step
        <5> QED BY <5>2, <5>3
      <4>2. s \ {k + 1} \in SUBSET (1 .. k + 1) /\ k + 1 \notin s \ {k + 1}
        OBVIOUS
      <4>3. h[s \ {k + 1}] = g[s \ {k + 1}]
        BY <4>2
      <4>4. h[s] = Step(g[s \ {k + 1}], k + 1)
        BY <3>1
      <4> HIDE DEF h, Step
      <4> QED BY <3>1, <4>1, <4>3, <4>4
    <3>2. CASE k + 1 \notin s
      <4>1. s \in SUBSET (1 .. k)
        BY <3>2
      <4>2. s \ {Max(s)} \in SUBSET (1 .. k + 1) /\ k + 1 \notin s \ {Max(s)}
        BY <3>2
      <4>3. h[s] = g[s] /\ h[s \ {Max(s)}] = g[s \ {Max(s)}]
        BY <3>2, <4>2
      <4> HIDE DEF h, Step
      <4> QED BY <2>1, <4>1, <4>3
    <3> QED BY <3>1, <3>2
  <2> HIDE DEF h, Step
  <2>3. k + 1 \in Nat
    OBVIOUS
  <2> QED BY <2>2, <2>3
<1>4. n \in S
  <2>1. Nat \subseteq S
    <3> HIDE DEF S
    <3> QED BY <1>2, <1>3, InductionOnSet
  <2> QED BY <2>1
<1>5. PICK g : \A s \in SUBSET (1 .. n) :
                 g[s] = IF s = {} THEN r ELSE Step(g[s \ {Max(s)}], Max(s))
  BY <1>4
<1> DEFINE Iter(f) == f = [s \in SUBSET DOMAIN order |->
                            IF s = {} THEN r
                            ELSE ReassembleAndDeliver(f[s \ {Max(s)}], buffer[order[Max(s)]])]
           iter == CHOOSE f : Iter(f)
           whole == [s \in SUBSET (1 .. n) |-> g[s]]
<1>6. Iter(whole)
  <2>1. ASSUME NEW s \in SUBSET (1 .. n)
        PROVE  whole[s] = IF s = {} THEN r ELSE Step(whole[s \ {Max(s)}], Max(s))
    <3>1. s \ {Max(s)} \in SUBSET (1 .. n)
      OBVIOUS
    <3>2. whole[s] = g[s] /\ whole[s \ {Max(s)}] = g[s \ {Max(s)}]
      BY <3>1
    <3> HIDE DEF whole, Step
    <3> QED BY <1>5, <3>2
  <2>2. whole = [s \in SUBSET (1 .. n) |-> whole[s]]
    OBVIOUS
  <2> HIDE DEF whole
  <2> QED BY <2>1, <2>2
<1>7. Iter(iter)
  <2> HIDE DEF Iter
  <2> QED BY <1>6
<1>8. Folded(buffer, r, order) = iter[DOMAIN order]
  BY DEF Folded, FoldLeft, MapThenFoldSet
<1> HIDE DEF iter
<1>9. \A s \in SUBSET (1 .. n) :
        iter[s] = IF s = {} THEN r ELSE Step(iter[s \ {Max(s)}], Max(s))
  BY <1>7
<1> DEFINE st == [i \in 0 .. n |-> iter[1 .. i]]
<1>10. st[0] = r
  <2>1. 1 .. 0 \in SUBSET (1 .. n) /\ 1 .. 0 = {} /\ 0 \in 0 .. n
    OBVIOUS
  <2> QED BY <1>9, <2>1
<1>11. ASSUME NEW i \in 1 .. n
       PROVE  st[i] = Step(st[i - 1], i)
  <2>1. i \in 0 .. n /\ i - 1 \in 0 .. n /\ i \in Nat /\ i \in 1 .. i
    OBVIOUS
  <2>0. 1 .. i \in SUBSET (1 .. n) /\ 1 .. i # {}
    <3>1. \A j \in 1 .. i : j \in 1 .. n
      OBVIOUS
    <3>2. 1 .. i # {}
      BY <2>1
    <3> QED BY <3>1, <3>2
  <2>2. Max(1 .. i) = i
    <3>1. Max(1 .. i) \in 1 .. i /\ i <= Max(1 .. i)
      BY <1>1, <2>0, <2>1
    <3> QED BY <3>1
  <2>3. (1 .. i) \ {i} = 1 .. i - 1
    OBVIOUS
  <2>4. iter[1 .. i] = Step(iter[1 .. i - 1], i)
    <3> HIDE DEF Step
    <3> QED BY <1>9, <2>0, <2>2, <2>3
  <2> HIDE DEF Step
  <2> QED BY <2>1, <2>4
<1>12. st[n] = iter[DOMAIN order]
  OBVIOUS
<1> HIDE DEF st
<1>13. AreSteps(st, buffer, r, order, n)
  BY <1>8, <1>10, <1>11, <1>12 DEF AreSteps
<1> QED BY <1>13 DEF StepsOf

-----------------------------------------------------------------------------
(* Reassembly of several PDUs, one after the other.                        *)

\* What ReassembleAll does is a sequence of steps of ReassembleAndDeliver.
Steps(state, buffer, order, n) ==
  /\ state[0] = Reassembly
  /\ \A i \in 1 .. n :
       state[i] = ReassembleAndDeliver(state[i - 1], buffer[order[i]])

ReassembledTo(r) ==
  /\ expectedSn' = r.expected
  /\ keepS0' = r.keep
  /\ sdusBuffer' = r.sdus
  /\ reassembled' = r.upTo
  /\ handedUp' = r.up

LEMMA ReassembleAllSteps ==
  ASSUME NEW buffer, NEW n \in Nat, NEW order, DOMAIN order = 1 .. n, NEW stored,
         ReassembleAll(buffer, order, stored)
  PROVE  /\ rxBuffer' = [sn \in stored |-> buffer[sn]]
         /\ \E state : Steps(state, buffer, order, n) /\ ReassembledTo(state[n])
<1> DEFINE r == Folded(buffer, Reassembly, order)
<1>1. ReassembledTo(r) /\ rxBuffer' = [sn \in stored |-> buffer[sn]]
  BY DEF ReassembleAll, ReassembledTo, Folded
<1>2. \E state : Steps(state, buffer, order, n) /\ r = state[n]
  <2> DEFINE state == StepsOf(buffer, Reassembly, order, n)
  <2>1. AreSteps(state, buffer, Reassembly, order, n)
    BY StepsOfFold
  <2> HIDE DEF state
  <2> QED BY <2>1 DEF AreSteps, Steps
<1> HIDE DEF r
<1> QED BY <1>1, <1>2

\* The names of what ReassembleAndDeliver works on.
Parts == {"expected", "keep", "sdus", "upTo", "up"}

LEMMA ReassembleOne ==
  ASSUME NEW r, DOMAIN r = Parts, NEW pdu
  PROVE  /\ DOMAIN ReassembleAndDeliver(r, pdu) = Parts
         /\ ReassembleAndDeliver(r, pdu).expected = (pdu.sn + 1) % SnSpace
         /\ ReassembleAndDeliver(r, pdu).upTo = pdu.nr + 1
BY DEF ReassembleAndDeliver, DeliverAndKeep, Parts

LEMMA StepsHaveParts ==
  ASSUME NEW state, NEW buffer, NEW order, NEW n \in Nat, Steps(state, buffer, order, n)
  PROVE  \A i \in 0 .. n : DOMAIN state[i] = Parts
<1> DEFINE S == {i \in Nat : i <= n => DOMAIN state[i] = Parts}
<1>1. 0 \in S
  BY DEF Steps, Reassembly, Parts
<1>2. ASSUME NEW i \in Nat, i \in S
      PROVE  i + 1 \in S
  <2> SUFFICES ASSUME i + 1 <= n
               PROVE  DOMAIN state[i + 1] = Parts
    OBVIOUS
  <2>1. i + 1 \in 1 .. n /\ (i + 1) - 1 = i /\ DOMAIN state[i] = Parts
    BY <1>2
  <2>2. state[i + 1] = ReassembleAndDeliver(state[i], buffer[order[i + 1]])
    BY <2>1 DEF Steps
  <2> QED BY <2>1, <2>2, ReassembleOne
<1>3. Nat \subseteq S
  <2> HIDE DEF S
  <2> QED BY <1>1, <1>2, InductionOnSet
<1> QED BY <1>3

\* The numbers that a run from lo up to hi takes, and where it leaves the
\* reassembly when the PDU before hi is one of them.
TakenFrom(buffer, lo, hi) == {sn \in DOMAIN buffer : lo <= buffer[sn].nr /\ buffer[sn].nr < hi}

LEMMA IntervalOfPdus ==
  ASSUME NEW buffer, NEW u \in Int, NEW lo \in Int, NEW hi \in Int,
         u - Window <= lo, lo <= hi, hi < u + Window,
         \A sn \in DOMAIN buffer : /\ buffer[sn].nr \in Int
                                   /\ sn = Sn(buffer[sn].nr)
                                   /\ u - Window <= buffer[sn].nr
                                   /\ buffer[sn].nr < u + Window
  PROVE  SnInterval(DOMAIN buffer, Sn(lo), Sn(hi), LowerEdge(Sn(u)))
           = TakenFrom(buffer, lo, hi)
<1> DEFINE D(sn) == Distance(sn, LowerEdge(Sn(u)))
<1>1. lo < u + Window /\ u - Window <= hi
  BY SnConstants
<1>2. D(Sn(lo)) = (lo - u) + Window /\ D(Sn(hi)) = (hi - u) + Window
  BY <1>1, DistanceInWindow
<1>3. ASSUME NEW sn \in DOMAIN buffer
      PROVE  /\ D(Sn(lo)) <= D(sn) <=> lo <= buffer[sn].nr
             /\ D(sn) < D(Sn(hi)) <=> buffer[sn].nr < hi
  <2> DEFINE k == buffer[sn].nr
  <2>1. k \in Int /\ D(sn) = (k - u) + Window
    BY DistanceInWindow
  <2> HIDE DEF k, D
  <2>2. /\ D(Sn(lo)) <= D(sn) <=> lo <= k
        /\ D(sn) < D(Sn(hi)) <=> k < hi
    BY <1>2, <2>1, SnConstants
  <2> QED BY <2>2 DEF k
<1> QED BY <1>3 DEF SnInterval, TakenFrom

LEMMA RunIsReassembled ==
  ASSUME NEW buffer, NEW stored, NEW u \in Int, NEW lo \in Int, NEW hi \in Int,
         u - Window <= lo, lo <= hi, hi < u + Window,
         \A sn \in DOMAIN buffer : /\ buffer[sn].nr \in Int
                                   /\ sn = Sn(buffer[sn].nr)
                                   /\ buffer[sn].sn = sn
                                   /\ u - Window <= buffer[sn].nr
                                   /\ buffer[sn].nr < u + Window,
         lo < hi => Sn(hi - 1) \in DOMAIN buffer,
         reassembled = lo, expectedSn = Sn(lo),
         ReassembleAll(buffer, Sorted(TakenFrom(buffer, lo, hi), LowerEdge(Sn(u))), stored)
  PROVE  /\ reassembled' = hi
         /\ expectedSn' = Sn(hi)
         /\ rxBuffer' = [sn \in stored |-> buffer[sn]]
<1> DEFINE run == TakenFrom(buffer, lo, hi)
           base == LowerEdge(Sn(u))
           order == Sorted(run, base)
           n == Cardinality(run)
<1>1. u - Window \in Int /\ base = Sn(u - Window)
  BY LowerEdgeOf, SnConstants
<1>2. run \in SUBSET (0 .. SnSpace - 1)
  BY SnType DEF TakenFrom
<1> HIDE DEF run, base
<1>3. /\ n \in Nat
      /\ order \in [1 .. n -> run]
      /\ Ascending(order, base)
      /\ \A sn \in run : \E i \in 1 .. n : order[i] = sn
  BY <1>1, <1>2, SortedIsAscending
<1> HIDE DEF order, n
<1>4. rxBuffer' = [sn \in stored |-> buffer[sn]]
  BY <1>3, ReassembleAllSteps DEF order, run, base
<1>5. PICK state : Steps(state, buffer, order, n) /\ ReassembledTo(state[n])
  BY <1>3, ReassembleAllSteps DEF order, run, base
<1>6. CASE n = 0
  <2>1. lo = hi
    <3> SUFFICES ASSUME lo < hi
                 PROVE  FALSE
      OBVIOUS
    <3>1. Sn(hi - 1) \in DOMAIN buffer
      OBVIOUS
    <3>2. hi - 1 = buffer[Sn(hi - 1)].nr
      <4> DEFINE k == buffer[Sn(hi - 1)].nr
      <4>1. k \in Int /\ Sn(hi - 1) = Sn(k) /\ u - Window <= k /\ k < u + Window
        BY <3>1
      <4> HIDE DEF k
      <4>2. hi - 1 \in Int /\ (hi - 1) - k < SnSpace /\ k - (hi - 1) < SnSpace
        BY <4>1, SnConstants
      <4> QED BY <4>1, <4>2, SnIsInjective DEF k
    <3>3. Sn(hi - 1) \in run
      BY <3>1, <3>2 DEF run, TakenFrom
    <3> QED BY <1>3, <1>6, <3>3
  <2>2. state[0] = Reassembly
    BY <1>5 DEF Steps
  <2> QED BY <1>4, <1>5, <1>6, <2>1, <2>2 DEF ReassembledTo, Reassembly
<1>7. CASE n # 0
  <2>1. n \in 1 .. n /\ n - 1 \in 0 .. n
    BY <1>3, <1>7
  <2> DEFINE last == order[n]
             k == buffer[last].nr
  <2>2. last \in run /\ last \in DOMAIN buffer /\ lo <= k /\ k < hi
    BY <1>3, <2>1 DEF run, TakenFrom
  <2>3. k \in Int /\ last = Sn(k) /\ buffer[last].sn = last
    BY <2>2
  <2>4. k = hi - 1
    <3> SUFFICES ASSUME k < hi - 1
                 PROVE  FALSE
      <4> HIDE DEF k
      <4> QED BY <2>2, <2>3
    <3>1. lo < hi /\ hi - 1 \in Int /\ u - Window <= hi - 1 /\ hi - 1 < u + Window
      <4> HIDE DEF k
      <4> QED BY <2>2, <2>3, SnConstants
    <3>2. Sn(hi - 1) \in DOMAIN buffer
      BY <3>1
    <3>3. hi - 1 = buffer[Sn(hi - 1)].nr
      <4> DEFINE j == buffer[Sn(hi - 1)].nr
      <4>1. j \in Int /\ Sn(hi - 1) = Sn(j) /\ u - Window <= j /\ j < u + Window
        BY <3>2
      <4> HIDE DEF j
      <4>2. (hi - 1) - j < SnSpace /\ j - (hi - 1) < SnSpace
        BY <3>1, <4>1, SnConstants
      <4> QED BY <3>1, <4>1, <4>2, SnIsInjective DEF j
    <3>4. Sn(hi - 1) \in run
      BY <3>1, <3>2, <3>3 DEF run, TakenFrom
    <3>5. PICK i \in 1 .. n : order[i] = Sn(hi - 1)
      BY <1>3, <3>4
    <3>6. Distance(Sn(hi - 1), base) = ((hi - 1) - u) + Window
      BY <3>1, DistanceInWindow DEF base
    <3>7. Distance(last, base) = (k - u) + Window
      <4>1. u - Window <= k /\ k < u + Window
        BY <2>2
      <4> HIDE DEF k
      <4> QED BY <2>3, <4>1, DistanceInWindow DEF base
    <3>8. Distance(last, base) < Distance(order[i], base)
      <4> HIDE DEF k, last
      <4> QED BY <2>3, <3>1, <3>5, <3>6, <3>7, SnConstants
    <3>9. i = n \/ i < n
      BY <1>3
    <3>10. i < n => Distance(order[i], base) < Distance(last, base)
      BY <1>3, <2>1 DEF Ascending
    <3>11. Distance(last, base) \in Int /\ Distance(order[i], base) \in Int
      <4> HIDE DEF k, last
      <4> QED BY <2>3, <3>1, <3>5, <3>6, <3>7, SnConstants
    <3> HIDE DEF k
    <3> QED BY <3>8, <3>9, <3>10, <3>11
  <2>5. state[n] = ReassembleAndDeliver(state[n - 1], buffer[last])
    BY <1>5, <2>1 DEF Steps
  <2>6. DOMAIN state[n - 1] = Parts
    BY <1>3, <1>5, <2>1, StepsHaveParts
  <2>7. state[n].expected = (last + 1) % SnSpace /\ state[n].upTo = k + 1
    <3>1. /\ state[n].expected = (buffer[last].sn + 1) % SnSpace
          /\ state[n].upTo = buffer[last].nr + 1
      <4> DEFINE x == state[n - 1]
                 pdu == buffer[last]
      <4>1. DOMAIN x = Parts /\ state[n] = ReassembleAndDeliver(x, pdu)
        BY <2>5, <2>6
      <4> HIDE DEF x, pdu
      <4>2. /\ ReassembleAndDeliver(x, pdu).expected = (pdu.sn + 1) % SnSpace
            /\ ReassembleAndDeliver(x, pdu).upTo = pdu.nr + 1
        BY <4>1, ReassembleOne
      <4> QED BY <4>1, <4>2 DEF pdu
    <3> QED BY <2>3, <3>1
  <2>8. state[n].expected = Sn(hi) /\ state[n].upTo = hi
    <3>1. (Sn(hi - 1) + 1) % SnSpace = Sn((hi - 1) + 1)
      BY SnPlus
    <3>2. (hi - 1) + 1 = hi
      OBVIOUS
    <3> HIDE DEF k, last
    <3> QED BY <2>3, <2>4, <2>7, <3>1, <3>2
  <2> QED BY <1>4, <1>5, <2>8 DEF ReassembledTo
<1> QED BY <1>6, <1>7
-----------------------------------------------------------------------------
(* The first number that is not stored.                                    *)

\* VR(UR) moves over PDUs that are stored, by one at least.
LEMMA FirstMissingOf ==
  ASSUME NEW sns \in SUBSET (0 .. SnSpace - 1), NEW a \in Nat, Sn(a) \in sns
  PROVE  \E m \in Nat : /\ a < m
                        /\ FirstMissingFrom(sns, Sn(a)) = Sn(m)
                        /\ \A j \in a .. m - 1 : Sn(j) \in sns
<1> DEFINE ur == Sn(a)
           Ends(c) == c \notin sns /\ \A k \in ur .. c - 1 : k \in sns
           T == {c \in ur + 1 .. SnSpace : c \notin sns}
           n == CHOOSE c \in ur + 1 .. SnSpace : Ends(c)
<1>1. ur \in 0 .. SnSpace - 1 /\ ur \in Int /\ ur \in sns
  BY SnType, SnConstants
<1> HIDE DEF ur
<1>2. T \in SUBSET Nat /\ SnSpace \in T
  BY <1>1, SnConstants
<1>3. PICK c \in T : \A d \in T : c <= d
  BY <1>2, LeastOf
<1>4. Ends(c)
  <2> SUFFICES ASSUME NEW k \in ur .. c - 1, k \notin sns
               PROVE  FALSE
    BY <1>3
  <2>0. c \in ur + 1 .. SnSpace /\ k # ur
    BY <1>1, <1>3
  <2>1. k \in ur + 1 .. SnSpace
    BY <1>1, <2>0, SnConstants
  <2>2. k \in T /\ c \in Int /\ k < c
    BY <1>1, <2>1
  <2> QED BY <1>3, <2>2
<1>5. n \in ur + 1 .. SnSpace /\ Ends(n)
  <2>1. c \in ur + 1 .. SnSpace
    BY <1>3
  <2> HIDE DEF Ends
  <2> QED BY <1>4, <2>1
<1>6. FirstMissingFrom(sns, ur) = n % SnSpace
  BY DEF FirstMissingFrom
<1> HIDE DEF n, T
<1> DEFINE k == n - ur
           m == a + k
<1>7. n \in Int /\ k \in Nat /\ k >= 1 /\ ur + k = n
  BY <1>1, <1>5, SnConstants
<1>8. Sn(m) = n % SnSpace
  <2>1. (Sn(a) + k) % SnSpace = Sn(a + k)
    BY <1>7, SnPlus
  <2> HIDE DEF k
  <2> QED BY <1>7, <2>1 DEF ur
<1>9. ASSUME NEW j \in a .. m - 1
      PROVE  Sn(j) \in sns
  <2> DEFINE i == j - a
  <2>1. i \in Int /\ 0 <= i /\ i < k /\ a + i = j
    BY <1>7
  <2> HIDE DEF i
  <2>2. ur + i \in ur .. n - 1 /\ ur + i \in 0 .. SnSpace - 1
    BY <1>1, <1>5, <1>7, <2>1, SnConstants
  <2>3. (Sn(a) + i) % SnSpace = Sn(j)
    <3>1. (Sn(a) + i) % SnSpace = Sn(a + i)
      BY <2>1, SnPlus
    <3> QED BY <2>1, <3>1
  <2>4. Sn(ur + i) = ur + i
    BY <2>2, SnItself
  <2>5. Sn(j) = ur + i
    BY <2>3, <2>4 DEF ur, Sn
  <2> QED BY <1>5, <2>2, <2>5
<1>10. m \in Nat /\ a < m
  BY <1>7
<1> HIDE DEF m
<1> QED BY <1>6, <1>8, <1>9, <1>10 DEF ur

\* The same where t-Reordering expires: the PDUs from VR(UX) on that are stored,
\* up to one that is not.
StoredSteps(sns, ux) ==
  CHOOSE n \in 0 .. SnSpace :
    /\ (ux + n) % SnSpace \notin sns
    /\ \A k \in 0 .. n - 1 : (ux + k) % SnSpace \in sns

LEMMA StoredStepsOf ==
  ASSUME NEW sns, NEW a \in Nat, NEW b \in Nat, a <= b, b - a <= Window, Sn(b) \notin sns
  PROVE  \E m \in a .. b : /\ (Sn(a) + StoredSteps(sns, Sn(a))) % SnSpace = Sn(m)
                           /\ \A j \in a .. m - 1 : Sn(j) \in sns
<1> DEFINE Ends(n) == /\ (Sn(a) + n) % SnSpace \notin sns
                      /\ \A k \in 0 .. n - 1 : (Sn(a) + k) % SnSpace \in sns
           T == {n \in 0 .. SnSpace : (Sn(a) + n) % SnSpace \notin sns}
           n == StoredSteps(sns, Sn(a))
           d == b - a
<1>0. \A k \in Int : (Sn(a) + k) % SnSpace = Sn(a + k)
  BY SnPlus
<1>1. d \in 0 .. SnSpace /\ a + d = b
  BY SnConstants
<1> HIDE DEF d
<1>2. T \in SUBSET Nat /\ d \in T
  <2>1. (Sn(a) + d) % SnSpace = Sn(b)
    BY <1>0, <1>1
  <2> QED BY <1>1, <2>1, SnConstants
<1>3. PICK c \in T : \A e \in T : c <= e
  BY <1>2, LeastOf
<1>4. Ends(c)
  <2> SUFFICES ASSUME NEW k \in 0 .. c - 1, (Sn(a) + k) % SnSpace \notin sns
               PROVE  FALSE
    BY <1>3
  <2>1. c \in 0 .. SnSpace /\ k \in 0 .. SnSpace
    BY <1>3, SnConstants
  <2>2. k \in T /\ c \in Int /\ k < c
    BY <2>1
  <2> QED BY <1>3, <2>2
<1>5. n \in 0 .. SnSpace /\ Ends(n)
  <2>1. c \in 0 .. SnSpace
    BY <1>3
  <2>2. n = CHOOSE e \in 0 .. SnSpace : Ends(e)
    BY DEF StoredSteps
  <2> HIDE DEF Ends, n
  <2> QED BY <1>4, <2>1, <2>2
<1> HIDE DEF n
<1>6. n <= d
  <2> SUFFICES ASSUME d < n
               PROVE  FALSE
    BY <1>1, <1>5, SnConstants
  <2>1. d \in 0 .. n - 1
    BY <1>1, <1>5, SnConstants
  <2>2. (Sn(a) + d) % SnSpace \in sns
    BY <1>5, <2>1
  <2> QED BY <1>2, <2>2
<1> DEFINE m == a + n
<1>7. m \in a .. b /\ n \in Int
  BY <1>1, <1>5, <1>6, SnConstants
<1>8. (Sn(a) + n) % SnSpace = Sn(m)
  BY <1>0, <1>7
<1>9. ASSUME NEW j \in a .. m - 1
      PROVE  Sn(j) \in sns
  <2>1. j - a \in 0 .. n - 1 /\ j - a \in Int /\ a + (j - a) = j
    BY <1>7
  <2>2. (Sn(a) + (j - a)) % SnSpace \in sns
    BY <1>5, <2>1
  <2>3. (Sn(a) + (j - a)) % SnSpace = Sn(j)
    BY <1>0, <2>1
  <2> QED BY <2>2, <2>3
<1> HIDE DEF m
<1> QED BY <1>7, <1>8, <1>9 DEF n
-----------------------------------------------------------------------------
(* The numbers of the PDUs: the window.                                    *)

\* The numbers of the PDUs that have gone through HARQ, or are in it, span at
\* most a window, and t-Reordering ends before a window of PDUs is sent.
GapFits == MaxAhead <= Window /\ MaxGap <= Window

\* What is under way.
ChannelInStep ==
  /\ txSn = Sn(sentPdus)
  /\ \A pdu \in channel : /\ pdu.nr \in Nat
                          /\ pdu.sn = Sn(pdu.nr)
                          /\ pdu.nr < sentPdus
                          /\ sentPdus <= pdu.nr + MaxAhead

\* The state variables of the receiver, as numbers of PDUs.
EdgesInStep ==
  /\ {sentPdus, received, reassembled} \subseteq Nat
  /\ vrUr = Sn(reassembled)
  /\ expectedSn = Sn(reassembled)
  /\ vrUh = Sn(received)
  /\ reassembled <= received
  /\ received <= sentPdus
  /\ sentPdus <= reassembled + MaxGap
  /\ sentPdus <= received + MaxAhead

\* What is stored lies between the edges, and the newest PDU is stored as
\* long as an older one is missing.
BufferInStep ==
  /\ \A sn \in DOMAIN rxBuffer : /\ rxBuffer[sn].nr \in Nat
                                 /\ rxBuffer[sn].sn = sn
                                 /\ sn = Sn(rxBuffer[sn].nr)
                                 /\ reassembled <= rxBuffer[sn].nr
                                 /\ rxBuffer[sn].nr < received
  /\ reassembled < received => Sn(received - 1) \in DOMAIN rxBuffer

\* t-Reordering runs as long as a PDU is missing, and waits for one below a
\* PDU that is stored.
TimerInStep ==
  /\ timerRunning \in BOOLEAN
  /\ reassembled < received => timerRunning
  /\ timerRunning =>
       \E ux \in reassembled + 1 .. received :
         vrUx = Sn(ux) /\ Sn(ux - 1) \in DOMAIN rxBuffer

WindowInStep == ChannelInStep /\ EdgesInStep /\ BufferInStep /\ TimerInStep

LEMMA WindowInitially == UmInit => WindowInStep
<1> SUFFICES ASSUME UmInit
             PROVE  WindowInStep
  OBVIOUS
<1>1. Sn(0) = 0
  BY SnItself, SnConstants
<1>2. MaxAhead \in Nat /\ MaxGap \in Nat
  BY UmBoundAssumption
<1>3. DOMAIN rxBuffer = {}
  BY DEF UmInit
<1>4. ChannelInStep
  BY <1>1 DEF UmInit, ChannelInStep
<1>5. EdgesInStep
  BY <1>1, <1>2 DEF UmInit, EdgesInStep
<1>6. BufferInStep
  BY <1>3 DEF UmInit, BufferInStep
<1>7. TimerInStep
  <2>1. timerRunning = FALSE
    BY DEF UmInit
  <2>2. ~ (reassembled < received)
    BY DEF UmInit
  <2> QED BY <2>1, <2>2 DEF TimerInStep
<1> QED BY <1>4, <1>5, <1>6, <1>7 DEF WindowInStep

\* What the window says of a PDU that is under way.
LEMMA ChannelNumbers ==
  ASSUME GapFits, WindowInStep
  PROVE  /\ sentPdus \in Nat /\ received \in Nat /\ reassembled \in Nat
         /\ reassembled <= received /\ received <= sentPdus
         /\ sentPdus <= reassembled + Window /\ sentPdus <= received + Window
         /\ \A pdu \in channel : /\ pdu.nr \in Nat
                                 /\ pdu.sn = Sn(pdu.nr)
                                 /\ received - Window <= pdu.nr
                                 /\ pdu.nr < received + Window
                                 /\ pdu.nr < reassembled + Window
                                 /\ pdu.nr < sentPdus
BY UmBoundAssumption, SnConstants DEF GapFits, WindowInStep, ChannelInStep, EdgesInStep

LEMMA MaxOfTwo ==
  ASSUME NEW m \in Int, NEW n \in Int
  PROVE  Max({m, n}) = IF m < n THEN n ELSE m
BY DEF Max

\* Which PDUs the receiver discards.
LEMMA DiscardedNumbers ==
  ASSUME GapFits, WindowInStep, NEW pdu \in channel
  PROVE  Discarded(pdu.sn) <=>
           \/ pdu.nr < reassembled
           \/ /\ reassembled < pdu.nr
              /\ pdu.nr < received
              /\ pdu.sn \in DOMAIN rxBuffer
<1> DEFINE D(sn) == Distance(sn, LowerEdge(vrUh))
           p == pdu.nr
<1>1. /\ received \in Nat /\ reassembled \in Nat /\ p \in Nat
      /\ received - Window <= reassembled /\ reassembled < received + Window
      /\ received - Window <= p /\ p < received + Window
      /\ pdu.sn = Sn(p)
  BY ChannelNumbers, SnConstants
<1>2. vrUr = Sn(reassembled) /\ vrUh = Sn(received)
  BY DEF WindowInStep, EdgesInStep
<1> HIDE DEF p
<1>3. D(pdu.sn) = (p - received) + Window
  BY <1>1, <1>2, DistanceInWindow
<1>4. D(vrUr) = (reassembled - received) + Window
  BY <1>1, <1>2, DistanceInWindow
<1>5. D(vrUh) = (received - received) + Window
  BY <1>1, <1>2, DistanceInWindow, SnConstants
<1>6. Discarded(pdu.sn) <=> \/ /\ D(vrUr) < D(pdu.sn)
                               /\ D(pdu.sn) < D(vrUh)
                               /\ pdu.sn \in DOMAIN rxBuffer
                            \/ D(pdu.sn) < D(vrUr)
  BY DEF Discarded
<1> HIDE DEF D
<1>7. /\ D(vrUr) < D(pdu.sn) <=> reassembled < p
      /\ D(pdu.sn) < D(vrUh) <=> p < received
      /\ D(pdu.sn) < D(vrUr) <=> p < reassembled
  BY <1>1, <1>3, <1>4, <1>5, SnConstants
<1> QED BY <1>6, <1>7 DEF p
\* What there is to wait for, and when t-Reordering is stopped, as numbers of
\* PDUs.
LEMMA WaitsNumbers ==
  ASSUME NEW m \in Nat, NEW v \in Nat, v - Window <= m, m <= v
  PROVE  Waits(Sn(m), Sn(v)) <=> m < v
<1>1. Distance(Sn(m), LowerEdge(Sn(v))) = (m - v) + Window
  BY DistanceInWindow, SnConstants
<1>2. Distance(Sn(v), LowerEdge(Sn(v))) = (v - v) + Window
  BY DistanceInWindow, SnConstants
<1> QED BY <1>1, <1>2, SnConstants DEF Waits

LEMMA StopsTimerNumbers ==
  ASSUME NEW m \in Nat, NEW v \in Nat, v - Window <= m, m <= v,
         NEW ux \in Nat, v - Window <= ux, ux <= v, vrUx = Sn(ux)
  PROVE  StopsTimer(Sn(m), Sn(v)) <=> ux <= m
<1>1. Distance(Sn(m), LowerEdge(Sn(v))) = (m - v) + Window
  BY DistanceInWindow, SnConstants
<1>2. Distance(Sn(ux), LowerEdge(Sn(v))) = (ux - v) + Window
  BY DistanceInWindow, SnConstants
<1>3. ~ IsInsideReorderingWindow(vrUx, Sn(v)) => ux = v
  BY <1>2, SnConstants DEF IsInsideReorderingWindow
<1>4. ~ (~ IsInsideReorderingWindow(vrUx, Sn(v)) /\ vrUx # Sn(v))
  BY <1>3
<1>5. StopsTimer(Sn(m), Sn(v)) <=> (ux - v) + Window <= (m - v) + Window
  BY <1>1, <1>2, <1>4 DEF StopsTimer
<1> QED BY <1>5, SnConstants

\* The PDU in the buffer, as the numbers it has there.
Numbered(buffer, lo, hi) ==
  \A sn \in DOMAIN buffer : /\ buffer[sn].nr \in Nat
                            /\ buffer[sn].sn = sn
                            /\ sn = Sn(buffer[sn].nr)
                            /\ lo <= buffer[sn].nr
                            /\ buffer[sn].nr < hi

\* A run up to m leaves the buffer and the edges in step.
LEMMA AfterRun ==
  ASSUME NEW buffer, NEW u \in Nat, NEW v \in Nat, NEW a \in Nat, NEW m \in Nat,
         v - Window <= a, u - Window <= a,
         a <= m, m <= v, m < u + Window,
         Numbered(buffer, a, v), \A sn \in DOMAIN buffer : buffer[sn].nr < u + Window,
         a < m => Sn(m - 1) \in DOMAIN buffer,
         reassembled = a, expectedSn = Sn(a),
         ReassembleAll(buffer, Sorted(TakenFrom(buffer, a, m), LowerEdge(Sn(u))),
                       DOMAIN buffer \ TakenFrom(buffer, a, m))
  PROVE  /\ reassembled' = m
         /\ expectedSn' = Sn(m)
         /\ DOMAIN rxBuffer' = {sn \in DOMAIN buffer : m <= buffer[sn].nr}
         /\ Numbered(rxBuffer', m, v)
         /\ \A j \in m .. v - 1 : Sn(j) \in DOMAIN buffer => Sn(j) \in DOMAIN rxBuffer'
<1> DEFINE stored == DOMAIN buffer \ TakenFrom(buffer, a, m)
<1>1. \A sn \in DOMAIN buffer : /\ buffer[sn].nr \in Int
                                /\ sn = Sn(buffer[sn].nr)
                                /\ buffer[sn].sn = sn
                                /\ u - Window <= buffer[sn].nr
                                /\ buffer[sn].nr < u + Window
  BY SnConstants DEF Numbered
<1>2. /\ reassembled' = m
      /\ expectedSn' = Sn(m)
      /\ rxBuffer' = [sn \in stored |-> buffer[sn]]
  BY <1>1, RunIsReassembled
<1>3. stored = {sn \in DOMAIN buffer : m <= buffer[sn].nr}
  BY <1>1 DEF TakenFrom, Numbered
<1> HIDE DEF stored
<1>4. Numbered(rxBuffer', m, v)
  BY <1>2, <1>3 DEF Numbered
<1>5. ASSUME NEW j \in m .. v - 1, Sn(j) \in DOMAIN buffer
      PROVE  Sn(j) \in DOMAIN rxBuffer'
  <2> DEFINE k == buffer[Sn(j)].nr
  <2>1. k \in Int /\ Sn(j) = Sn(k) /\ a <= k /\ k < v
    BY <1>5 DEF Numbered
  <2> HIDE DEF k
  <2>2. j \in Int /\ j - k < SnSpace /\ k - j < SnSpace
    BY <2>1, SnConstants
  <2>3. j = k
    BY <2>1, <2>2, SnIsInjective
  <2> QED BY <1>2, <1>3, <1>5, <2>3 DEF k
<1> QED BY <1>2, <1>3, <1>4, <1>5
\* The window and the timer after a run up to m.
LEMMA WindowAfterRun ==
  ASSUME NEW m \in Nat, NEW v \in Nat, v - Window <= m, m <= v,
         reassembled' = m, received' = v, sentPdus' \in Nat,
         vrUr' = Sn(m), expectedSn' = Sn(m), vrUh' = Sn(v),
         v <= sentPdus', sentPdus' <= m + MaxGap, sentPdus' <= v + MaxAhead,
         ChannelInStep', Numbered(rxBuffer', m, v),
         m < v => Sn(v - 1) \in DOMAIN rxBuffer',
         TimerInStep'
  PROVE  WindowInStep'
<1>1. EdgesInStep'
  BY DEF EdgesInStep
<1>2. BufferInStep'
  BY DEF BufferInStep, Numbered
<1> QED BY <1>1, <1>2 DEF WindowInStep

\* The reception buffer with the PDU placed in it.
Placed(pdu) ==
  [sn \in DOMAIN rxBuffer \union {pdu.sn} |-> IF sn = pdu.sn THEN pdu ELSE rxBuffer[sn]]

\* A step reassembles the PDUs of the buffer up to m, all that are stored.
RunTo(buffer, m) ==
  /\ m < received + Window
  /\ reassembled < m => Sn(m - 1) \in DOMAIN buffer
  /\ Numbered(buffer, reassembled, received')
  /\ \A sn \in DOMAIN buffer : buffer[sn].nr < received + Window
  /\ vrUr' = Sn(m)
  /\ ReassembleAll(buffer, Sorted(TakenFrom(buffer, reassembled, m), LowerEdge(Sn(received))),
                   DOMAIN buffer \ TakenFrom(buffer, reassembled, m))

\* Nothing is outside the window, and its lower edge does not move VR(UR):
\* PlacePdu is a run.
LEMMA PlacedRun ==
  ASSUME GapFits, WindowInStep, NEW pdu \in channel, ~ Discarded(pdu.sn), PlacePdu(pdu),
         received' = IF pdu.nr < received THEN received ELSE pdu.nr + 1
  PROVE  /\ reassembled <= pdu.nr /\ reassembled < received' /\ received <= received'
         /\ pdu.nr < received' /\ received' \in Nat
         /\ received' - Window <= reassembled /\ received' <= received + Window
         /\ vrUh' = Sn(received')
         /\ \E m \in reassembled .. received' : RunTo(Placed(pdu), m)
<1> DEFINE p == pdu.nr
           u == received
           a == reassembled
           v == IF p < u THEN u ELSE p + 1
<1>1. /\ u \in Nat /\ a \in Nat /\ p \in Nat /\ sentPdus \in Nat
      /\ a <= u /\ u <= sentPdus /\ p < sentPdus
      /\ sentPdus <= a + Window /\ sentPdus <= u + Window
      /\ u - Window <= p /\ p < u + Window /\ p < a + Window
      /\ pdu.sn = Sn(p)
  BY ChannelNumbers
<1>2. received' = v
  OBVIOUS
<1> DEFINE buffer == Placed(pdu)
           inside == IsInsideReorderingWindow(pdu.sn, vrUh)
           early  == IF inside THEN {} ELSE OutsideWindow(DOMAIN buffer, vrUh')
           left   == DOMAIN buffer \ early
           moved  == ~inside /\ ~IsInsideReorderingWindow(vrUr, vrUh')
           ur     == IF moved THEN LowerEdge(vrUh') ELSE vrUr
           base   == LowerEdge(IF moved THEN vrUh' ELSE vrUh)
           run    == IF ur \in left THEN SnInterval(left, ur, vrUr', base) ELSE {}
           stops  == timerRunning => StopsTimer(vrUr', vrUh')
<1>3. /\ vrUh' = IF inside THEN vrUh ELSE (pdu.sn + 1) % SnSpace
      /\ vrUr' = IF ur \in left THEN FirstMissingFrom(left, ur) ELSE ur
      /\ ReassembleAll(buffer, Sorted(early, 0) \o Sorted(run, base), left \ run)
      /\ timerRunning' = (stops => Waits(vrUr', vrUh'))
      /\ vrUx' = IF stops /\ Waits(vrUr', vrUh') THEN vrUh' ELSE vrUx
  BY DEF PlacePdu, Placed
<1>4. vrUr = Sn(a) /\ vrUh = Sn(u) /\ expectedSn = Sn(a)
  BY DEF WindowInStep, EdgesInStep
<1>5. a <= p /\ a < v /\ u <= v /\ p < v /\ v \in Nat /\ v - Window <= a /\ v <= u + Window
  <2>1. ~ (p < a)
    BY <1>1, DiscardedNumbers
  <2> HIDE DEF p, u, a
  <2> QED BY <1>1, <2>1, SnConstants
<1>6. inside <=> p < u
  <2>1. Distance(pdu.sn, LowerEdge(vrUh)) = (p - u) + Window
    BY <1>1, <1>4, DistanceInWindow
  <2> HIDE DEF p, u
  <2> QED BY <1>1, <2>1, SnConstants DEF IsInsideReorderingWindow
<1>7. vrUh' = Sn(v)
  <2>1. (Sn(p) + 1) % SnSpace = Sn(p + 1)
    <3> HIDE DEF p
    <3>1. p \in Int
      BY <1>1
    <3> QED BY <3>1, SnPlus
  <2> HIDE DEF p, u, inside
  <2> QED BY <1>1, <1>3, <1>4, <1>6, <2>1
<1>8. \A sn \in DOMAIN buffer : /\ buffer[sn].nr \in Nat
                                /\ buffer[sn].sn = sn
                                /\ sn = Sn(buffer[sn].nr)
                                /\ a <= buffer[sn].nr
                                /\ buffer[sn].nr < v
                                /\ buffer[sn].nr < u + Window
  <2>1. ASSUME NEW sn \in DOMAIN rxBuffer, sn # pdu.sn
        PROVE  /\ rxBuffer[sn].nr \in Nat
               /\ rxBuffer[sn].sn = sn
               /\ sn = Sn(rxBuffer[sn].nr)
               /\ a <= rxBuffer[sn].nr
               /\ rxBuffer[sn].nr < u
    BY DEF WindowInStep, BufferInStep
  <2>2. ASSUME NEW k \in Nat, k < u
        PROVE  k < v /\ k < u + Window
    <3> HIDE DEF u, v
    <3> QED BY <1>1, <1>5, <2>2, SnConstants
  <2> HIDE DEF u, v, a
  <2> QED BY <1>1, <1>5, <2>1, <2>2 DEF Placed
<1> DEFINE sns == DOMAIN buffer
<1>9. sns = DOMAIN rxBuffer \union {pdu.sn} /\ sns \in SUBSET (0 .. SnSpace - 1)
  <2>1. sns = DOMAIN rxBuffer \union {pdu.sn}
    BY DEF Placed
  <2>2. \A k \in Nat : Sn(k) \in 0 .. SnSpace - 1
    BY SnType
  <2> HIDE DEF buffer
  <2> QED BY <1>8, <2>1, <2>2
<1> HIDE DEF buffer, sns
<1>10. \A sn \in sns : IsInsideReorderingWindow(sn, Sn(v))
  <2> SUFFICES ASSUME NEW sn \in sns
               PROVE  IsInsideReorderingWindow(sn, Sn(v))
    OBVIOUS
  <2> DEFINE k == buffer[sn].nr
  <2>1. k \in Nat /\ sn = Sn(k) /\ a <= k /\ k < v
    BY <1>8 DEF sns
  <2> HIDE DEF k, v, a
  <2>2. Distance(Sn(k), LowerEdge(Sn(v))) = (k - v) + Window
    BY <1>1, <1>5, <2>1, DistanceInWindow, SnConstants
  <2> QED BY <1>5, <2>1, <2>2, SnConstants DEF IsInsideReorderingWindow
<1>11. early = {}
  <2>1. \A sn \in sns : sn <= sn
    BY <1>9
  <2>2. OutsideWindow(sns, Sn(v)) = {}
    <3> HIDE DEF v
    <3> QED BY <1>10, <2>1 DEF OutsideWindow
  <2> QED BY <1>7, <2>2 DEF sns
<1>12. ~ moved
  <2>1. Distance(Sn(a), LowerEdge(Sn(v))) = (a - v) + Window
    <3> HIDE DEF v, a
    <3> QED BY <1>1, <1>5, DistanceInWindow, SnConstants
  <2>2. IsInsideReorderingWindow(vrUr, vrUh')
    <3> HIDE DEF v, a
    <3> QED BY <1>1, <1>4, <1>5, <1>7, <2>1, SnConstants DEF IsInsideReorderingWindow
  <2> QED BY <2>2
<1>13. left = sns /\ ur = Sn(a) /\ base = LowerEdge(Sn(u))
  BY <1>4, <1>11, <1>12 DEF sns
<1>14. \E m \in a .. v : /\ vrUr' = Sn(m)
                         /\ m < u + Window
                         /\ run = TakenFrom(buffer, a, m)
                         /\ a < m => Sn(m - 1) \in sns
  <2>1. ASSUME NEW m \in a .. v, m < u + Window
        PROVE  SnInterval(sns, Sn(a), Sn(m), LowerEdge(Sn(u))) = TakenFrom(buffer, a, m)
    <3>1. \A sn \in DOMAIN buffer : /\ buffer[sn].nr \in Int
                                    /\ sn = Sn(buffer[sn].nr)
                                    /\ u - Window <= buffer[sn].nr
                                    /\ buffer[sn].nr < u + Window
      <4> HIDE DEF u, a, v
      <4> QED BY <1>1, <1>5, <1>8, SnConstants
    <3>2. u - Window <= a /\ a <= m /\ m \in Int /\ u \in Int /\ a \in Int
      <4> HIDE DEF u, a, v
      <4> QED BY <1>1, <1>5, SnConstants
    <3> HIDE DEF u, a, v
    <3> QED BY <2>1, <3>1, <3>2, IntervalOfPdus DEF sns
  <2>2. CASE Sn(a) \notin sns
    <3>1. vrUr' = Sn(a) /\ run = {}
      BY <1>3, <1>13, <2>2
    <3>2. TakenFrom(buffer, a, a) = {}
      <4> HIDE DEF a
      <4> QED BY <1>1, <1>8 DEF TakenFrom
    <3>3. a \in a .. v /\ a < u + Window /\ ~ (a < a)
      <4> HIDE DEF u, a, v
      <4> QED BY <1>1, <1>5, SnConstants
    <3> HIDE DEF u, a, v, run
    <3> QED BY <3>1, <3>2, <3>3
  <2>3. CASE Sn(a) \in sns
    <3>1. vrUr' = FirstMissingFrom(sns, Sn(a))
          /\ run = SnInterval(sns, Sn(a), vrUr', LowerEdge(Sn(u)))
      BY <1>3, <1>13, <2>3
    <3>2. PICK m \in Nat : /\ a < m
                           /\ FirstMissingFrom(sns, Sn(a)) = Sn(m)
                           /\ \A j \in a .. m - 1 : Sn(j) \in sns
      BY <1>1, <1>9, <2>3, FirstMissingOf
    <3>3. ASSUME NEW j \in Nat, a <= j, j < m, j < a + SnSpace
          PROVE  j < v /\ (u < j => p >= u)
      <4> DEFINE k == buffer[Sn(j)].nr
      <4>1. Sn(j) \in sns
        BY <3>2, <3>3
      <4>2. k \in Nat /\ Sn(j) = Sn(k) /\ a <= k /\ k < v
        BY <1>8, <4>1 DEF sns
      <4> HIDE DEF k
      <4>3. j - k < SnSpace /\ k - j < SnSpace
        <5> HIDE DEF a, u, v, p
        <5> QED BY <1>1, <1>5, <3>3, <4>2, SnConstants
      <4>4. j = k
        BY <4>2, <4>3, SnIsInjective
      <4> HIDE DEF a
      <4> QED BY <1>1, <4>2, <4>4
    <3>4. m <= v
      <4> SUFFICES ASSUME v < m
                   PROVE  FALSE
        <5> HIDE DEF v
        <5> QED BY <1>5, <3>2
      <4>1. a <= v /\ v < a + SnSpace
        <5> HIDE DEF v, a
        <5> QED BY <1>1, <1>5, SnConstants
      <4>2. v < v
        <5> HIDE DEF v, a, u
        <5> QED BY <1>5, <3>3, <4>1
      <4> HIDE DEF v
      <4> QED BY <1>5, <4>2
    <3>5. m < u + Window
      <4> SUFFICES ASSUME u + Window <= m
                   PROVE  FALSE
        <5> HIDE DEF u
        <5> QED BY <1>1, <3>2, SnConstants
      <4>1. p = m - 1 /\ u < p
        <5> HIDE DEF u, p
        <5> QED BY <1>1, <1>5, <3>2, <3>4, SnConstants
      <4>2. Sn(u) \in sns
        <5> HIDE DEF u, p, a
        <5> QED BY <1>1, <3>2, <4>1
      <4>3. Sn(u) # pdu.sn
        <5>1. Sn(u) = Sn(p) => u = p
          <6> HIDE DEF u, p
          <6> QED BY <1>1, SnIsInjective, SnConstants
        <5> HIDE DEF u, p
        <5> QED BY <1>1, <4>1, <5>1
      <4>4. Sn(u) \in DOMAIN rxBuffer
        BY <1>9, <4>2, <4>3
      <4> DEFINE k == rxBuffer[Sn(u)].nr
      <4>5. k \in Nat /\ Sn(u) = Sn(k) /\ a <= k /\ k < u
        BY <4>4 DEF WindowInStep, BufferInStep
      <4> HIDE DEF k
      <4>6. u = k
        <5> HIDE DEF u, a
        <5> QED BY <1>1, <4>5, SnIsInjective, SnConstants
      <4> HIDE DEF u
      <4> QED BY <1>1, <4>5, <4>6
    <3>6. m \in a .. v /\ m - 1 \in a .. m - 1
      <4> HIDE DEF a, v
      <4> QED BY <1>1, <1>5, <3>2, <3>4
    <3>7. run = TakenFrom(buffer, a, m)
      <4> HIDE DEF run, a, v, u
      <4> QED BY <2>1, <3>1, <3>2, <3>5, <3>6
    <3> HIDE DEF run, a, v, u
    <3> QED BY <3>1, <3>2, <3>5, <3>6, <3>7
  <2> QED BY <2>2, <2>3
<1>15. PICK m \in a .. v : /\ vrUr' = Sn(m)
                           /\ m < u + Window
                           /\ run = TakenFrom(buffer, a, m)
                           /\ a < m => Sn(m - 1) \in sns
  BY <1>14
<1>16. ReassembleAll(buffer, Sorted(TakenFrom(buffer, a, m), LowerEdge(Sn(u))),
                     DOMAIN buffer \ TakenFrom(buffer, a, m))
  <2>1. Sorted(early, 0) = << >>
    <3>1. Sn(0) = 0
      BY SnItself, SnConstants
    <3>2. Sorted({}, Sn(0)) = << >>
      BY SortedNothing
    <3> QED BY <1>11, <3>1, <3>2
  <2>2. Sorted(run, base) \in Seq(run)
    <3>1. u - Window \in Int /\ LowerEdge(Sn(u)) = Sn(u - Window)
      BY <1>1, LowerEdgeOf, SnConstants
    <3>2. run \in SUBSET (0 .. SnSpace - 1)
      BY <1>9, <1>15 DEF TakenFrom, sns
    <3> HIDE DEF run, base
    <3>3. Cardinality(run) \in Nat /\ Sorted(run, base) \in [1 .. Cardinality(run) -> run]
      BY <1>13, <3>1, <3>2, SortedIsAscending
    <3> QED BY <3>3
  <2>3. << >> \o Sorted(run, base) = Sorted(run, base)
    <3> HIDE DEF run, base
    <3> QED BY <2>2
  <2> HIDE DEF run, base, early, left
  <2> QED BY <1>3, <1>13, <1>15, <2>1, <2>3 DEF sns
<1>17. /\ m \in Nat /\ a <= m /\ m <= v /\ u - Window <= a /\ v - Window <= m
  <2> HIDE DEF a, u, v
  <2> QED BY <1>1, <1>5, SnConstants
<1>18. Numbered(buffer, a, v)
  BY <1>8 DEF Numbered
<1>19. RunTo(buffer, m)
  <2>1. \A sn \in DOMAIN buffer : buffer[sn].nr < u + Window
    BY <1>8
  <2>2. Numbered(buffer, a, received') /\ m < u + Window /\ vrUr' = Sn(m)
        /\ (a < m => Sn(m - 1) \in DOMAIN buffer)
    BY <1>2, <1>15, <1>18 DEF sns
  <2> QED BY <1>16, <2>1, <2>2 DEF RunTo
<1>20. m \in reassembled .. received'
  BY <1>2, <1>15
<1> HIDE DEF v
<1> QED BY <1>2, <1>5, <1>7, <1>19, <1>20 DEF buffer

LEMMA ReceiveKeepsWindow ==
  ASSUME GapFits, WindowInStep, ReceivePdu
  PROVE  WindowInStep'
<1>1. PICK pdu \in channel :
        /\ channel' = channel \ {pdu}
        /\ received' = Max({received, pdu.nr + 1})
        /\ IF Discarded(pdu.sn) THEN UNCHANGED umRxVars ELSE PlacePdu(pdu)
        /\ UNCHANGED umTxVars
  BY DEF ReceivePdu
<1> DEFINE p == pdu.nr
           u == received
           a == reassembled
           v == IF p < u THEN u ELSE p + 1
<1>2. /\ u \in Nat /\ a \in Nat /\ p \in Nat /\ sentPdus \in Nat
      /\ a <= u /\ u <= sentPdus /\ p < sentPdus
      /\ sentPdus <= a + Window /\ sentPdus <= u + Window
      /\ u - Window <= p /\ p < u + Window /\ p < a + Window
      /\ pdu.sn = Sn(p)
  BY ChannelNumbers
<1>3. /\ txSn' = txSn /\ sentPdus' = sentPdus
  BY <1>1 DEF umTxVars
<1>4. ChannelInStep'
  BY <1>1, <1>3 DEF WindowInStep, ChannelInStep
<1>5. received' = v
  <2>1. Max({u, p + 1}) = IF u < p + 1 THEN p + 1 ELSE u
    BY <1>2, MaxOfTwo
  <2> HIDE DEF p
  <2> QED BY <1>1, <1>2, <2>1 DEF p
<1>6. CASE Discarded(pdu.sn)
  <2>1. p < u
    BY <1>2, <1>6, DiscardedNumbers
  <2>2. UNCHANGED umRxVars /\ received' = received
    BY <1>1, <1>5, <1>6, <2>1
  <2>3. UNCHANGED <<vrUr, vrUx, vrUh, rxBuffer, timerRunning, expectedSn, reassembled>>
    BY <2>2 DEF umRxVars
  <2>4. EdgesInStep' /\ BufferInStep' /\ TimerInStep'
    BY <1>3, <2>2, <2>3 DEF WindowInStep, EdgesInStep, BufferInStep, TimerInStep
  <2> QED BY <1>4, <2>4 DEF WindowInStep
<1>7. CASE ~ Discarded(pdu.sn)
  <2> DEFINE buffer == Placed(pdu)
             sns    == DOMAIN buffer
             stops  == timerRunning => StopsTimer(vrUr', vrUh')
  <2>1. PlacePdu(pdu)
    BY <1>1, <1>7
  <2>2. /\ timerRunning' = (stops => Waits(vrUr', vrUh'))
        /\ vrUx' = IF stops /\ Waits(vrUr', vrUh') THEN vrUh' ELSE vrUx
    BY <2>1 DEF PlacePdu
  <2>3. /\ a <= p /\ a < v /\ u <= v /\ p < v /\ v \in Nat /\ v - Window <= a /\ v <= u + Window
        /\ vrUh' = Sn(v)
        /\ \E m \in a .. v : RunTo(buffer, m)
    BY <1>5, <1>7, <2>1, PlacedRun
  <2>4. sns = DOMAIN rxBuffer \union {pdu.sn}
    BY DEF Placed
  <2> HIDE DEF buffer, sns
  <2>5. PICK m \in a .. v : RunTo(buffer, m)
    BY <2>3
  <2>6. /\ vrUr' = Sn(m) /\ m < u + Window /\ (a < m => Sn(m - 1) \in DOMAIN buffer)
        /\ Numbered(buffer, a, v) /\ \A sn \in DOMAIN buffer : buffer[sn].nr < u + Window
        /\ ReassembleAll(buffer, Sorted(TakenFrom(buffer, a, m), LowerEdge(Sn(u))),
                         DOMAIN buffer \ TakenFrom(buffer, a, m))
    BY <1>5, <2>5 DEF RunTo
  <2>7. /\ m \in Nat /\ a <= m /\ m <= v /\ u - Window <= a /\ v - Window <= m
    <3> HIDE DEF a, u, v
    <3> QED BY <1>2, <2>3, <2>5, SnConstants
  <2>8. /\ reassembled' = m
         /\ expectedSn' = Sn(m)
         /\ Numbered(rxBuffer', m, v)
         /\ \A j \in m .. v - 1 : Sn(j) \in DOMAIN buffer => Sn(j) \in DOMAIN rxBuffer'
    <3>1. reassembled = a /\ expectedSn = Sn(a)
      BY DEF WindowInStep, EdgesInStep
    <3> HIDE DEF a, u, v, p
    <3> QED BY <1>2, <2>3, <2>6, <2>7, <3>1, AfterRun
  <2>9. Sn(v - 1) \in DOMAIN buffer
    <3>1. CASE p < u
      <4>1. Sn(u - 1) \in DOMAIN rxBuffer
        <5>1. reassembled < received
          BY <1>2, <2>3, <3>1
        <5> QED BY <5>1 DEF WindowInStep, BufferInStep
      <4> QED BY <2>4, <3>1, <4>1 DEF sns
    <3>2. CASE ~ (p < u)
      <4>1. v - 1 = p
        <5> HIDE DEF p, u
        <5> QED BY <1>2, <3>2
      <4> HIDE DEF v, p
      <4> QED BY <1>2, <2>4, <4>1 DEF sns
    <3> QED BY <3>1, <3>2
  <2>10. m < v => Sn(v - 1) \in DOMAIN rxBuffer'
    <3> HIDE DEF v
    <3> QED BY <2>3, <2>7, <2>8, <2>9
  <2>11. Waits(vrUr', vrUh') <=> m < v
    <3> HIDE DEF v
    <3> QED BY <2>3, <2>6, <2>7, WaitsNumbers
  <2>12. TimerInStep'
    <3>1. timerRunning' \in BOOLEAN
      BY <2>2
    <3>2. timerRunning \in BOOLEAN
      BY DEF WindowInStep, TimerInStep
    <3>3. CASE ~ stops
      <4>1. timerRunning /\ ~ StopsTimer(vrUr', vrUh') /\ timerRunning' = TRUE /\ vrUx' = vrUx
        BY <2>2, <3>2, <3>3
      <4>2. PICK ux \in a + 1 .. u : vrUx = Sn(ux) /\ Sn(ux - 1) \in DOMAIN rxBuffer
        BY <4>1 DEF WindowInStep, TimerInStep
      <4>3. ux \in Nat /\ v - Window <= ux /\ ux <= v
        <5> HIDE DEF u, v, a
        <5> QED BY <1>2, <2>3, SnConstants
      <4>4. m < ux
        <5>1. ~ (ux <= m)
          <6> HIDE DEF v
          <6> QED BY <2>3, <2>6, <2>7, <4>1, <4>2, <4>3, StopsTimerNumbers
        <5> QED BY <2>7, <4>3, <5>1
      <4>5. ux \in m + 1 .. v /\ ux - 1 \in m .. v - 1
        <5> HIDE DEF v
        <5> QED BY <2>3, <2>7, <4>3, <4>4
      <4>6. Sn(ux - 1) \in DOMAIN rxBuffer'
        <5>1. Sn(ux - 1) \in DOMAIN buffer
          BY <2>4, <4>2 DEF sns
        <5> HIDE DEF v
        <5> QED BY <2>8, <4>5, <5>1
      <4> HIDE DEF v
      <4> QED BY <1>5, <2>8, <3>1, <4>1, <4>2, <4>5, <4>6 DEF TimerInStep
    <3>4. CASE stops
      <4>1. timerRunning' <=> m < v
        BY <2>2, <2>11, <3>4
      <4>2. timerRunning' => vrUx' = Sn(v)
        BY <2>2, <2>3, <2>11, <3>4, <4>1
      <4>3. m < v => v \in m + 1 .. v
        <5> HIDE DEF v
        <5> QED BY <2>3, <2>7
      <4> HIDE DEF v, stops
      <4> QED BY <1>5, <2>8, <2>10, <3>1, <4>1, <4>2, <4>3 DEF TimerInStep
    <3> QED BY <3>3, <3>4
  <2>13. /\ v <= sentPdus' /\ sentPdus' <= m + MaxGap /\ sentPdus' <= v + MaxAhead
         /\ sentPdus' \in Nat
    <3>1. sentPdus <= a + MaxGap /\ sentPdus <= u + MaxAhead /\ MaxGap \in Nat /\ MaxAhead \in Nat
      BY UmBoundAssumption DEF WindowInStep, EdgesInStep
    <3> HIDE DEF a, u, p
    <3> QED BY <1>2, <1>3, <2>7, <3>1
  <2> HIDE DEF v
  <2> QED BY <1>4, <1>5, <2>3, <2>6, <2>7, <2>8, <2>10, <2>12, <2>13, WindowAfterRun
<1> QED BY <1>6, <1>7

\* So is ExpireReorderingTimer.
LEMMA ExpiredRun ==
  ASSUME GapFits, WindowInStep, ExpireReorderingTimer
  PROVE  \E m \in reassembled + 1 .. received : RunTo(rxBuffer, m)
<1> DEFINE u == received
           a == reassembled
           sns == DOMAIN rxBuffer
           base == LowerEdge(vrUh)
           run == SnInterval(sns, vrUr, vrUr', base)
<1>1. /\ timerRunning
      /\ vrUr' = (vrUx + StoredSteps(sns, vrUx)) % SnSpace
      /\ ReassembleAll(rxBuffer, Sorted(run, base), sns \ run)
      /\ received' = u
  BY DEF ExpireReorderingTimer, StoredSteps
<1>2. /\ u \in Nat /\ a \in Nat /\ sentPdus \in Nat
      /\ a <= u /\ u <= sentPdus /\ u <= a + Window /\ u - Window <= a
  <2>1. /\ u \in Nat /\ a \in Nat /\ sentPdus \in Nat
        /\ a <= u /\ u <= sentPdus /\ sentPdus <= a + Window
    BY ChannelNumbers
  <2> HIDE DEF u, a
  <2> QED BY <2>1, SnConstants
<1>3. vrUr = Sn(a) /\ vrUh = Sn(u) /\ expectedSn = Sn(a)
  BY DEF WindowInStep, EdgesInStep
<1>4. PICK ux \in a + 1 .. u : vrUx = Sn(ux) /\ Sn(ux - 1) \in sns
  BY <1>1 DEF WindowInStep, TimerInStep
<1>5. Numbered(rxBuffer, a, u)
  BY DEF WindowInStep, BufferInStep, Numbered
<1>6. Sn(u) \notin sns
  <2> SUFFICES ASSUME Sn(u) \in sns
               PROVE  FALSE
    OBVIOUS
  <2> DEFINE k == rxBuffer[Sn(u)].nr
  <2>1. k \in Nat /\ Sn(u) = Sn(k) /\ a <= k /\ k < u
    BY <1>5 DEF Numbered
  <2> HIDE DEF k, u, a
  <2>2. u = k
    BY <1>2, <2>1, SnIsInjective, SnConstants
  <2> QED BY <2>1, <2>2
<1>7. ux \in Nat /\ ux <= u /\ u - ux <= Window /\ a < ux
  <2> HIDE DEF u, a
  <2> QED BY <1>2, <1>4, SnConstants
<1> HIDE DEF sns
<1>8. PICK m \in ux .. u : vrUr' = Sn(m) /\ \A j \in ux .. m - 1 : Sn(j) \in sns
  <2> HIDE DEF u, a
  <2>1. \E m \in ux .. u : /\ (Sn(ux) + StoredSteps(sns, Sn(ux))) % SnSpace = Sn(m)
                           /\ \A j \in ux .. m - 1 : Sn(j) \in sns
    BY <1>2, <1>6, <1>7, StoredStepsOf
  <2> QED BY <1>1, <1>4, <2>1
<1>9. m \in Nat /\ a < m /\ m <= u /\ u - Window <= m /\ m < u + Window
  <2> HIDE DEF u, a
  <2> QED BY <1>2, <1>7, <1>8, SnConstants
<1>10. Sn(m - 1) \in sns
  <2>1. CASE m = ux
    BY <1>4, <2>1
  <2>2. CASE m # ux
    <3>1. m - 1 \in ux .. m - 1
      BY <1>7, <1>8, <2>2
    <3> QED BY <1>8, <3>1
  <2> QED BY <2>1, <2>2
<1>11. \A sn \in sns : rxBuffer[sn].nr \in Int /\ rxBuffer[sn].nr < u + Window
                       /\ u - Window <= rxBuffer[sn].nr /\ sn = Sn(rxBuffer[sn].nr)
  <2> HIDE DEF u, a
  <2> QED BY <1>2, <1>5, SnConstants DEF Numbered, sns
<1>12. run = TakenFrom(rxBuffer, a, m) /\ base = LowerEdge(Sn(u))
  <2>1. u \in Int /\ a \in Int /\ m \in Int /\ a <= m
    <3> HIDE DEF u, a
    <3> QED BY <1>2, <1>9
  <2>2. SnInterval(sns, Sn(a), Sn(m), LowerEdge(Sn(u))) = TakenFrom(rxBuffer, a, m)
    <3> HIDE DEF u, a
    <3> QED BY <1>2, <1>9, <1>11, <2>1, IntervalOfPdus DEF sns
  <2> QED BY <1>3, <1>8, <2>2
<1>13. RunTo(rxBuffer, m)
  <2>1. ReassembleAll(rxBuffer, Sorted(TakenFrom(rxBuffer, a, m), LowerEdge(Sn(u))),
                      DOMAIN rxBuffer \ TakenFrom(rxBuffer, a, m))
    <3> HIDE DEF run, base
    <3> QED BY <1>1, <1>12 DEF sns
  <2>2. \A sn \in DOMAIN rxBuffer : rxBuffer[sn].nr < u + Window
    BY <1>11 DEF sns
  <2> QED BY <1>1, <1>5, <1>8, <1>9, <1>10, <2>1, <2>2 DEF RunTo, sns
<1>14. m \in a + 1 .. u
  BY <1>2, <1>9
<1> QED BY <1>13, <1>14

LEMMA ExpireKeepsWindow ==
  ASSUME GapFits, WindowInStep, ExpireReorderingTimer
  PROVE  WindowInStep'
<1> DEFINE u == received
           a == reassembled
<1>1. /\ timerRunning' = Waits(vrUr', vrUh)
      /\ vrUx' = IF timerRunning' THEN vrUh ELSE vrUx
      /\ UNCHANGED <<vrUh, umTxVars, channel, received, missed>>
  BY DEF ExpireReorderingTimer
<1>2. /\ u \in Nat /\ a \in Nat /\ sentPdus \in Nat
      /\ a <= u /\ u <= sentPdus /\ u <= a + Window /\ u - Window <= a
  <2>1. /\ u \in Nat /\ a \in Nat /\ sentPdus \in Nat
        /\ a <= u /\ u <= sentPdus /\ sentPdus <= a + Window
    BY ChannelNumbers
  <2> HIDE DEF u, a
  <2> QED BY <2>1, SnConstants
<1>3. txSn' = txSn /\ sentPdus' = sentPdus /\ channel' = channel /\ received' = u /\ vrUh' = vrUh
  BY <1>1 DEF umTxVars
<1>4. ChannelInStep'
  BY <1>3 DEF WindowInStep, ChannelInStep
<1>5. vrUh = Sn(u) /\ expectedSn = Sn(a)
  BY DEF WindowInStep, EdgesInStep
<1>6. PICK m \in a + 1 .. u : RunTo(rxBuffer, m)
  BY ExpiredRun
<1>7. /\ m < u + Window /\ Sn(m - 1) \in DOMAIN rxBuffer
      /\ Numbered(rxBuffer, a, u) /\ \A sn \in DOMAIN rxBuffer : rxBuffer[sn].nr < u + Window
      /\ vrUr' = Sn(m)
      /\ ReassembleAll(rxBuffer, Sorted(TakenFrom(rxBuffer, a, m), LowerEdge(Sn(u))),
                       DOMAIN rxBuffer \ TakenFrom(rxBuffer, a, m))
  <2>1. a < m
    BY <1>2, <1>6
  <2> QED BY <1>3, <1>6, <2>1 DEF RunTo
<1>8. m \in Nat /\ a < m /\ m <= u /\ u - Window <= m
  <2> HIDE DEF u, a
  <2> QED BY <1>2, <1>6, SnConstants
<1>9. /\ reassembled' = m
      /\ expectedSn' = Sn(m)
      /\ Numbered(rxBuffer', m, u)
      /\ \A j \in m .. u - 1 : Sn(j) \in DOMAIN rxBuffer => Sn(j) \in DOMAIN rxBuffer'
  <2>1. reassembled = a /\ a <= m
    BY <1>2, <1>8
  <2> HIDE DEF u, a
  <2> QED BY <1>2, <1>5, <1>7, <1>8, <2>1, AfterRun
<1>10. m < u => Sn(u - 1) \in DOMAIN rxBuffer'
  <2> SUFFICES ASSUME m < u
               PROVE  Sn(u - 1) \in DOMAIN rxBuffer'
    OBVIOUS
  <2>1. reassembled < received
    BY <1>2, <1>8
  <2>2. Sn(u - 1) \in DOMAIN rxBuffer
    BY <2>1 DEF WindowInStep, BufferInStep
  <2>3. u - 1 \in m .. u - 1
    BY <1>2, <1>8
  <2> QED BY <1>9, <2>2, <2>3
<1>11. timerRunning' \in BOOLEAN /\ (timerRunning' <=> m < u)
  <2>1. Waits(vrUr', vrUh) <=> m < u
    <3> HIDE DEF u
    <3> QED BY <1>2, <1>5, <1>7, <1>8, WaitsNumbers
  <2>2. Waits(vrUr', vrUh) \in BOOLEAN
    BY DEF Waits
  <2> QED BY <1>1, <2>1, <2>2
<1>12. TimerInStep'
  <2>1. timerRunning' => vrUx' = Sn(u)
    BY <1>1, <1>5
  <2>2. m < u => u \in m + 1 .. u
    <3> HIDE DEF u
    <3> QED BY <1>2, <1>8
  <2> HIDE DEF u
  <2> QED BY <1>3, <1>9, <1>10, <1>11, <2>1, <2>2 DEF TimerInStep
<1>13. /\ u <= sentPdus' /\ sentPdus' <= m + MaxGap /\ sentPdus' <= u + MaxAhead
       /\ sentPdus' \in Nat
  <2>1. sentPdus <= a + MaxGap /\ sentPdus <= u + MaxAhead /\ MaxGap \in Nat /\ MaxAhead \in Nat
    BY UmBoundAssumption DEF WindowInStep, EdgesInStep
  <2> HIDE DEF a, u
  <2> QED BY <1>2, <1>3, <1>8, <2>1
<1> HIDE DEF u
<1> QED BY <1>2, <1>3, <1>4, <1>5, <1>7, <1>8, <1>9, <1>10, <1>12, <1>13, WindowAfterRun

LEMMA TransmitterKeepsWindow ==
  ASSUME WindowInStep,
         UNCHANGED <<umRxVars, channel, received, txSn, sentPdus>>
  PROVE  WindowInStep'
<1>1. UNCHANGED <<vrUr, vrUx, vrUh, rxBuffer, timerRunning, expectedSn, reassembled>>
  BY DEF umRxVars
<1>2. UNCHANGED <<channel, received, txSn, sentPdus>>
  OBVIOUS
<1>3. ChannelInStep' /\ EdgesInStep'
  BY <1>1, <1>2 DEF WindowInStep, ChannelInStep, EdgesInStep
<1>4. BufferInStep' /\ TimerInStep'
  BY <1>1, <1>2 DEF WindowInStep, BufferInStep, TimerInStep
<1> QED BY <1>3, <1>4 DEF WindowInStep

LEMMA NotifyKeepsWindow ==
  ASSUME WindowInStep, NotifyTxOpportunity
  PROVE  WindowInStep'
<1>1. PICK entries :
        /\ MayTransmit
        /\ channel' = channel \union {NewRlcPdu(entries)}
        /\ txSn' = (txSn + 1) % SnSpace
        /\ sentPdus' = sentPdus + 1
        /\ UNCHANGED <<received, umRxVars>>
  BY DEF NotifyTxOpportunity
<1>2. UNCHANGED <<vrUr, vrUx, vrUh, rxBuffer, timerRunning, expectedSn, reassembled>>
  BY <1>1 DEF umRxVars
<1>3. /\ sentPdus \in Nat /\ txSn = Sn(sentPdus)
      /\ {received, reassembled, MaxAhead, MaxGap} \subseteq Nat /\ MaxAhead > 0
      /\ received <= sentPdus
      /\ sentPdus < reassembled + MaxGap
      /\ sentPdus < received + MaxAhead
      /\ \A pdu \in channel : pdu.nr \in Nat /\ sentPdus < pdu.nr + MaxAhead
  BY <1>1, UmBoundAssumption DEF WindowInStep, EdgesInStep, ChannelInStep, MayTransmit
<1>4. NewRlcPdu(entries).nr = sentPdus /\ NewRlcPdu(entries).sn = Sn(sentPdus)
  BY <1>3 DEF NewRlcPdu
<1>5. txSn' = Sn(sentPdus')
  BY <1>1, <1>3, SnPlus
<1>6. ChannelInStep'
  <2> SUFFICES ASSUME NEW pdu \in channel'
               PROVE  /\ pdu.nr \in Nat
                      /\ pdu.sn = Sn(pdu.nr)
                      /\ pdu.nr < sentPdus'
                      /\ sentPdus' <= pdu.nr + MaxAhead
    BY <1>5 DEF ChannelInStep
  <2>1. CASE pdu \in channel
    <3>1. pdu.nr \in Nat /\ pdu.sn = Sn(pdu.nr) /\ pdu.nr < sentPdus
      BY <2>1 DEF WindowInStep, ChannelInStep
    <3> QED BY <1>1, <1>3, <2>1, <3>1
  <2>2. CASE pdu = NewRlcPdu(entries)
    BY <1>1, <1>3, <1>4, <2>2
  <2> QED BY <1>1, <2>1, <2>2
<1>7. EdgesInStep'
  <2>1. /\ sentPdus' \in Nat /\ received <= sentPdus' /\ sentPdus' <= reassembled + MaxGap
        /\ sentPdus' <= received + MaxAhead
    BY <1>1, <1>3
  <2> QED BY <1>1, <1>2, <2>1 DEF WindowInStep, EdgesInStep
<1>8. BufferInStep' /\ TimerInStep'
  BY <1>1, <1>2 DEF WindowInStep, BufferInStep, TimerInStep
<1> QED BY <1>6, <1>7, <1>8 DEF WindowInStep

LEMMA LoseKeepsWindow ==
  ASSUME WindowInStep, LosePdu
  PROVE  WindowInStep'
<1>1. /\ channel' \subseteq channel
      /\ UNCHANGED <<received, umTxVars, umRxVars>>
  BY DEF LosePdu
<1>2. UNCHANGED <<vrUr, vrUx, vrUh, rxBuffer, timerRunning, expectedSn, reassembled,
                  txSn, sentPdus, received>>
  BY <1>1 DEF umRxVars, umTxVars
<1>3. ChannelInStep' /\ EdgesInStep'
  BY <1>1, <1>2 DEF WindowInStep, ChannelInStep, EdgesInStep
<1>4. BufferInStep' /\ TimerInStep'
  BY <1>2 DEF WindowInStep, BufferInStep, TimerInStep
<1> QED BY <1>3, <1>4 DEF WindowInStep

\* The window is in step in every state.
LEMMA WindowStep ==
  ASSUME GapFits, WindowInStep, [UmNext]_umVars
  PROVE  WindowInStep'
<1>1. CASE TransmitPdcpPdu
  <2>1. UNCHANGED <<umRxVars, channel, received, txSn, sentPdus>>
    BY <1>1 DEF TransmitPdcpPdu
  <2> QED BY <2>1, TransmitterKeepsWindow
<1>2. CASE NotifyTxOpportunity
  BY <1>2, NotifyKeepsWindow
<1>3. CASE ExpireRbsTimer \/ WastedOpportunity
  <2>1. UNCHANGED <<umRxVars, channel, received, txSn, sentPdus>>
    BY <1>3 DEF ExpireRbsTimer, WastedOpportunity
  <2> QED BY <2>1, TransmitterKeepsWindow
<1>4. CASE ReceivePdu
  BY <1>4, ReceiveKeepsWindow
<1>5. CASE LosePdu
  BY <1>5, LoseKeepsWindow
<1>6. CASE ExpireReorderingTimer
  BY <1>6, ExpireKeepsWindow
<1>7. CASE UNCHANGED umVars
  <2>1. UNCHANGED <<umRxVars, channel, received, txSn, sentPdus>>
    BY <1>7 DEF umVars, umTxVars
  <2> QED BY <2>1, TransmitterKeepsWindow
<1> QED BY <1>1, <1>2, <1>3, <1>4, <1>5, <1>6, <1>7 DEF UmNext

LEMMA WindowAlways == ASSUME GapFits PROVE UmSpec => []WindowInStep
<1>1. WindowInStep /\ [UmNext]_umVars => WindowInStep'
  BY WindowStep
<1> QED BY <1>1, WindowInitially, PTL DEF UmSpec
-----------------------------------------------------------------------------
(* What the window gives.                                                  *)

\* A PDU in the reception buffer has a running t-Reordering that will take it
\* out, also where VR(UR) stops at the wrap of the sequence number.
THEOREM BufferedIsGuardedAlways == ASSUME GapFits PROVE UmSpec => []BufferedIsGuarded
<1>1. WindowInStep => BufferedIsGuarded
  <2> SUFFICES ASSUME WindowInStep, NEW sn \in DOMAIN rxBuffer
               PROVE  timerRunning
    BY DEF BufferedIsGuarded
  <2>1. /\ rxBuffer[sn].nr \in Nat /\ reassembled \in Nat /\ received \in Nat
        /\ reassembled <= rxBuffer[sn].nr /\ rxBuffer[sn].nr < received
    BY DEF WindowInStep, BufferInStep, EdgesInStep
  <2>2. reassembled < received
    BY <2>1
  <2> QED BY <2>2 DEF WindowInStep, TimerInStep
<1> QED BY <1>1, WindowAlways, PTL

\* No PDU stays in the reception buffer below the window, where nothing would
\* take it out.
THEOREM OutsideIsReassembledAlways == ASSUME GapFits PROVE UmSpec => []OutsideIsReassembled
<1>1. GapFits /\ WindowInStep => OutsideIsReassembled
  <2> SUFFICES ASSUME GapFits, WindowInStep, NEW sn \in DOMAIN rxBuffer
               PROVE  IsInsideReorderingWindow(sn, vrUh)
    BY DEF OutsideIsReassembled
  <2> DEFINE k == rxBuffer[sn].nr
  <2>1. k \in Nat /\ sn = Sn(k) /\ reassembled <= k /\ k < received /\ vrUh = Sn(received)
    BY DEF WindowInStep, BufferInStep, EdgesInStep
  <2> HIDE DEF k
  <2>2. received \in Nat /\ reassembled \in Nat /\ received <= reassembled + Window
    <3>1. /\ received \in Nat /\ reassembled \in Nat /\ sentPdus \in Nat
          /\ received <= sentPdus /\ sentPdus <= reassembled + Window
      BY ChannelNumbers
    <3> QED BY <3>1, SnConstants
  <2>3. Distance(sn, LowerEdge(vrUh)) = (k - received) + Window
    BY <2>1, <2>2, DistanceInWindow, SnConstants
  <2> QED BY <2>1, <2>2, <2>3, SnConstants DEF IsInsideReorderingWindow
<1> QED BY <1>1, WindowAlways, PTL

\* DoReceivePdu stops or moves t-Reordering only when every PDU below the old
\* VR(UX) has left the reception buffer.
THEOREM TimerMovesOnlyWhenPassedAlways ==
  ASSUME GapFits
  PROVE  UmSpec => TimerMovesOnlyWhenPassed
<1>1. ASSUME WindowInStep, WindowInStep', timerRunning, ReceivePdu,
             <<timerRunning, vrUx>>' # <<timerRunning, vrUx>>, NEW sn \in DOMAIN rxBuffer'
      PROVE  Distance(vrUx, LowerEdge(vrUh')) <= Distance(sn, LowerEdge(vrUh'))
  <2> DEFINE v == received'
             m == reassembled'
             k == rxBuffer'[sn].nr
  <2>1. PICK pdu \in channel :
          /\ received' = Max({received, pdu.nr + 1})
          /\ IF Discarded(pdu.sn) THEN UNCHANGED umRxVars ELSE PlacePdu(pdu)
          /\ UNCHANGED umTxVars
    BY <1>1 DEF ReceivePdu
  <2>2. PlacePdu(pdu)
    BY <1>1, <2>1 DEF umRxVars
  <2>3. StopsTimer(vrUr', vrUh')
    <3>1. /\ timerRunning' = ((timerRunning => StopsTimer(vrUr', vrUh')) => Waits(vrUr', vrUh'))
          /\ vrUx' = IF (timerRunning => StopsTimer(vrUr', vrUh')) /\ Waits(vrUr', vrUh')
                     THEN vrUh' ELSE vrUx
      BY <2>2 DEF PlacePdu
    <3>2. CASE ~ StopsTimer(vrUr', vrUh')
      <4>1. timerRunning' = TRUE /\ vrUx' = vrUx
        BY <1>1, <3>1, <3>2
      <4>2. timerRunning = TRUE
        BY <1>1 DEF WindowInStep, TimerInStep
      <4> QED BY <1>1, <4>1, <4>2
    <3> QED BY <3>2
  <2>4. vrUr' = Sn(m) /\ vrUh' = Sn(v) /\ m \in Nat /\ v \in Nat /\ m <= v
    BY <1>1 DEF WindowInStep, EdgesInStep
  <2>5. k \in Nat /\ sn = Sn(k) /\ m <= k /\ k < v
    BY <1>1 DEF WindowInStep, BufferInStep
  <2>6. PICK ux \in reassembled + 1 .. received : vrUx = Sn(ux)
    BY <1>1 DEF WindowInStep, TimerInStep
  <2>7. ux \in Nat /\ v - Window <= ux /\ ux <= v /\ v - Window <= m
    <3>1. /\ received \in Nat /\ reassembled \in Nat /\ sentPdus \in Nat
          /\ received <= sentPdus /\ sentPdus <= reassembled + Window
          /\ pdu.nr \in Nat /\ pdu.nr < sentPdus
      BY <1>1, ChannelNumbers
    <3>2. v <= sentPdus /\ received <= v
      <4>1. received' = IF received < pdu.nr + 1 THEN pdu.nr + 1 ELSE received
        BY <2>1, <3>1, MaxOfTwo
      <4> QED BY <3>1, <4>1
    <3>3. sentPdus' <= m + MaxGap /\ v <= sentPdus' /\ sentPdus' \in Nat
      BY <1>1 DEF WindowInStep, EdgesInStep
    <3>4. MaxGap <= Window /\ MaxGap \in Nat
      BY UmBoundAssumption DEF GapFits
    <3> HIDE DEF v, m
    <3> QED BY <2>4, <2>6, <3>1, <3>2, <3>3, <3>4, SnConstants
  <2> HIDE DEF v, m, k
  <2>8. ux <= m
    BY <2>3, <2>4, <2>6, <2>7, StopsTimerNumbers
  <2>9. Distance(Sn(ux), LowerEdge(Sn(v))) = (ux - v) + Window
    BY <2>4, <2>7, DistanceInWindow, SnConstants
  <2>10. Distance(Sn(k), LowerEdge(Sn(v))) = (k - v) + Window
    BY <2>4, <2>5, <2>7, DistanceInWindow, SnConstants
  <2> QED BY <2>4, <2>5, <2>6, <2>7, <2>8, <2>9, <2>10, SnConstants
<1>2. WindowInStep /\ WindowInStep' /\ [UmNext]_umVars =>
        [timerRunning /\ ReceivePdu /\ <<timerRunning, vrUx>>' # <<timerRunning, vrUx>>
           => LET base == LowerEdge(vrUh')
              IN  \A sn \in DOMAIN rxBuffer' :
                    Distance(vrUx, base) <= Window
                      => Distance(vrUx, base) <= Distance(sn, base)]_umVars
  BY <1>1
<1> QED BY <1>2, WindowAlways, PTL DEF UmSpec, TimerMovesOnlyWhenPassed

\* Only a grant too small to send anything makes the MAC forget data that wait
\* with no report scheduled, and the next SDU of the PDCP ends it.
THEOREM OnlyStingyGrantForgetsAlways == UmSpec => OnlyStingyGrantForgets
<1>1. ASSUME [UmNext]_umVars, Forgotten'
      PROVE  WastedOpportunity \/ (Forgotten /\ ~TransmitPdcpPdu)
  <2>1. ~TransmitPdcpPdu
    <3>1. TransmitPdcpPdu => macKnows' = (txBuffer' # << >>)
      BY DEF TransmitPdcpPdu, ReportBufferStatus
    <3> QED BY <1>1, <3>1 DEF Forgotten
  <2>2. ~NotifyTxOpportunity
    <3>1. NotifyTxOpportunity => rbsTimer' = (rbsTimer \/ txBuffer' # << >>)
      BY DEF NotifyTxOpportunity
    <3> QED BY <1>1, <3>1 DEF Forgotten
  <2>3. ~ExpireRbsTimer
    <3>1. ExpireRbsTimer => rbsTimer' = (txBuffer # << >>) /\ txBuffer' = txBuffer
      BY DEF ExpireRbsTimer
    <3> QED BY <1>1, <3>1 DEF Forgotten
  <2>4. ReceivePdu \/ LosePdu \/ ExpireReorderingTimer \/ UNCHANGED umVars => UNCHANGED umTxVars
    BY DEF ReceivePdu, LosePdu, ExpireReorderingTimer, umVars
  <2>5. UNCHANGED umTxVars => Forgotten
    BY <1>1 DEF Forgotten, umTxVars
  <2> QED BY <1>1, <2>1, <2>2, <2>3, <2>4, <2>5 DEF UmNext
<1>2. [UmNext]_umVars => [Forgotten' => WastedOpportunity \/ (Forgotten /\ ~TransmitPdcpPdu)]_umVars
  BY <1>1
<1> QED BY <1>2, PTL DEF UmSpec, OnlyStingyGrantForgets

=============================================================================
