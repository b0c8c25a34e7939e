----------------------- MODULE LteRlcUmStream_proofs -----------------------
(***************************************************************************)
(* The data of LteRlcUm, for every size of the SDUs, of the grants and of  *)
(* the sequence number space, as long as the gaps in a window of PDUs are  *)
(* bounded (GapFits).  The stream of bytes is cut into the fields of PDUs  *)
(* and joined again: what is under way, stored, kept and waiting are       *)
(* pieces of it that fit, one after the other (StreamInStep), and every    *)
(* SDU is in one of them, has gone up or was missed (AllAccounted).        *)
(***************************************************************************)
EXTENDS LteRlcUm_proofs

-----------------------------------------------------------------------------
(* Parts of SDUs: the data of a field of an RLC PDU.                       *)

Byte == Nat \X Nat \X Nat

\* The bytes a .. b of the SDU number i of n bytes.
Part(i, n, a, b) == [k \in 1 .. (b - a) + 1 |-> <<i, (a + k) - 1, n>>]

Idx(field) == field[1][1]
From(field) == field[1][2]
Upto(field) == field[Len(field)][2]
Size(field) == field[1][3]

IsPart(field) ==
  \E i \in Nat, n \in SduSizes, a \in Nat, b \in Nat :
    1 <= a /\ a <= b /\ b <= n /\ field = Part(i, n, a, b)

\* The two have the same SDU, and end with the same byte of it.
SameEnd(f, g) == Idx(f) = Idx(g) /\ Size(f) = Size(g) /\ Upto(f) = Upto(g)
\* They start with the same byte.
SameStart(f, g) == Idx(f) = Idx(g) /\ Size(f) = Size(g) /\ From(f) = From(g)

LEMMA PartOf ==
  ASSUME NEW i \in Nat, NEW n \in SduSizes, NEW a \in Nat, NEW b \in Nat,
         1 <= a, a <= b, b <= n
  PROVE  /\ IsPart(Part(i, n, a, b))
         /\ Part(i, n, a, b) \in Seq(Byte)
         /\ Part(i, n, a, b) # << >>
         /\ Len(Part(i, n, a, b)) = (b - a) + 1
         /\ Idx(Part(i, n, a, b)) = i
         /\ Size(Part(i, n, a, b)) = n
         /\ From(Part(i, n, a, b)) = a
         /\ Upto(Part(i, n, a, b)) = b
<1>1. n \in Nat
  BY UmBoundAssumption
<1>2. IsPart(Part(i, n, a, b))
  BY DEF IsPart
<1> DEFINE l == (b - a) + 1
<1>3. l \in Nat /\ 1 <= l /\ (a + 1) - 1 = a /\ (a + l) - 1 = b
  BY <1>1
<1>4. \A k \in 1 .. l : (a + k) - 1 \in Nat
  BY <1>1
<1> DEFINE p == Part(i, n, a, b)
<1>5. p = [k \in 1 .. l |-> <<i, (a + k) - 1, n>>]
  BY DEF Part
<1> HIDE DEF l, p
<1>6. \A k \in 1 .. l : <<i, (a + k) - 1, n>> \in Byte
  BY <1>1, <1>4 DEF Byte
<1>7. p \in Seq(Byte) /\ Len(p) = l /\ p # << >>
  <2>1. p \in [1 .. l -> Byte]
    BY <1>5, <1>6
  <2>2. p \in Seq(Byte) /\ Len(p) = l
    BY <1>3, <2>1
  <2> QED BY <1>3, <2>2
<1>8. p[1] = <<i, a, n>> /\ p[l] = <<i, b, n>>
  <2>1. 1 \in 1 .. l /\ l \in 1 .. l
    BY <1>3
  <2> QED BY <1>3, <1>5, <2>1
<1> QED BY <1>2, <1>7, <1>8 DEF p, l, Idx, From, Upto, Size

LEMMA PartFacts ==
  ASSUME NEW f, IsPart(f)
  PROVE  /\ Idx(f) \in Nat /\ Size(f) \in SduSizes /\ Size(f) \in Nat
         /\ From(f) \in Nat /\ Upto(f) \in Nat
         /\ 1 <= From(f) /\ From(f) <= Upto(f) /\ Upto(f) <= Size(f)
         /\ f = Part(Idx(f), Size(f), From(f), Upto(f))
         /\ f \in Seq(Byte) /\ f # << >>
         /\ Len(f) = (Upto(f) - From(f)) + 1
<1>1. PICK i \in Nat, n \in SduSizes, a \in Nat, b \in Nat :
        1 <= a /\ a <= b /\ b <= n /\ f = Part(i, n, a, b)
  BY DEF IsPart
<1>2. n \in Nat
  BY UmBoundAssumption
<1> DEFINE p == Part(i, n, a, b)
<1>3. /\ Idx(p) = i /\ Size(p) = n /\ From(p) = a /\ Upto(p) = b
      /\ p \in Seq(Byte) /\ p # << >> /\ Len(p) = (b - a) + 1
  <2>1. 1 <= a /\ a <= b /\ b <= n
    BY <1>1
  <2> QED BY <2>1, PartOf
<1>4. f = p
  BY <1>1
<1>5. f = Part(Idx(f), Size(f), From(f), Upto(f))
  <2>1. Idx(f) = i /\ Size(f) = n /\ From(f) = a /\ Upto(f) = b
    BY <1>3, <1>4
  <2> QED BY <1>1, <2>1
<1> HIDE DEF p
<1> QED BY <1>1, <1>2, <1>3, <1>4, <1>5

\* A whole part is its SDU.
LEMMA WholePart ==
  ASSUME NEW f, IsPart(f), From(f) = 1, Upto(f) = Size(f)
  PROVE  f = Sdu(Idx(f), Size(f))
<1> DEFINE i == Idx(f)
           n == Size(f)
<1>1. f = Part(i, n, 1, n) /\ n \in Nat
  BY PartFacts
<1> HIDE DEF i, n
<1>2. (n - 1) + 1 = n /\ \A k \in 1 .. n : (1 + k) - 1 = k
  BY <1>1
<1>3. Part(i, n, 1, n) = Sdu(i, n)
  BY <1>1, <1>2 DEF Part, Sdu
<1> QED BY <1>1, <1>3 DEF i, n

LEMMA SduIsPart ==
  ASSUME NEW i \in Nat, NEW n \in SduSizes
  PROVE  /\ IsPart(Sdu(i, n))
         /\ Idx(Sdu(i, n)) = i /\ Size(Sdu(i, n)) = n
         /\ From(Sdu(i, n)) = 1 /\ Upto(Sdu(i, n)) = n
<1>1. n \in Nat /\ 1 <= n
  BY UmBoundAssumption
<1>2. (n - 1) + 1 = n /\ \A k \in 1 .. n : (1 + k) - 1 = k
  BY <1>1
<1>3. Part(i, n, 1, n) = Sdu(i, n)
  BY <1>1, <1>2 DEF Part, Sdu
<1>4. n <= n
  BY <1>1
<1> QED BY <1>1, <1>3, <1>4, PartOf

LEMMA JoinedFacts ==
  ASSUME NEW S, NEW s \in Seq(S), NEW t \in Seq(S)
  PROVE  /\ s \o t \in Seq(S) /\ Len(s \o t) = Len(s) + Len(t)
         /\ \A k \in 1 .. Len(s) + Len(t) : (s \o t)[k] = IF k <= Len(s) THEN s[k] ELSE t[k - Len(s)]
OBVIOUS

\* Two parts of an SDU that meet are a part of it.
LEMMA PartsJoined ==
  ASSUME NEW f, NEW g, IsPart(f), IsPart(g),
         Idx(f) = Idx(g), Size(f) = Size(g), From(g) = Upto(f) + 1
  PROVE  IsPart(f \o g) /\ SameStart(f \o g, f) /\ SameEnd(f \o g, g)
<1> DEFINE i == Idx(f)
           n == Size(f)
           a == From(f)
           b == Upto(f)
           c == Upto(g)
           p == Part(i, n, a, c)
<1>1. /\ i \in Nat /\ n \in SduSizes /\ n \in Nat /\ a \in Nat /\ b \in Nat /\ c \in Nat
      /\ 1 <= a /\ a <= b /\ b < c /\ c <= n
      /\ f = Part(i, n, a, b) /\ g = Part(i, n, b + 1, c)
      /\ f \in Seq(Byte) /\ g \in Seq(Byte)
      /\ Len(f) = (b - a) + 1 /\ Len(g) = (c - (b + 1)) + 1
  BY PartFacts
<1> HIDE DEF i, n, a, b, c
<1>2. p \in Seq(Byte) /\ Len(p) = (c - a) + 1 /\ IsPart(p)
      /\ Idx(p) = i /\ Size(p) = n /\ From(p) = a /\ Upto(p) = c
  BY <1>1, PartOf
<1>3. ASSUME NEW k \in 1 .. (c - a) + 1
      PROVE  (f \o g)[k] = p[k]
  <2>1. p[k] = <<i, (a + k) - 1, n>>
    BY DEF Part
  <2>2. CASE k <= (b - a) + 1
    <3>1. k \in 1 .. (b - a) + 1
      BY <1>1, <2>2
    <3>2. f[k] = <<i, (a + k) - 1, n>>
      BY <1>1, <3>1 DEF Part
    <3>3. (f \o g)[k] = f[k]
      BY <1>1, <3>1
    <3> QED BY <2>1, <3>2, <3>3
  <2>3. CASE ~ (k <= (b - a) + 1)
    <3> DEFINE l == k - ((b - a) + 1)
    <3>1. l \in 1 .. (c - (b + 1)) + 1 /\ ((b + 1) + l) - 1 = (a + k) - 1
      BY <1>1, <2>3
    <3>2. (f \o g)[k] = g[l]
      <4>1. Len(f) + Len(g) = (c - a) + 1 /\ ~ (k <= Len(f)) /\ k - Len(f) = l
        BY <1>1, <2>3
      <4>2. f \in Seq(Byte) /\ g \in Seq(Byte) /\ k \in 1 .. Len(f) + Len(g)
        BY <1>1, <4>1
      <4> HIDE DEF l
      <4>3. (f \o g)[k] = g[k - Len(f)]
        BY <4>1, <4>2
      <4> QED BY <4>1, <4>3
    <3> HIDE DEF l
    <3>3. g[l] = <<i, ((b + 1) + l) - 1, n>>
      BY <1>1, <3>1 DEF Part
    <3> QED BY <2>1, <3>1, <3>2, <3>3
  <2> QED BY <2>2, <2>3
<1>4. f \o g = p
  <2>1. f \o g \in Seq(Byte) /\ Len(f \o g) = (c - a) + 1
    BY <1>1
  <2> DEFINE s == f \o g
  <2> HIDE DEF p, s
  <2>2. s \in Seq(Byte) /\ p \in Seq(Byte) /\ Len(s) = Len(p)
        /\ \A k \in 1 .. Len(s) : s[k] = p[k]
    BY <1>2, <1>3, <2>1 DEF s
  <2>3. s = p
    BY <2>2
  <2> QED BY <2>3 DEF s
<1> QED BY <1>2, <1>4 DEF SameStart, SameEnd, i, n, a, c

\* A part is cut into two parts of its SDU.
LEMMA PartCut ==
  ASSUME NEW f, IsPart(f), NEW c \in Nat, 1 <= c, c < Len(f)
  PROVE  /\ IsPart(SubSeq(f, 1, c)) /\ SameStart(SubSeq(f, 1, c), f)
         /\ IsPart(SubSeq(f, c + 1, Len(f))) /\ SameEnd(SubSeq(f, c + 1, Len(f)), f)
         /\ From(SubSeq(f, c + 1, Len(f))) = Upto(SubSeq(f, 1, c)) + 1
<1> DEFINE i == Idx(f)
           n == Size(f)
           a == From(f)
           b == Upto(f)
           m == (a + c) - 1
           p == Part(i, n, a, m)
           q == Part(i, n, m + 1, b)
<1>1. /\ i \in Nat /\ n \in SduSizes /\ n \in Nat /\ a \in Nat /\ b \in Nat
      /\ 1 <= a /\ a <= b /\ b <= n
      /\ f = Part(i, n, a, b) /\ f \in Seq(Byte) /\ Len(f) = (b - a) + 1
  BY PartFacts
<1> HIDE DEF i, n, a, b
<1>2. m \in Nat /\ m + 1 \in Nat /\ a <= m /\ m + 1 <= b /\ m <= n /\ c = (m - a) + 1
      /\ Len(f) - c = (b - (m + 1)) + 1 /\ 1 <= m + 1
  BY <1>1
<1>3. /\ p \in Seq(Byte) /\ Len(p) = c /\ IsPart(p)
      /\ Idx(p) = i /\ Size(p) = n /\ From(p) = a /\ Upto(p) = m
  <2> HIDE DEF m
  <2>1. Len(p) = (m - a) + 1
    BY <1>1, <1>2, PartOf
  <2> QED BY <1>1, <1>2, <2>1, PartOf
<1>4. /\ q \in Seq(Byte) /\ Len(q) = Len(f) - c /\ IsPart(q)
      /\ Idx(q) = i /\ Size(q) = n /\ From(q) = m + 1 /\ Upto(q) = b
  <2> HIDE DEF m
  <2>1. Len(q) = (b - (m + 1)) + 1
    <3> DEFINE d == m + 1
    <3>1. d \in Nat /\ 1 <= d /\ d <= b
      BY <1>2
    <3> HIDE DEF d
    <3>2. Len(Part(i, n, d, b)) = (b - d) + 1
      BY <1>1, <3>1, PartOf
    <3> QED BY <3>2 DEF d
  <2> HIDE DEF q
  <2>2. Len(q) = Len(f) - c
    BY <1>2, <2>1
  <2> QED BY <1>1, <1>2, <2>2, PartOf DEF q
<1>5. SubSeq(f, 1, c) = p
  <2>1. SubSeq(f, 1, c) \in Seq(Byte) /\ Len(SubSeq(f, 1, c)) = c
    BY <1>1
  <2>2. ASSUME NEW k \in 1 .. c
        PROVE  SubSeq(f, 1, c)[k] = p[k]
    <3>1. SubSeq(f, 1, c)[k] = f[k]
      BY <1>1
    <3>2. f[k] = <<i, (a + k) - 1, n>>
      BY <1>1 DEF Part
    <3>3. p[k] = <<i, (a + k) - 1, n>>
      BY <1>1, <1>2 DEF Part
    <3> QED BY <3>1, <3>2, <3>3
  <2> HIDE DEF p
  <2> QED BY <1>3, <2>1, <2>2
<1>6. SubSeq(f, c + 1, Len(f)) = q
  <2> DEFINE s == SubSeq(f, c + 1, Len(f))
             l == Len(f) - c
  <2>1. s \in Seq(Byte) /\ Len(s) = l /\ l \in Nat
    BY <1>1
  <2>2. ASSUME NEW k \in 1 .. l
        PROVE  s[k] = q[k]
    <3>1. s[k] = f[c + k] /\ c + k \in 1 .. (b - a) + 1
      BY <1>1
    <3>2. f[c + k] = <<i, (a + (c + k)) - 1, n>>
      BY <1>1, <3>1 DEF Part
    <3>3. q[k] = <<i, ((m + 1) + k) - 1, n>>
      BY <1>1, <1>2 DEF Part
    <3>4. ((m + 1) + k) - 1 = (a + (c + k)) - 1
      BY <1>1
    <3> QED BY <3>1, <3>2, <3>3, <3>4
  <2> HIDE DEF q, s
  <2>3. s = q
    BY <1>4, <2>1, <2>2
  <2> QED BY <2>3 DEF s
<1> HIDE DEF p, q, m
<1> QED BY <1>3, <1>4, <1>5, <1>6 DEF SameStart, SameEnd, i, n, a, b
-----------------------------------------------------------------------------
(* The stream: the pieces of it that PDUs carry, by their numbers.         *)

\* g comes after f in the stream, and next after f.
Later(f, g) ==
  /\ Idx(f) <= Idx(g)
  /\ Idx(f) = Idx(g) => Upto(f) < From(g) /\ Size(f) = Size(g)
Follows(f, g) ==
  IF Upto(f) = Size(f) THEN From(g) = 1
  ELSE Idx(f) = Idx(g) /\ From(g) = Upto(f) + 1

\* The fields of a PDU, of different SDUs: only the first may lack the begin
\* of its SDU, and only the last the end.
Chain(fields) ==
  /\ fields \in Seq(Seq(Byte))
  /\ fields # << >>
  /\ \A k \in DOMAIN fields : /\ IsPart(fields[k])
                              /\ k > 1 => From(fields[k]) = 1
                              /\ k < Len(fields) => Upto(fields[k]) = Size(fields[k])
  /\ \A k, l \in DOMAIN fields : k < l => Idx(fields[k]) < Idx(fields[l])

FirstOf(p) == p.fields[1]
LastOf(p) == p.fields[Len(p.fields)]

\* The pieces from the number nr on come after the field.
Before(field, nr, pieces) ==
  \A q \in pieces : nr <= q.nr => Later(field, FirstOf(q))

\* The field ends the pieces before the number nr.  After the number end
\* nothing waits to be sent.
Continues(field, nr, pieces, end) ==
  /\ Before(field, nr, pieces)
  /\ \A q \in pieces : q.nr = nr => Follows(field, FirstOf(q))
  /\ nr = end => Upto(field) = Size(field)

\* The pieces are those of the first next SDUs.
PiecesFit(pieces, end, next) ==
  /\ next \in Nat
  /\ \A p \in pieces : /\ p.nr \in Nat
                       /\ Chain(p.fields)
                       /\ Idx(LastOf(p)) < next
                       /\ Continues(LastOf(p), p.nr + 1, pieces, end)
  /\ \A p, q \in pieces : p.nr = q.nr => p = q

\* What waits to be sent, as the piece of the next PDU, and the number of that
\* PDU when nothing waits.
TxOf(nr, fields) == IF fields = << >> THEN {} ELSE {[nr |-> nr, fields |-> fields]}
EndOf(nr, fields) == IF fields = << >> THEN nr ELSE -1

\* Of two streams, what comes before the number nr of the one comes before it
\* in the other.
CarriesOver(pieces, end, pieces2, end2, next, nr) ==
  \A f : \A k \in Nat :
    IsPart(f) /\ Idx(f) < next /\ k <= nr =>
      /\ Before(f, k, pieces) => Before(f, k, pieces2)
      /\ Continues(f, k, pieces, end) => Continues(f, k, pieces2, end2)

LEMMA SameEndSameNext ==
  ASSUME NEW f, NEW g, SameEnd(f, g), NEW nr, NEW pieces, NEW end
  PROVE  /\ Before(g, nr, pieces) => Before(f, nr, pieces)
         /\ Continues(g, nr, pieces, end) => Continues(f, nr, pieces, end)
BY DEF SameEnd, Before, Continues, Later, Follows

LEMMA ChainFacts ==
  ASSUME NEW fields, Chain(fields)
  PROVE  /\ Len(fields) \in Nat /\ 1 <= Len(fields)
         /\ DOMAIN fields = 1 .. Len(fields)
         /\ IsPart(fields[1]) /\ IsPart(fields[Len(fields)])
         /\ \A k \in DOMAIN fields : /\ Idx(fields[1]) <= Idx(fields[k])
                                     /\ Idx(fields[k]) <= Idx(fields[Len(fields)])
<1> DEFINE n == Len(fields)
<1>1. n \in Nat /\ 1 <= n /\ DOMAIN fields = 1 .. n
  BY DEF Chain
<1>2. \A k \in DOMAIN fields : IsPart(fields[k])
  BY DEF Chain
<1>3. \A k, l \in DOMAIN fields : k < l => Idx(fields[k]) < Idx(fields[l])
  BY DEF Chain
<1> HIDE DEF n
<1>4. 1 \in DOMAIN fields /\ n \in DOMAIN fields
  BY <1>1
<1>5. \A k \in DOMAIN fields : Idx(fields[k]) \in Nat
  BY <1>2, PartFacts
<1>6. \A k \in DOMAIN fields : /\ k = 1 \/ 1 < k
                               /\ k = n \/ k < n
  BY <1>1
<1>7. \A k \in DOMAIN fields : /\ Idx(fields[1]) <= Idx(fields[k])
                               /\ Idx(fields[k]) <= Idx(fields[n])
  BY <1>3, <1>4, <1>5, <1>6
<1> QED BY <1>1, <1>2, <1>4, <1>7 DEF n

LEMMA LaterParts ==
  ASSUME NEW f, NEW g, IsPart(f), IsPart(g), Idx(f) < Idx(g)
  PROVE  Later(f, g)
BY PartFacts DEF Later

\* Every field of a piece comes before the pieces that follow.
LEMMA FieldsComeBefore ==
  ASSUME NEW pieces, NEW end, NEW next, PiecesFit(pieces, end, next),
         NEW p \in pieces, NEW k \in DOMAIN p.fields
  PROVE  Before(p.fields[k], p.nr + 1, pieces)
<1> DEFINE n == Len(p.fields)
           f == p.fields[k]
           g == p.fields[n]
<1>1. Chain(p.fields) /\ p.nr \in Nat /\ Before(g, p.nr + 1, pieces)
  BY DEF PiecesFit, Continues, LastOf
<1>2. n \in Nat /\ 1 <= n /\ DOMAIN p.fields = 1 .. n
  BY <1>1, ChainFacts
<1>3. CASE k = n
  BY <1>1, <1>3
<1>4. CASE k # n
  <2>1. n \in DOMAIN p.fields /\ k < n
    BY <1>2, <1>4
  <2>2. Idx(f) < Idx(g) /\ IsPart(f) /\ IsPart(g)
    BY <1>1, <2>1 DEF Chain
  <2>3. ASSUME NEW q \in pieces, p.nr + 1 <= q.nr
        PROVE  Later(f, FirstOf(q))
    <3> DEFINE h == FirstOf(q)
    <3>1. IsPart(h)
      BY ChainFacts DEF PiecesFit, FirstOf
    <3>2. Later(g, h)
      BY <1>1, <2>3 DEF Before
    <3> HIDE DEF f, g, h
    <3>3. Idx(f) < Idx(h)
      <4>1. Idx(f) \in Nat /\ Idx(g) \in Nat /\ Idx(h) \in Nat
        BY <2>2, <3>1, PartFacts
      <4> QED BY <2>2, <3>2, <4>1 DEF Later
    <3> QED BY <2>2, <3>1, <3>3, LaterParts DEF h
  <2> QED BY <2>3 DEF Before
<1> QED BY <1>3, <1>4

\* Pieces that are gone leave a stream.
LEMMA FewerPieces ==
  ASSUME NEW pieces, NEW end, NEW next, PiecesFit(pieces, end, next),
         NEW pieces2 \in SUBSET pieces, NEW nr
  PROVE  /\ PiecesFit(pieces2, end, next)
         /\ CarriesOver(pieces, end, pieces2, end, next, nr)
<1>1. ASSUME NEW f, NEW k
      PROVE  /\ Before(f, k, pieces) => Before(f, k, pieces2)
             /\ Continues(f, k, pieces, end) => Continues(f, k, pieces2, end)
  BY DEF Before, Continues
<1>2. PiecesFit(pieces2, end, next)
  BY <1>1 DEF PiecesFit
<1>3. CarriesOver(pieces, end, pieces2, end, next, nr)
  BY <1>1 DEF CarriesOver
<1> QED BY <1>2, <1>3
-----------------------------------------------------------------------------
(* What the transmitter does to the stream.                                *)

\* An SDU that is queued is added to the piece that waits to be sent.
LEMMA ChainAppended ==
  ASSUME NEW fields, fields = << >> \/ Chain(fields),
         NEW g, IsPart(g), From(g) = 1,
         \A k \in DOMAIN fields : Upto(fields[k]) = Size(fields[k]) /\ Idx(fields[k]) < Idx(g)
  PROVE  /\ Chain(Append(fields, g))
         /\ Append(fields, g)[Len(Append(fields, g))] = g
         /\ Append(fields, g)[1] = IF fields = << >> THEN g ELSE fields[1]
<1> DEFINE s == Append(fields, g)
           n == Len(fields)
<1>1. fields \in Seq(Seq(Byte)) /\ g \in Seq(Byte) /\ n \in Nat /\ DOMAIN fields = 1 .. n
  <2>1. fields \in Seq(Seq(Byte))
    <3>1. << >> \in Seq(Seq(Byte))
      OBVIOUS
    <3>2. Chain(fields) => fields \in Seq(Seq(Byte))
      BY DEF Chain
    <3> QED BY <3>1, <3>2
  <2>2. g \in Seq(Byte)
    BY PartFacts
  <2> QED BY <2>1, <2>2
<1>2. /\ s \in Seq(Seq(Byte)) /\ s # << >> /\ Len(s) = n + 1
      /\ \A k \in 1 .. n : s[k] = fields[k]
      /\ s[n + 1] = g
      /\ DOMAIN s = 1 .. n + 1
  BY <1>1
<1>3. n = 0 <=> fields = << >>
  BY <1>1
<1> HIDE DEF s, n
<1>4. ASSUME NEW k \in DOMAIN s
      PROVE  /\ IsPart(s[k])
             /\ k > 1 => From(s[k]) = 1
             /\ k < Len(s) => Upto(s[k]) = Size(s[k])
  <2>1. CASE k \in 1 .. n
    <3>1. fields # << >> /\ k \in DOMAIN fields
      BY <1>1, <1>3, <2>1
    <3> QED BY <1>2, <2>1, <3>1 DEF Chain
  <2>2. CASE k = n + 1
    BY <1>1, <1>2, <2>2
  <2> QED BY <1>1, <1>2, <2>1, <2>2
<1>5. ASSUME NEW k \in DOMAIN s, NEW l \in DOMAIN s, k < l
      PROVE  Idx(s[k]) < Idx(s[l])
  <2>1. k \in 1 .. n /\ k \in DOMAIN fields /\ fields # << >>
    BY <1>1, <1>2, <1>3, <1>5
  <2>2. CASE l \in 1 .. n
    <3>1. Idx(fields[k]) < Idx(fields[l])
      BY <1>1, <1>5, <2>1, <2>2 DEF Chain
    <3> QED BY <1>2, <2>1, <2>2, <3>1
  <2>3. CASE l = n + 1
    BY <1>2, <2>1, <2>3
  <2> QED BY <1>1, <1>2, <2>2, <2>3
<1>6. Chain(s)
  BY <1>2, <1>4, <1>5 DEF Chain
<1>7. s[1] = IF fields = << >> THEN g ELSE fields[1]
  BY <1>1, <1>2, <1>3
<1> QED BY <1>2, <1>6, <1>7 DEF s

LEMMA SduAppended ==
  ASSUME NEW sent, NEW nr \in Nat, NEW fields, NEW next, NEW n \in SduSizes,
         \A p \in sent : p.nr < nr,
         \A k \in DOMAIN fields : Upto(fields[k]) = Size(fields[k]),
         fields = << >> => DOMAIN fields = {},
         PiecesFit(sent \union TxOf(nr, fields), EndOf(nr, fields), next)
  PROVE  LET fields2 == Append(fields, Sdu(next, n))
         IN  /\ PiecesFit(sent \union TxOf(nr, fields2), EndOf(nr, fields2), next + 1)
             /\ CarriesOver(sent \union TxOf(nr, fields), EndOf(nr, fields),
                            sent \union TxOf(nr, fields2), EndOf(nr, fields2), next, nr)
<1> DEFINE g == Sdu(next, n)
           fields2 == Append(fields, g)
           old == [nr |-> nr, fields |-> fields]
           new == [nr |-> nr, fields |-> fields2]
           pieces == sent \union TxOf(nr, fields)
           pieces2 == sent \union TxOf(nr, fields2)
           end == EndOf(nr, fields)
<1>1. next \in Nat /\ IsPart(g) /\ Idx(g) = next /\ From(g) = 1
  BY SduIsPart DEF PiecesFit
<1> HIDE DEF g
<1>2. fields # << >> => old \in pieces
  BY DEF TxOf
<1>3. fields = << >> \/ Chain(fields)
  BY <1>2 DEF PiecesFit
<1>4. ASSUME NEW k \in DOMAIN fields
      PROVE  Idx(fields[k]) < Idx(g)
  <2>1. Chain(fields) /\ Idx(fields[Len(fields)]) < next
    BY <1>2, <1>3 DEF PiecesFit, LastOf
  <2>2. Idx(fields[k]) <= Idx(fields[Len(fields)]) /\ IsPart(fields[k]) /\ IsPart(fields[Len(fields)])
    BY <2>1, ChainFacts DEF Chain
  <2>3. Idx(fields[k]) \in Nat /\ Idx(fields[Len(fields)]) \in Nat
    BY <2>2, PartFacts
  <2> QED BY <1>1, <2>1, <2>2, <2>3
<1>5. /\ Chain(fields2) /\ fields2 # << >>
      /\ fields2[Len(fields2)] = g
      /\ fields2[1] = IF fields = << >> THEN g ELSE fields[1]
  <2>1. Chain(fields2) /\ fields2[Len(fields2)] = g
        /\ fields2[1] = IF fields = << >> THEN g ELSE fields[1]
    BY <1>1, <1>3, <1>4, ChainAppended
  <2> QED BY <2>1 DEF Chain
<1> HIDE DEF fields2
<1>6. pieces2 = sent \union {new} /\ EndOf(nr, fields2) = -1
  BY <1>5 DEF TxOf, EndOf
<1> HIDE DEF pieces2
<1>7. FirstOf(new) = fields2[1] /\ LastOf(new) = g /\ new.nr = nr /\ new.fields = fields2
      /\ FirstOf(old) = fields[1] /\ old.nr = nr
  BY <1>5 DEF FirstOf, LastOf
<1> HIDE DEF old, new
<1>8. ASSUME NEW f, NEW k \in Nat, IsPart(f), Idx(f) < next, k <= nr
      PROVE  /\ Before(f, k, pieces) => Before(f, k, pieces2)
             /\ Continues(f, k, pieces, end) => Continues(f, k, pieces2, -1)
  <2>1. ASSUME Before(f, k, pieces)
        PROVE  Before(f, k, pieces2)
    <3>1. CASE fields = << >>
      <4>1. Later(f, FirstOf(new))
        BY <1>1, <1>5, <1>7, <1>8, <3>1, LaterParts
      <4> QED BY <1>6, <2>1, <4>1 DEF Before
    <3>2. CASE fields # << >>
      <4>1. Later(f, FirstOf(new))
        BY <1>2, <1>5, <1>7, <1>8, <2>1, <3>2 DEF Before
      <4> QED BY <1>6, <2>1, <4>1 DEF Before
    <3> QED BY <3>1, <3>2
  <2>2. ASSUME Continues(f, k, pieces, end)
        PROVE  Continues(f, k, pieces2, -1)
    <3>1. ASSUME k = nr
          PROVE  Follows(f, FirstOf(new))
      <4>1. CASE fields = << >>
        <5>1. Upto(f) = Size(f)
          BY <2>2, <3>1, <4>1 DEF Continues, EndOf
        <5> QED BY <1>1, <1>5, <1>7, <4>1, <5>1 DEF Follows
      <4>2. CASE fields # << >>
        BY <1>2, <1>5, <1>7, <2>2, <3>1, <4>2 DEF Continues
      <4> QED BY <4>1, <4>2
    <3>2. Before(f, k, pieces2)
      BY <2>1, <2>2 DEF Continues
    <3>3. \A q \in pieces2 : q.nr = k => Follows(f, FirstOf(q))
      BY <1>6, <1>7, <2>2, <3>1 DEF Continues
    <3>4. k # -1
      OBVIOUS
    <3> QED BY <3>2, <3>3, <3>4 DEF Continues
  <2> QED BY <2>1, <2>2
<1>9. CarriesOver(pieces, end, pieces2, -1, next, nr)
  BY <1>8 DEF CarriesOver
<1>10. \A p \in sent : p.nr \in Nat /\ p.nr < nr
  BY DEF PiecesFit
<1>11. ASSUME NEW p \in sent
       PROVE  /\ p.nr \in Nat
              /\ Chain(p.fields)
              /\ Idx(LastOf(p)) < next + 1
              /\ Continues(LastOf(p), p.nr + 1, pieces2, -1)
  <2>1. p \in pieces
    OBVIOUS
  <2>2. p.nr \in Nat /\ Chain(p.fields) /\ Idx(LastOf(p)) < next
        /\ Continues(LastOf(p), p.nr + 1, pieces, end)
    BY <2>1 DEF PiecesFit
  <2>3. IsPart(LastOf(p)) /\ Idx(LastOf(p)) \in Nat
    BY <2>2, ChainFacts, PartFacts DEF LastOf
  <2>4. p.nr + 1 \in Nat /\ p.nr + 1 <= nr
    BY <1>10, <2>2
  <2> HIDE DEF pieces, end
  <2> QED BY <1>1, <1>8, <2>2, <2>3, <2>4
<1>12. /\ new.nr \in Nat
       /\ Chain(new.fields)
       /\ Idx(LastOf(new)) < next + 1
       /\ Continues(LastOf(new), new.nr + 1, pieces2, -1)
  <2>1. \A q \in pieces2 : ~ (nr + 1 <= q.nr)
    BY <1>6, <1>7, <1>10
  <2>2. \A q \in pieces2 : q.nr # nr + 1
    BY <1>6, <1>7, <1>10
  <2>3. nr + 1 # -1
    OBVIOUS
  <2>4. Continues(LastOf(new), nr + 1, pieces2, -1)
    BY <2>1, <2>2, <2>3 DEF Continues, Before
  <2> QED BY <1>1, <1>5, <1>7, <2>4
<1>13. \A p, q \in pieces2 : p.nr = q.nr => p = q
  <2>1. \A p, q \in sent : p.nr = q.nr => p = q
    BY DEF PiecesFit
  <2> QED BY <1>6, <1>7, <1>10, <2>1
<1>14. PiecesFit(pieces2, -1, next + 1)
  <2>1. next + 1 \in Nat
    BY <1>1
  <2>2. \A p \in pieces2 : /\ p.nr \in Nat
                           /\ Chain(p.fields)
                           /\ Idx(LastOf(p)) < next + 1
                           /\ Continues(LastOf(p), p.nr + 1, pieces2, -1)
    BY <1>6, <1>11, <1>12
  <2> QED BY <1>13, <2>1, <2>2 DEF PiecesFit
<1> QED BY <1>6, <1>9, <1>14 DEF g, fields2, pieces2

\* The fields that wait to be sent are split into those of a PDU and those
\* that are given back.
IsSplit(fields, a, b) ==
  /\ Chain(a)
  /\ SameStart(a[1], fields[1])
  /\ b = << >> => SameEnd(a[Len(a)], fields[Len(fields)])
  /\ b # << >> => /\ Chain(b)
                  /\ SameEnd(b[Len(b)], fields[Len(fields)])
                  /\ Later(a[Len(a)], b[1])
                  /\ Follows(a[Len(a)], b[1])
                  /\ From(b[1]) > 1 => Idx(b[1]) = Idx(a[Len(a)])
  /\ Upto(a[Len(a)]) < Size(a[Len(a)]) => b # << >>
  /\ \A k \in DOMAIN b : Upto(b[k]) = Size(b[k])
  /\ SdusOf(fields) = SdusOf(a) \union SdusOf(b)

\* What comes before a piece comes before what follows the piece.
LEMMA LaterOverChain ==
  ASSUME NEW f, NEW fields, NEW g, IsPart(f), IsPart(g), Chain(fields),
         Later(f, fields[1]), Later(fields[Len(fields)], g)
  PROVE  Later(f, g)
<1> DEFINE n == Len(fields)
           h == fields[1]
           l == fields[n]
<1>1. /\ n \in Nat /\ 1 <= n /\ DOMAIN fields = 1 .. n /\ IsPart(h) /\ IsPart(l)
  BY ChainFacts
<1>2. CASE n = 1
  <2>1. l = h
    BY <1>2
  <2> HIDE DEF h, l
  <2>2. /\ Idx(f) \in Nat /\ Idx(g) \in Nat /\ Idx(h) \in Nat
        /\ Upto(f) \in Nat /\ From(h) \in Nat /\ Upto(h) \in Nat /\ From(g) \in Nat
        /\ From(h) <= Upto(h)
    BY <1>1, PartFacts
  <2>3. Later(f, h) /\ Later(h, g)
    BY <2>1 DEF h, l
  <2> QED BY <2>2, <2>3 DEF Later
<1>3. CASE n # 1
  <2>1. 1 \in DOMAIN fields /\ n \in DOMAIN fields /\ 1 < n
    BY <1>1, <1>3
  <2>2. Idx(h) < Idx(l)
    BY <2>1 DEF Chain
  <2> HIDE DEF h, l
  <2>3. /\ Idx(f) \in Nat /\ Idx(g) \in Nat /\ Idx(h) \in Nat /\ Idx(l) \in Nat
    BY <1>1, PartFacts
  <2>4. Idx(f) <= Idx(h) /\ Idx(l) <= Idx(g)
    BY DEF Later, h, l
  <2>5. Idx(f) < Idx(g)
    BY <2>2, <2>3, <2>4
  <2> QED BY <2>5, LaterParts
<1> QED BY <1>2, <1>3

LEMMA SplitFits ==
  ASSUME NEW sent, NEW nr \in Nat, NEW fields, NEW next, NEW a, NEW b,
         \A p \in sent : p.nr < nr,
         PiecesFit(sent \union {[nr |-> nr, fields |-> fields]}, -1, next),
         Upto(fields[Len(fields)]) = Size(fields[Len(fields)]),
         IsSplit(fields, a, b)
  PROVE  LET pieces2 == (sent \union {[nr |-> nr, fields |-> a]}) \union TxOf(nr + 1, b)
         IN  /\ PiecesFit(pieces2, EndOf(nr + 1, b), next)
             /\ CarriesOver(sent \union {[nr |-> nr, fields |-> fields]}, -1,
                            pieces2, EndOf(nr + 1, b), next, nr)
<1> DEFINE old == [nr |-> nr, fields |-> fields]
           A == [nr |-> nr, fields |-> a]
           B == [nr |-> nr + 1, fields |-> b]
           pieces == sent \union {old}
           pieces2 == (sent \union {A}) \union TxOf(nr + 1, b)
           end == EndOf(nr + 1, b)
           la == a[Len(a)]
           lb == b[Len(b)]
           lf == fields[Len(fields)]
<1>1. /\ Chain(a) /\ SameStart(a[1], fields[1])
      /\ b = << >> => SameEnd(la, lf)
      /\ b # << >> => /\ Chain(b)
                      /\ SameEnd(lb, lf)
                      /\ Later(la, b[1])
                      /\ Follows(la, b[1])
  BY DEF IsSplit
<1>0. PiecesFit(pieces, -1, next) /\ old \in pieces /\ sent \subseteq pieces
  OBVIOUS
<1>2. /\ Chain(fields) /\ Idx(lf) < next /\ next \in Nat /\ Upto(lf) = Size(lf)
  <2>1. old.fields = fields /\ LastOf(old) = lf
    BY DEF LastOf
  <2> HIDE DEF old, pieces
  <2>2. Chain(old.fields) /\ Idx(LastOf(old)) < next /\ next \in Nat
    BY <1>0 DEF PiecesFit
  <2> QED BY <2>1, <2>2
<1>3. /\ FirstOf(old) = fields[1] /\ old.nr = nr
      /\ FirstOf(A) = a[1] /\ LastOf(A) = la /\ A.nr = nr /\ A.fields = a
      /\ FirstOf(B) = b[1] /\ LastOf(B) = lb /\ B.nr = nr + 1 /\ B.fields = b
  BY DEF FirstOf, LastOf
<1>4. /\ \A q \in pieces2 : q \in sent \/ q = A \/ (b # << >> /\ q = B)
      /\ sent \subseteq pieces2 /\ A \in pieces2
      /\ b # << >> => B \in pieces2 /\ end = -1
      /\ b = << >> => end = nr + 1
  BY DEF TxOf, EndOf
<1>5. old \in pieces /\ sent \subseteq pieces
  OBVIOUS
<1>6. IsPart(a[1]) /\ IsPart(la) /\ IsPart(lf) /\ IsPart(fields[1])
      /\ (b # << >> => IsPart(b[1]) /\ IsPart(lb))
  BY <1>1, <1>2, ChainFacts
<1>7. \A p \in sent : p.nr \in Nat /\ p.nr < nr
  BY DEF PiecesFit
<1> HIDE DEF old, A, B, end, pieces2, la, lb, lf
<1>8. ASSUME NEW f, IsPart(f), Later(f, fields[1])
      PROVE  Later(f, a[1]) /\ (b # << >> => Later(f, b[1]))
  <2>1. Later(f, a[1])
    BY <1>1, <1>8 DEF SameStart, Later
  <2>2. b # << >> => Later(f, b[1])
    BY <1>1, <1>6, <1>8, <2>1, LaterOverChain DEF la
  <2> QED BY <2>1, <2>2
<1>9. ASSUME NEW f, NEW k \in Nat, IsPart(f), Idx(f) < next, k <= nr
      PROVE  /\ Before(f, k, pieces) => Before(f, k, pieces2)
             /\ Continues(f, k, pieces, -1) => Continues(f, k, pieces2, end)
  <2>1. ASSUME Before(f, k, pieces)
        PROVE  Before(f, k, pieces2)
    <3>1. Later(f, fields[1])
      BY <1>3, <1>5, <1>9, <2>1 DEF Before
    <3>2. Later(f, FirstOf(A)) /\ (b # << >> => Later(f, FirstOf(B)))
      BY <1>3, <1>8, <1>9, <3>1
    <3> QED BY <1>4, <1>5, <2>1, <3>2 DEF Before
  <2>2. ASSUME Continues(f, k, pieces, -1)
        PROVE  Continues(f, k, pieces2, end)
    <3>1. Before(f, k, pieces2)
      BY <2>1, <2>2 DEF Continues
    <3>2. k = nr => Follows(f, FirstOf(A))
      <4>1. k = nr => Follows(f, fields[1])
        BY <1>3, <1>5, <2>2 DEF Continues
      <4> QED BY <1>1, <1>3, <4>1 DEF Follows, SameStart
    <3>3. k # nr + 1 /\ k # -1
      BY <1>9
    <3>4. \A q \in pieces2 : q.nr = k => Follows(f, FirstOf(q))
      BY <1>3, <1>4, <1>5, <2>2, <3>2, <3>3 DEF Continues
    <3>5. k # end
      BY <1>4, <3>3
    <3> QED BY <3>1, <3>4, <3>5 DEF Continues
  <2> QED BY <2>1, <2>2
<1>10. CarriesOver(pieces, -1, pieces2, end, next, nr)
  BY <1>9 DEF CarriesOver
<1>11. ASSUME NEW p \in sent
       PROVE  /\ p.nr \in Nat
              /\ Chain(p.fields)
              /\ Idx(LastOf(p)) < next
              /\ Continues(LastOf(p), p.nr + 1, pieces2, end)
  <2>1. p.nr \in Nat /\ Chain(p.fields) /\ Idx(LastOf(p)) < next
        /\ Continues(LastOf(p), p.nr + 1, pieces, -1)
    <3> HIDE DEF pieces
    <3> QED BY <1>0, <1>5 DEF PiecesFit
  <2>2. IsPart(LastOf(p))
    BY <2>1, ChainFacts DEF LastOf
  <2>3. p.nr + 1 \in Nat /\ p.nr + 1 <= nr
    BY <1>7
  <2> HIDE DEF pieces
  <2> QED BY <1>9, <2>1, <2>2, <2>3
<1>12. /\ A.nr \in Nat
       /\ Chain(A.fields)
       /\ Idx(LastOf(A)) < next
       /\ Continues(LastOf(A), A.nr + 1, pieces2, end)
  <2>1. Idx(la) < next
    <3>1. CASE b = << >>
      BY <1>1, <1>2, <3>1 DEF SameEnd
    <3>2. CASE b # << >>
      <4>1. Idx(la) <= Idx(b[1])
        BY <1>1, <3>2 DEF Later
      <4>2. Idx(b[1]) <= Idx(lb)
        <5>1. 1 \in DOMAIN b
          BY <1>1, <3>2, ChainFacts
        <5> QED BY <1>1, <3>2, <5>1, ChainFacts DEF lb
      <4>3. Idx(lb) < next
        BY <1>1, <1>2, <3>2 DEF SameEnd
      <4>4. Idx(la) \in Nat /\ Idx(b[1]) \in Nat /\ Idx(lb) \in Nat
        BY <1>6, <3>2, PartFacts
      <4> QED BY <1>2, <4>1, <4>2, <4>3, <4>4
    <3> QED BY <3>1, <3>2
  <2>2. \A q \in sent \union {A} : ~ (nr + 1 <= q.nr) /\ q.nr # nr + 1
    BY <1>3, <1>7
  <2>3. Before(la, nr + 1, pieces2)
    BY <1>1, <1>3, <1>4, <2>2 DEF Before
  <2>4. \A q \in pieces2 : q.nr = nr + 1 => Follows(la, FirstOf(q))
    BY <1>1, <1>3, <1>4, <2>2
  <2>5. nr + 1 = end => Upto(la) = Size(la)
    <3>1. nr + 1 # -1
      OBVIOUS
    <3>2. nr + 1 = end => b = << >>
      BY <1>4, <3>1
    <3> QED BY <1>1, <1>2, <3>2 DEF SameEnd
  <2>6. Continues(la, nr + 1, pieces2, end)
    BY <2>3, <2>4, <2>5 DEF Continues
  <2> QED BY <1>1, <1>3, <2>1, <2>6
<1>13. ASSUME b # << >>
       PROVE  /\ B.nr \in Nat
              /\ Chain(B.fields)
              /\ Idx(LastOf(B)) < next
              /\ Continues(LastOf(B), B.nr + 1, pieces2, end)
  <2>1. \A q \in pieces2 : ~ ((nr + 1) + 1 <= q.nr) /\ q.nr # (nr + 1) + 1
    BY <1>3, <1>4, <1>7
  <2>2. (nr + 1) + 1 # end
    BY <1>4, <1>13
  <2>3. Continues(lb, (nr + 1) + 1, pieces2, end)
    BY <2>1, <2>2 DEF Continues, Before
  <2>4. Idx(lb) < next
    BY <1>1, <1>2, <1>13 DEF SameEnd
  <2> QED BY <1>1, <1>3, <1>13, <2>3, <2>4
<1>14. \A p, q \in pieces2 : p.nr = q.nr => p = q
  <2>1. \A p, q \in sent : p.nr = q.nr => p = q
    BY DEF PiecesFit
  <2> QED BY <1>3, <1>4, <1>7, <2>1
<1>15. PiecesFit(pieces2, end, next)
  <2>1. \A p \in pieces2 : /\ p.nr \in Nat
                           /\ Chain(p.fields)
                           /\ Idx(LastOf(p)) < next
                           /\ Continues(LastOf(p), p.nr + 1, pieces2, end)
    BY <1>4, <1>11, <1>12, <1>13
  <2> QED BY <1>2, <1>14, <2>1 DEF PiecesFit
<1> QED BY <1>10, <1>15 DEF pieces2, end, A, old

LEMMA SubSeqFacts ==
  ASSUME NEW S, NEW s \in Seq(S), NEW i \in Nat, NEW j \in Nat,
         1 <= i, i <= j + 1, j <= Len(s)
  PROVE  /\ SubSeq(s, i, j) \in Seq(S)
         /\ Len(SubSeq(s, i, j)) = (j - i) + 1
         /\ DOMAIN SubSeq(s, i, j) = 1 .. (j - i) + 1
         /\ \A k \in 1 .. (j - i) + 1 : SubSeq(s, i, j)[k] = s[(i + k) - 1]
<1>1. \A k \in i .. j : s[k] \in S
  OBVIOUS
<1>2. /\ SubSeq(s, i, j) \in Seq(S)
      /\ Len(SubSeq(s, i, j)) = (j - i) + 1
  BY <1>1
<1>3. \A k \in 1 .. (j - i) + 1 : SubSeq(s, i, j)[k] = s[(i + k) - 1]
  OBVIOUS
<1> QED BY <1>2, <1>3

\* Fields made from consecutive fields of a chain are a chain.
LEMMA ChainFrom ==
  ASSUME NEW fields, Chain(fields), NEW s \in Seq(Seq(Byte)), s # << >>,
         NEW o \in Nat, o + Len(s) <= Len(fields),
         \A k \in 1 .. Len(s) : /\ IsPart(s[k])
                                /\ Idx(s[k]) = Idx(fields[o + k])
                                /\ k > 1 => From(s[k]) = From(fields[o + k])
                                /\ k < Len(s) => SameEnd(s[k], fields[o + k])
  PROVE  Chain(s)
<1> DEFINE n == Len(s)
<1>1. n \in Nat /\ 1 <= n /\ DOMAIN s = 1 .. n
  OBVIOUS
<1>2. Len(fields) \in Nat /\ DOMAIN fields = 1 .. Len(fields)
  BY ChainFacts
<1>3. \A k \in 1 .. n : o + k \in DOMAIN fields /\ (k < n => o + k < Len(fields)) /\ (k > 1 => o + k > 1)
  BY <1>1, <1>2
<1> HIDE DEF n
<1>4. ASSUME NEW k \in DOMAIN s
      PROVE  /\ IsPart(s[k])
             /\ k > 1 => From(s[k]) = 1
             /\ k < Len(s) => Upto(s[k]) = Size(s[k])
  <2>1. o + k \in DOMAIN fields /\ (k < n => o + k < Len(fields)) /\ (k > 1 => o + k > 1)
    BY <1>1, <1>3
  <2>2. /\ o + k > 1 => From(fields[o + k]) = 1
        /\ o + k < Len(fields) => Upto(fields[o + k]) = Size(fields[o + k])
    BY <2>1 DEF Chain
  <2> QED BY <1>1, <2>1, <2>2 DEF SameEnd, n
<1>5. ASSUME NEW k \in DOMAIN s, NEW l \in DOMAIN s, k < l
      PROVE  Idx(s[k]) < Idx(s[l])
  <2>1. o + k \in DOMAIN fields /\ o + l \in DOMAIN fields /\ o + k < o + l
    BY <1>1, <1>3, <1>5
  <2>2. Idx(fields[o + k]) < Idx(fields[o + l])
    BY <2>1 DEF Chain
  <2>3. Idx(s[k]) = Idx(fields[o + k]) /\ Idx(s[l]) = Idx(fields[o + l])
    BY <1>1 DEF n
  <2> QED BY <2>2, <2>3
<1> QED BY <1>4, <1>5 DEF Chain

\* What Taken and GivenBack make of the data of the transmission buffer.
DataTaken(fields, whole, cut) ==
  SubSeq(fields, 1, whole) \o
    IF cut = 0 THEN << >> ELSE <<SubSeq(fields[whole + 1], 1, cut)>>
DataGivenBack(fields, whole, cut) ==
  IF cut = 0 THEN SubSeq(fields, whole + 1, Len(fields))
  ELSE <<SubSeq(fields[whole + 1], cut + 1, Len(fields[whole + 1]))>>
         \o SubSeq(fields, whole + 2, Len(fields))

LEMMA SplitWhole ==
  ASSUME NEW fields, Chain(fields), \A k \in DOMAIN fields : Upto(fields[k]) = Size(fields[k]),
         NEW w \in Nat, 1 <= w, w <= Len(fields)
  PROVE  IsSplit(fields, SubSeq(fields, 1, w), SubSeq(fields, w + 1, Len(fields)))
<1> DEFINE n == Len(fields)
           a == SubSeq(fields, 1, w)
           b == SubSeq(fields, w + 1, n)
<1>1. n \in Nat /\ DOMAIN fields = 1 .. n /\ fields \in Seq(Seq(Byte))
  BY ChainFacts DEF Chain
<1>2. /\ a \in Seq(Seq(Byte)) /\ Len(a) = w /\ DOMAIN a = 1 .. w /\ a # << >>
      /\ \A k \in 1 .. w : a[k] = fields[k]
  <2>1. /\ a \in Seq(Seq(Byte)) /\ Len(a) = (w - 1) + 1 /\ DOMAIN a = 1 .. (w - 1) + 1
        /\ \A k \in 1 .. (w - 1) + 1 : a[k] = fields[(1 + k) - 1]
    BY <1>1, SubSeqFacts
  <2>2. (w - 1) + 1 = w /\ \A k \in 1 .. w : (1 + k) - 1 = k
    OBVIOUS
  <2> HIDE DEF a
  <2>3. a # << >>
    BY <2>1, <2>2
  <2> QED BY <2>1, <2>2, <2>3
<1>3. /\ b \in Seq(Seq(Byte)) /\ Len(b) = n - w /\ DOMAIN b = 1 .. n - w
      /\ \A k \in 1 .. n - w : b[k] = fields[w + k]
      /\ b = << >> <=> n = w
  <2> DEFINE l == (n - (w + 1)) + 1
  <2>1. w + 1 \in Nat /\ 1 <= w + 1 /\ w + 1 <= n + 1 /\ n <= Len(fields) /\ l = n - w
    BY <1>1
  <2>2. /\ b \in Seq(Seq(Byte)) /\ Len(b) = l /\ DOMAIN b = 1 .. l
        /\ \A k \in 1 .. l : b[k] = fields[((w + 1) + k) - 1]
    <3> HIDE DEF n
    <3> QED BY <1>1, <2>1, SubSeqFacts
  <2> HIDE DEF b, l, n
  <2>3. \A k \in 1 .. n - w : ((w + 1) + k) - 1 = w + k
    BY <1>1
  <2>4. b = << >> <=> n = w
    BY <1>1, <2>1, <2>2
  <2> QED BY <2>1, <2>2, <2>3, <2>4
<1>4. \A k \in 1 .. n : IsPart(fields[k]) /\ (k > 1 => From(fields[k]) = 1)
                        /\ Upto(fields[k]) = Size(fields[k])
  BY <1>1 DEF Chain
<1> HIDE DEF a, b, n
<1>5. Chain(a)
  <2>1. 0 + Len(a) <= Len(fields) /\ 0 \in Nat
    BY <1>2
  <2>2. \A k \in 1 .. Len(a) : k \in 1 .. n /\ 0 + k = k /\ a[k] = fields[k]
    BY <1>1, <1>2 DEF n
  <2>3. \A k \in 1 .. Len(a) : /\ IsPart(a[k])
                               /\ Idx(a[k]) = Idx(fields[0 + k])
                               /\ k > 1 => From(a[k]) = From(fields[0 + k])
                               /\ k < Len(a) => SameEnd(a[k], fields[0 + k])
    BY <1>4, <2>2 DEF SameEnd
  <2> QED BY <1>2, <2>1, <2>3, ChainFrom
<1>6. b # << >> => Chain(b)
  <2>1. w + Len(b) <= Len(fields)
    <3>1. w + (n - w) <= n
      BY <1>1
    <3> QED BY <1>3, <3>1 DEF n
  <2>2. \A k \in 1 .. Len(b) : w + k \in 1 .. n /\ b[k] = fields[w + k]
    <3>1. \A k \in 1 .. n - w : w + k \in 1 .. n
      BY <1>1
    <3> QED BY <1>3, <3>1
  <2>3. \A k \in 1 .. Len(b) : /\ IsPart(b[k])
                               /\ Idx(b[k]) = Idx(fields[w + k])
                               /\ k > 1 => From(b[k]) = From(fields[w + k])
                               /\ k < Len(b) => SameEnd(b[k], fields[w + k])
    BY <1>4, <2>2 DEF SameEnd
  <2> QED BY <1>3, <2>1, <2>3, ChainFrom
<1>7. SameStart(a[1], fields[1])
  BY <1>2 DEF SameStart
<1>8. a[Len(a)] = fields[w] /\ w \in 1 .. n
  BY <1>1, <1>2 DEF n
<1>9. b = << >> => SameEnd(a[Len(a)], fields[n])
  BY <1>3, <1>8 DEF SameEnd
<1>10. ASSUME b # << >>
       PROVE  /\ SameEnd(b[Len(b)], fields[n])
              /\ Later(a[Len(a)], b[1])
              /\ Follows(a[Len(a)], b[1])
              /\ ~ (From(b[1]) > 1)
  <2>1. 1 \in 1 .. n - w /\ n - w \in 1 .. n - w /\ w + 1 \in 1 .. n /\ w + (n - w) = n /\ w < w + 1
        /\ w + 1 > 1
    BY <1>1, <1>3, <1>8, <1>10
  <2>2. b[1] = fields[w + 1] /\ b[Len(b)] = fields[n]
    BY <1>3, <2>1
  <2>3. Idx(fields[w]) < Idx(fields[w + 1])
    BY <1>1, <1>8, <2>1 DEF Chain
  <2>4. Later(fields[w], fields[w + 1])
    BY <1>4, <1>8, <2>1, <2>3, LaterParts
  <2>5. From(fields[w + 1]) = 1 /\ Upto(fields[w]) = Size(fields[w])
    BY <1>4, <1>8, <2>1
  <2> QED BY <1>8, <2>2, <2>4, <2>5 DEF SameEnd, Follows
<1>11. ~ (Upto(a[Len(a)]) < Size(a[Len(a)]))
  <2>1. Upto(fields[w]) = Size(fields[w]) /\ Size(fields[w]) \in Nat
    BY <1>4, <1>8, PartFacts
  <2> QED BY <1>8, <2>1
<1>12. \A k \in DOMAIN b : Upto(b[k]) = Size(b[k])
  <2>1. \A k \in 1 .. n - w : w + k \in 1 .. n
    BY <1>1
  <2> QED BY <1>3, <1>4, <2>1
<1>13. SdusOf(fields) = SdusOf(a) \union SdusOf(b)
  <2>1. ASSUME NEW k \in 1 .. n
        PROVE  fields[k][1][1] \in SdusOf(a) \union SdusOf(b)
    <3>1. CASE k <= w
      <4>1. k \in DOMAIN a /\ a[k] = fields[k]
        BY <1>1, <1>2, <3>1
      <4>2. a[k][1][1] \in SdusOf(a)
        BY <4>1 DEF SdusOf
      <4> QED BY <4>1, <4>2
    <3>2. CASE ~ (k <= w)
      <4>1. k - w \in 1 .. n - w /\ w + (k - w) = k
        BY <1>1, <3>2
      <4> DEFINE j == k - w
      <4> HIDE DEF j
      <4>2. j \in DOMAIN b /\ b[j] = fields[k]
        <5>1. j \in 1 .. n - w /\ w + j = k
          BY <4>1 DEF j
        <5> QED BY <1>3, <5>1
      <4>3. fields[k][1][1] \in SdusOf(b)
        BY <4>2 DEF SdusOf
      <4> QED BY <4>3
    <3> QED BY <3>1, <3>2
  <2>2. \A k \in 1 .. w : a[k][1][1] \in SdusOf(fields)
    <3>1. \A k \in 1 .. w : k \in DOMAIN fields /\ a[k] = fields[k]
      BY <1>1, <1>2, <1>8
    <3> QED BY <3>1 DEF SdusOf
  <2>3. \A k \in 1 .. n - w : b[k][1][1] \in SdusOf(fields)
    <3>1. \A k \in 1 .. n - w : w + k \in DOMAIN fields /\ b[k] = fields[w + k]
      BY <1>1, <1>3
    <3> QED BY <3>1 DEF SdusOf
  <2>4. SdusOf(fields) \subseteq SdusOf(a) \union SdusOf(b)
    <3> DEFINE T == SdusOf(a) \union SdusOf(b)
    <3> HIDE DEF T
    <3>1. \A k \in DOMAIN fields : fields[k][1][1] \in T
      BY <1>1, <2>1 DEF T
    <3>2. SdusOf(fields) \subseteq T
      BY <3>1 DEF SdusOf
    <3> QED BY <3>2 DEF T
  <2>5. SdusOf(a) \subseteq SdusOf(fields) /\ SdusOf(b) \subseteq SdusOf(fields)
    <3> DEFINE T == SdusOf(fields)
    <3> HIDE DEF T
    <3>1. \A k \in DOMAIN a : a[k][1][1] \in T
      BY <1>2, <2>2 DEF T
    <3>2. \A k \in DOMAIN b : b[k][1][1] \in T
      BY <1>3, <2>3 DEF T
    <3>3. SdusOf(a) \subseteq T /\ SdusOf(b) \subseteq T
      BY <3>1, <3>2 DEF SdusOf
    <3> QED BY <3>3 DEF T
  <2> QED BY <2>4, <2>5
<1> QED BY <1>5, <1>6, <1>7, <1>9, <1>10, <1>11, <1>12, <1>13 DEF IsSplit, a, b, n

LEMMA SplitCut ==
  ASSUME NEW fields, Chain(fields), \A k \in DOMAIN fields : Upto(fields[k]) = Size(fields[k]),
         NEW w \in Nat, w < Len(fields),
         NEW cut \in Nat, 1 <= cut, cut < Len(fields[w + 1])
  PROVE  IsSplit(fields, DataTaken(fields, w, cut), DataGivenBack(fields, w, cut))
<1> DEFINE n == Len(fields)
           g == fields[w + 1]
           c1 == SubSeq(g, 1, cut)
           c2 == SubSeq(g, cut + 1, Len(g))
           front == SubSeq(fields, 1, w)
           rest == SubSeq(fields, w + 2, n)
           a == front \o <<c1>>
           b == <<c2>> \o rest
<1>1. n \in Nat /\ DOMAIN fields = 1 .. n /\ fields \in Seq(Seq(Byte)) /\ w + 1 \in 1 .. n
  BY ChainFacts DEF Chain
<1>2. DataTaken(fields, w, cut) = a /\ DataGivenBack(fields, w, cut) = b
  BY DEF DataTaken, DataGivenBack
<1>3. \A k \in 1 .. n : IsPart(fields[k]) /\ (k > 1 => From(fields[k]) = 1)
                        /\ Upto(fields[k]) = Size(fields[k])
  BY <1>1 DEF Chain
<1>4. IsPart(g) /\ (w + 1 > 1 => From(g) = 1) /\ Upto(g) = Size(g)
  BY <1>1, <1>3
<1>5. /\ IsPart(c1) /\ SameStart(c1, g) /\ IsPart(c2) /\ SameEnd(c2, g)
      /\ From(c2) = Upto(c1) + 1
  <2> HIDE DEF g
  <2> QED BY <1>4, PartCut DEF g
<1> HIDE DEF c1, c2
<1>6. c1 \in Seq(Byte) /\ c2 \in Seq(Byte)
  BY <1>5, PartFacts
<1>7. /\ front \in Seq(Seq(Byte)) /\ Len(front) = w
      /\ \A k \in 1 .. w : front[k] = fields[k]
  <2>1. /\ front \in Seq(Seq(Byte)) /\ Len(front) = (w - 1) + 1
        /\ \A k \in 1 .. (w - 1) + 1 : front[k] = fields[(1 + k) - 1]
    BY <1>1, SubSeqFacts
  <2>2. (w - 1) + 1 = w /\ \A k \in 1 .. w : (1 + k) - 1 = k
    OBVIOUS
  <2> HIDE DEF front
  <2> QED BY <2>1, <2>2
<1>8. /\ rest \in Seq(Seq(Byte)) /\ Len(rest) = n - (w + 1)
      /\ \A k \in 1 .. n - (w + 1) : rest[k] = fields[(w + 1) + k]
  <2> DEFINE l == (n - (w + 2)) + 1
  <2>1. w + 2 \in Nat /\ 1 <= w + 2 /\ w + 2 <= n + 1 /\ n <= Len(fields) /\ l = n - (w + 1)
    BY <1>1
  <2>2. /\ rest \in Seq(Seq(Byte)) /\ Len(rest) = l
        /\ \A k \in 1 .. l : rest[k] = fields[((w + 2) + k) - 1]
    <3> HIDE DEF n
    <3> QED BY <1>1, <2>1, SubSeqFacts
  <2> HIDE DEF rest, l, n
  <2>3. \A k \in 1 .. n - (w + 1) : ((w + 2) + k) - 1 = (w + 1) + k
    BY <1>1
  <2> QED BY <2>1, <2>2, <2>3
<1>0. w + 1 <= n /\ n - w \in Nat /\ 1 <= n - w /\ n - (w + 1) \in Nat
      /\ 1 + (n - (w + 1)) = n - w
  BY <1>1
<1> HIDE DEF front, rest, n
<1>9. /\ a \in Seq(Seq(Byte)) /\ Len(a) = w + 1 /\ DOMAIN a = 1 .. w + 1 /\ a # << >>
      /\ \A k \in 1 .. w : a[k] = fields[k]
      /\ a[w + 1] = c1
  <2>1. a \in Seq(Seq(Byte)) /\ Len(a) = w + 1
    BY <1>6, <1>7
  <2>2. \A k \in 1 .. w : a[k] = fields[k]
    BY <1>6, <1>7
  <2>3. a[w + 1] = c1
    <3> DEFINE s == <<c1>>
               l == w + 1
    <3>1. s \in Seq(Seq(Byte)) /\ Len(s) = 1 /\ s[1] = c1
      BY <1>6
    <3>2. l \in 1 .. Len(front) + Len(s) /\ ~ (l <= Len(front)) /\ l - Len(front) = 1
      BY <1>7, <3>1
    <3>3. a = front \o s /\ front \in Seq(Seq(Byte))
      BY <1>7
    <3> HIDE DEF a, s, l
    <3>4. a[l] = s[l - Len(front)]
      <4>1. \A k \in 1 .. Len(front) + Len(s) :
              a[k] = IF k <= Len(front) THEN front[k] ELSE s[k - Len(front)]
        BY <3>1, <3>3, JoinedFacts
      <4> QED BY <3>2, <4>1
    <3> QED BY <3>1, <3>2, <3>4 DEF l
  <2> HIDE DEF a
  <2>4. DOMAIN a = 1 .. w + 1 /\ a # << >>
    BY <2>1
  <2> QED BY <2>1, <2>2, <2>3, <2>4
<1>10. /\ b \in Seq(Seq(Byte)) /\ Len(b) = n - w /\ DOMAIN b = 1 .. n - w /\ b # << >>
       /\ b[1] = c2
       /\ \A k \in 2 .. n - w : b[k] = fields[w + k]
  <2>1. b \in Seq(Seq(Byte)) /\ Len(b) = 1 + (n - (w + 1))
    <3>1. <<c2>> \in Seq(Seq(Byte)) /\ Len(<<c2>>) = 1
      BY <1>6
    <3> QED BY <1>8, <3>1
  <2>2. b[1] = c2
    BY <1>6, <1>8
  <2>3. ASSUME NEW k \in 2 .. n - w
        PROVE  b[k] = fields[w + k]
    <3>1. k - 1 \in 1 .. n - (w + 1) /\ (w + 1) + (k - 1) = w + k
      BY <1>1
    <3>2. rest[k - 1] = fields[w + k]
      BY <1>8, <3>1
    <3>3. b[k] = rest[k - 1]
      BY <1>6, <1>8, <3>1
    <3> QED BY <3>2, <3>3
  <2>4. 1 + (n - (w + 1)) = n - w /\ n - w \in Nat /\ 1 <= n - w
    BY <1>0
  <2> HIDE DEF b
  <2>5. DOMAIN b = 1 .. n - w /\ b # << >>
    BY <2>1, <2>4
  <2> QED BY <2>1, <2>2, <2>3, <2>4, <2>5
<1> HIDE DEF a, b
<1>11. Chain(a)
  <2>1. 0 + Len(a) <= Len(fields) /\ 0 \in Nat
    BY <1>1, <1>9
  <2>2. ASSUME NEW k \in 1 .. Len(a)
        PROVE  /\ IsPart(a[k])
               /\ Idx(a[k]) = Idx(fields[0 + k])
               /\ k > 1 => From(a[k]) = From(fields[0 + k])
               /\ k < Len(a) => SameEnd(a[k], fields[0 + k])
    <3>1. 0 + k = k /\ k \in 1 .. n
      BY <1>1, <1>9
    <3>2. CASE k \in 1 .. w
      BY <1>3, <1>9, <3>1, <3>2 DEF SameEnd
    <3>3. CASE k = w + 1
      BY <1>5, <1>9, <3>1, <3>3 DEF SameStart
    <3> QED BY <1>9, <3>2, <3>3
  <2> QED BY <1>9, <2>1, <2>2, ChainFrom
<1>12. Chain(b)
  <2>1. w + Len(b) <= Len(fields)
    <3>1. w + (n - w) <= n
      BY <1>1
    <3> QED BY <1>10, <3>1 DEF n
  <2>2. ASSUME NEW k \in 1 .. Len(b)
        PROVE  /\ IsPart(b[k])
               /\ Idx(b[k]) = Idx(fields[w + k])
               /\ k > 1 => From(b[k]) = From(fields[w + k])
               /\ k < Len(b) => SameEnd(b[k], fields[w + k])
    <3>1. w + k \in 1 .. n
      BY <1>1, <1>10
    <3>2. CASE k \in 2 .. n - w
      BY <1>3, <1>10, <3>1, <3>2 DEF SameEnd
    <3>3. CASE k = 1
      BY <1>5, <1>10, <3>1, <3>3 DEF SameEnd
    <3> QED BY <1>10, <3>2, <3>3
  <2> QED BY <1>10, <2>1, <2>2, ChainFrom
<1>13. SameStart(a[1], fields[1])
  <2>1. CASE w = 0
    <3>1. a[1] = c1 /\ fields[1] = g
      BY <1>9, <2>1
    <3> QED BY <1>5, <3>1
  <2>2. CASE w # 0
    <3>1. 1 \in 1 .. w
      BY <2>2
    <3> QED BY <1>9, <3>1 DEF SameStart
  <2> QED BY <2>1, <2>2
<1>14. a[Len(a)] = c1
  BY <1>9
<1>15. SameEnd(b[Len(b)], fields[n])
  <2>1. CASE n - w = 1
    <3>1. fields[n] = g /\ b[Len(b)] = c2
      <4>1. n = w + 1
        BY <1>0, <1>1, <2>1
      <4>2. b[Len(b)] = c2
        BY <1>10, <2>1
      <4> QED BY <4>1, <4>2
    <3> QED BY <1>5, <3>1
  <2>2. CASE n - w # 1
    <3>1. n - w \in 2 .. n - w /\ w + (n - w) = n
      BY <1>0, <1>1, <2>2
    <3>2. b[Len(b)] = fields[n]
      BY <1>10, <3>1
    <3> QED BY <3>2 DEF SameEnd
  <2> QED BY <2>1, <2>2
<1>16. /\ Idx(c1) = Idx(g) /\ Size(c1) = Size(g) /\ From(c1) = From(g)
       /\ Idx(c2) = Idx(g) /\ Size(c2) = Size(g) /\ Upto(c2) = Upto(g)
       /\ From(c2) = Upto(c1) + 1 /\ Upto(c1) \in Nat
       /\ From(c2) <= Upto(c2) /\ Upto(c2) \in Nat
       /\ Idx(g) \in Nat /\ Size(g) \in Nat
  BY <1>4, <1>5, PartFacts DEF SameStart, SameEnd
<1>17. /\ Later(c1, c2) /\ Follows(c1, c2) /\ Idx(c2) = Idx(c1)
       /\ Upto(c1) < Size(c1)
  <2>1. Upto(c1) < Size(c1) /\ Upto(c1) < From(c2)
    BY <1>4, <1>16
  <2> QED BY <1>16, <2>1 DEF Later, Follows
<1>18. \A k \in DOMAIN b : Upto(b[k]) = Size(b[k])
  <2>1. \A k \in 2 .. n - w : w + k \in 1 .. n
    BY <1>1
  <2>2. \A k \in DOMAIN b : k = 1 \/ k \in 2 .. n - w
    BY <1>10
  <2> QED BY <1>3, <1>4, <1>10, <1>16, <2>1, <2>2
<1>19. SdusOf(fields) = SdusOf(a) \union SdusOf(b)
  <2>1. SdusOf(fields) = {Idx(fields[k]) : k \in DOMAIN fields}
        /\ SdusOf(a) = {Idx(a[k]) : k \in DOMAIN a}
        /\ SdusOf(b) = {Idx(b[k]) : k \in DOMAIN b}
    BY DEF SdusOf, Idx
  <2>2. ASSUME NEW k \in 1 .. n
        PROVE  Idx(fields[k]) \in SdusOf(a) \union SdusOf(b)
    <3>1. CASE k <= w
      <4>1. k \in DOMAIN a /\ a[k] = fields[k]
        BY <1>1, <1>9, <3>1
      <4>2. Idx(a[k]) \in SdusOf(a)
        BY <2>1, <4>1
      <4> QED BY <4>1, <4>2
    <3>2. CASE k = w + 1
      <4>1. w + 1 \in DOMAIN a /\ Idx(a[w + 1]) = Idx(g)
        BY <1>9, <1>16
      <4>2. Idx(a[w + 1]) \in SdusOf(a)
        BY <2>1, <4>1
      <4> QED BY <3>2, <4>1, <4>2
    <3>3. CASE k > w + 1
      <4> DEFINE j == k - w
      <4>1. j \in 2 .. n - w /\ w + j = k
        BY <1>0, <1>1, <3>3
      <4> HIDE DEF j
      <4>2. j \in DOMAIN b /\ b[j] = fields[k]
        <5>1. j \in 1 .. n - w
          BY <4>1
        <5>2. b[j] = fields[w + j]
          BY <1>10, <4>1
        <5> QED BY <1>10, <4>1, <5>1, <5>2
      <4>3. Idx(b[j]) \in SdusOf(b)
        BY <2>1, <4>2
      <4> QED BY <4>2, <4>3
    <3> QED BY <1>1, <3>1, <3>2, <3>3
  <2>3. ASSUME NEW k \in 1 .. w + 1
        PROVE  Idx(a[k]) \in SdusOf(fields)
    <3>1. k \in DOMAIN fields /\ Idx(a[k]) = Idx(fields[k])
      <4>1. k \in 1 .. w \/ k = w + 1
        OBVIOUS
      <4>2. k \in DOMAIN fields
        BY <1>1
      <4> QED BY <1>9, <1>16, <4>1, <4>2
    <3> QED BY <2>1, <3>1
  <2>4. ASSUME NEW k \in 1 .. n - w
        PROVE  Idx(b[k]) \in SdusOf(fields)
    <3>1. w + k \in DOMAIN fields /\ Idx(b[k]) = Idx(fields[w + k])
      <4>1. k \in 2 .. n - w \/ k = 1
        BY <1>1
      <4>2. w + k \in DOMAIN fields
        BY <1>1
      <4> QED BY <1>10, <1>16, <4>1, <4>2
    <3> QED BY <2>1, <3>1
  <2>5. \A k \in DOMAIN fields : Idx(fields[k]) \in SdusOf(a) \union SdusOf(b)
    BY <1>1, <2>2
  <2>6. SdusOf(fields) \subseteq SdusOf(a) \union SdusOf(b)
    BY <2>1, <2>5
  <2>7. SdusOf(a) \subseteq SdusOf(fields) /\ SdusOf(b) \subseteq SdusOf(fields)
    <3> DEFINE T == SdusOf(fields)
    <3> HIDE DEF T
    <3>1. \A k \in DOMAIN a : Idx(a[k]) \in T
      BY <1>9, <2>3 DEF T
    <3>2. \A k \in DOMAIN b : Idx(b[k]) \in T
      BY <1>10, <2>4 DEF T
    <3>3. SdusOf(a) \subseteq T /\ SdusOf(b) \subseteq T
      BY <2>1, <3>1, <3>2
    <3> QED BY <3>3 DEF T
  <2> QED BY <2>6, <2>7
<1>20. IsSplit(fields, a, b)
  BY <1>10, <1>11, <1>12, <1>13, <1>14, <1>15, <1>17, <1>18, <1>19 DEF IsSplit, n
<1> QED BY <1>2, <1>20
-----------------------------------------------------------------------------
(* Reassembly of one PDU.                                                  *)

PieceOf(pdu) == [nr |-> pdu.nr, fields |-> pdu.fields]

\* The framing information says where SDUs begin and end.
Framed(pdu) ==
  /\ pdu.firstByte = (From(FirstOf(pdu)) = 1)
  /\ pdu.lastByte = (Upto(LastOf(pdu)) = Size(LastOf(pdu)))

\* Whole SDUs, in order.
WholeSdus(fields) ==
  /\ fields \in Seq(Seq(Byte))
  /\ \A k \in DOMAIN fields : /\ IsPart(fields[k])
                              /\ From(fields[k]) = 1
                              /\ Upto(fields[k]) = Size(fields[k])
  /\ \A k, l \in DOMAIN fields : k < l => Idx(fields[k]) < Idx(fields[l])

\* What a state of the reassembly has kept is the begin of an SDU and comes
\* just before the pieces that are not reassembled yet; what it has handed up
\* comes before it and before them.
KeptFits(r, pieces, end, next) ==
  r.keep # << >> =>
    /\ IsPart(r.keep)
    /\ From(r.keep) = 1
    /\ Upto(r.keep) < Size(r.keep)
    /\ Idx(r.keep) < next
    /\ Continues(r.keep, r.upTo, pieces, end)
    /\ \A k \in DOMAIN r.up : Idx(r.up[k]) < Idx(r.keep)

UpFits(r, pieces, next) ==
  /\ WholeSdus(r.up)
  /\ \A k \in DOMAIN r.up : Idx(r.up[k]) < next /\ Before(r.up[k], r.upTo, pieces)

Fits(r, pieces, end, next) ==
  /\ DOMAIN r = Parts
  /\ r.upTo \in Nat
  /\ r.sdus = << >>
  /\ KeptFits(r, pieces, end, next)
  /\ UpFits(r, pieces, next)

\* The PDU is the next one to be reassembled, or comes later.
Due(r, pdu) ==
  /\ Framed(pdu)
  /\ r.upTo <= pdu.nr
  /\ NoLoss(r, pdu) <=> pdu.nr = r.upTo

Joins(r, pdu) == NoLoss(r, pdu) /\ r.keep # << >>

\* The first field goes on where the one that was kept ends.
LEMMA KeptIsContinued ==
  ASSUME NEW pieces, NEW end, NEW next, PiecesFit(pieces, end, next),
         NEW r, Fits(r, pieces, end, next),
         NEW pdu, Due(r, pdu), PieceOf(pdu) \in pieces, Joins(r, pdu)
  PROVE  /\ ~ pdu.firstByte
         /\ IsPart(r.keep \o pdu.fields[1])
         /\ SameStart(r.keep \o pdu.fields[1], r.keep)
         /\ SameEnd(r.keep \o pdu.fields[1], pdu.fields[1])
<1> DEFINE f == r.keep
           g == pdu.fields[1]
           p == PieceOf(pdu)
<1>1. p.nr = pdu.nr /\ p.fields = pdu.fields /\ FirstOf(p) = g
  BY DEF PieceOf, FirstOf
<1>2. /\ IsPart(f) /\ From(f) = 1 /\ Upto(f) < Size(f)
      /\ Continues(f, r.upTo, pieces, end)
  BY DEF Joins, Fits, KeptFits
<1>3. pdu.nr = r.upTo /\ r.upTo \in Nat
  BY DEF Joins, Due, Fits
<1>4. IsPart(g)
  <2>1. Chain(pdu.fields)
    BY <1>1 DEF PiecesFit
  <2> QED BY <2>1, ChainFacts
<1> HIDE DEF f, g, p
<1>5. Later(f, g) /\ Follows(f, g)
  <2>1. p \in pieces /\ r.upTo <= p.nr /\ p.nr = r.upTo
    BY <1>1, <1>3 DEF p
  <2> QED BY <1>1, <1>2, <2>1 DEF Continues, Before
<1>6. /\ Upto(f) \in Nat /\ Size(f) \in Nat /\ From(g) \in Nat /\ 1 <= Upto(f)
  BY <1>2, <1>4, PartFacts
<1>7. Idx(f) = Idx(g) /\ From(g) = Upto(f) + 1 /\ Size(f) = Size(g) /\ From(g) # 1
  BY <1>2, <1>5, <1>6 DEF Follows, Later
<1>8. ~ pdu.firstByte
  BY <1>7 DEF Due, Framed, FirstOf, g
<1>9. IsPart(f \o g) /\ SameStart(f \o g, f) /\ SameEnd(f \o g, g)
  BY <1>2, <1>4, <1>7, PartsJoined
<1> QED BY <1>8, <1>9 DEF f, g

\* The fields that go up or are kept are parts that begin their SDU.
StartsWhole(w, fields) ==
  w # << >> => /\ Chain(w)
               /\ From(w[1]) = 1
               /\ SameEnd(w[Len(w)], fields[Len(fields)])

LEMMA TailFacts ==
  ASSUME NEW S, NEW s \in Seq(S), s # << >>
  PROVE  /\ Head(s) = s[1]
         /\ Tail(s) \in Seq(S)
         /\ Len(Tail(s)) = Len(s) - 1
         /\ \A k \in 1 .. Len(s) - 1 : Tail(s)[k] = s[k + 1]
OBVIOUS

LEMMA ReplacedHead ==
  ASSUME NEW S, NEW s \in Seq(S), s # << >>, NEW x \in S
  PROVE  /\ <<x>> \o Tail(s) \in Seq(S)
         /\ Len(<<x>> \o Tail(s)) = Len(s)
         /\ (<<x>> \o Tail(s))[1] = x
         /\ \A k \in 2 .. Len(s) : (<<x>> \o Tail(s))[k] = s[k]
<1> DEFINE t == Tail(s)
           n == Len(s)
<1>1. /\ t \in Seq(S) /\ Len(t) = n - 1 /\ n \in Nat /\ 1 <= n
      /\ \A k \in 1 .. n - 1 : t[k] = s[k + 1]
  BY TailFacts
<1> HIDE DEF t, n
<1>2. <<x>> \in Seq(S) /\ Len(<<x>>) = 1 /\ <<x>>[1] = x
  OBVIOUS
<1>3. <<x>> \o t \in Seq(S) /\ Len(<<x>> \o t) = n /\ (<<x>> \o t)[1] = x
  BY <1>1, <1>2
<1>4. ASSUME NEW k \in 2 .. n
      PROVE  (<<x>> \o t)[k] = s[k]
  <2>1. k - 1 \in 1 .. n - 1 /\ (k - 1) + 1 = k
    BY <1>1
  <2>2. (<<x>> \o t)[k] = t[k - 1]
    BY <1>1, <1>2, <2>1
  <2> QED BY <1>1, <2>1, <2>2
<1> QED BY <1>3, <1>4 DEF t, n

LEMMA WholeFieldsOf ==
  ASSUME NEW pieces, NEW end, NEW next, PiecesFit(pieces, end, next),
         NEW r, Fits(r, pieces, end, next),
         NEW pdu, Due(r, pdu), PieceOf(pdu) \in pieces
  PROVE  LET w == WholeFields(r, pdu.fields, pdu)
         IN  /\ w \in Seq(Seq(Byte))
             /\ StartsWhole(w, pdu.fields)
             /\ \A k \in DOMAIN w : \E l \in DOMAIN pdu.fields : SameEnd(w[k], pdu.fields[l])
             /\ \A l \in DOMAIN pdu.fields :
                  l > 1 \/ pdu.firstByte \/ Joins(r, pdu) =>
                    \E k \in DOMAIN w : SameEnd(w[k], pdu.fields[l])
             /\ Joins(r, pdu) => w # << >> /\ Idx(w[1]) = Idx(r.keep)
             /\ pdu.firstByte => w # << >>
<1> DEFINE fields == pdu.fields
           n == Len(fields)
           w == WholeFields(r, fields, pdu)
<1>1. Chain(fields) /\ fields \in Seq(Seq(Byte)) /\ fields # << >>
  <2>1. PieceOf(pdu).fields = fields
    BY DEF PieceOf
  <2> QED BY <2>1 DEF PiecesFit, Chain
<1>2. n \in Nat /\ 1 <= n /\ DOMAIN fields = 1 .. n
  BY <1>1, ChainFacts
<1>3. \A k \in DOMAIN fields : SameEnd(fields[k], fields[k])
  BY DEF SameEnd
<1> HIDE DEF fields, n
<1>4. CASE Joins(r, pdu)
  <2> DEFINE f == r.keep \o fields[1]
  <2>1. IsPart(f) /\ SameStart(f, r.keep) /\ SameEnd(f, fields[1])
    BY <1>4, KeptIsContinued DEF fields
  <2>2. w = <<f>> \o Tail(fields)
    <3>1. Head(fields) = fields[1]
      BY <1>1, TailFacts
    <3> QED BY <1>4, <3>1 DEF WholeFields, Joins, Joined
  <2> HIDE DEF f, w
  <2>3. f \in Seq(Byte)
    BY <2>1, PartFacts
  <2>4. /\ w \in Seq(Seq(Byte)) /\ Len(w) = n /\ w[1] = f
        /\ \A k \in 2 .. n : w[k] = fields[k]
    BY <1>1, <2>2, <2>3, ReplacedHead DEF n
  <2>5. DOMAIN w = 1 .. n /\ w # << >>
    BY <1>2, <2>4
  <2>6. \A k \in 1 .. n : SameEnd(w[k], fields[k]) /\ IsPart(w[k])
    <3>1. \A k \in 1 .. n : k = 1 \/ k \in 2 .. n
      BY <1>2
    <3>2. \A k \in 1 .. n : IsPart(fields[k])
      BY <1>1, <1>2 DEF Chain
    <3> QED BY <1>2, <1>3, <2>1, <2>4, <3>1, <3>2
  <2>7. Chain(w)
    <3>1. 0 \in Nat /\ 0 + Len(w) <= Len(fields)
      BY <1>2, <2>4 DEF n
    <3>2. ASSUME NEW k \in 1 .. Len(w)
          PROVE  /\ IsPart(w[k])
                 /\ Idx(w[k]) = Idx(fields[0 + k])
                 /\ k > 1 => From(w[k]) = From(fields[0 + k])
                 /\ k < Len(w) => SameEnd(w[k], fields[0 + k])
      <4>1. 0 + k = k /\ k \in 1 .. n /\ (k > 1 => k \in 2 .. n)
        BY <2>4
      <4> QED BY <2>4, <2>6, <4>1 DEF SameEnd
    <3> QED BY <1>1, <2>4, <2>5, <3>1, <3>2, ChainFrom
  <2>8. From(w[1]) = 1 /\ Idx(w[1]) = Idx(r.keep)
    BY <1>4, <2>1, <2>4 DEF SameStart, Fits, KeptFits, Joins
  <2>9. StartsWhole(w, fields)
    <3>1. n \in 1 .. n
      BY <1>2
    <3> QED BY <2>4, <2>6, <2>7, <2>8, <3>1 DEF StartsWhole, n
  <2> QED BY <1>2, <1>4, <2>4, <2>5, <2>6, <2>8, <2>9 DEF fields, w
<1>5. CASE ~ Joins(r, pdu) /\ pdu.firstByte
  <2>1. w = fields
    BY <1>5 DEF WholeFields, FromFirstStart, Joins
  <2>2. From(fields[1]) = 1
    BY <1>5 DEF Due, Framed, FirstOf, fields
  <2>3. n \in DOMAIN fields
    BY <1>2
  <2> HIDE DEF w
  <2>4. StartsWhole(w, fields)
    BY <1>1, <1>3, <2>1, <2>2, <2>3 DEF StartsWhole, n
  <2> QED BY <1>1, <1>3, <1>5, <2>1, <2>4 DEF fields, w
<1>6. CASE ~ Joins(r, pdu) /\ ~ pdu.firstByte
  <2>1. w = Tail(fields)
    BY <1>6 DEF WholeFields, FromFirstStart, Joins
  <2> HIDE DEF w
  <2>2. /\ w \in Seq(Seq(Byte)) /\ Len(w) = n - 1
        /\ \A k \in 1 .. n - 1 : w[k] = fields[k + 1]
    BY <1>1, <2>1, TailFacts DEF n
  <2>3. DOMAIN w = 1 .. n - 1 /\ (w = << >> <=> n = 1)
    BY <1>2, <2>2
  <2>4. \A k \in 1 .. n - 1 : k + 1 \in 1 .. n /\ 1 + k = k + 1 /\ k + 1 > 1
    BY <1>2
  <2>5. ASSUME w # << >>
        PROVE  Chain(w) /\ From(w[1]) = 1 /\ w[Len(w)] = fields[n]
    <3>1. 1 \in Nat /\ 1 + Len(w) <= Len(fields)
      BY <1>2, <2>2 DEF n
    <3>2. ASSUME NEW k \in 1 .. Len(w)
          PROVE  /\ IsPart(w[k])
                 /\ Idx(w[k]) = Idx(fields[1 + k])
                 /\ k > 1 => From(w[k]) = From(fields[1 + k])
                 /\ k < Len(w) => SameEnd(w[k], fields[1 + k])
      <4>1. k + 1 \in 1 .. n /\ 1 + k = k + 1 /\ w[k] = fields[k + 1]
        BY <2>2, <2>4
      <4> QED BY <1>1, <1>2, <1>3, <4>1 DEF Chain
    <3>3. Chain(w)
      BY <1>1, <2>2, <2>5, <3>1, <3>2, ChainFrom
    <3>4. 1 \in 1 .. n - 1 /\ n - 1 \in 1 .. n - 1 /\ (n - 1) + 1 = n
      BY <1>2, <2>3, <2>5
    <3>5. From(fields[1 + 1]) = 1
      BY <1>1, <1>2, <2>4, <3>4 DEF Chain
    <3> QED BY <2>2, <3>3, <3>4, <3>5
  <2>6. StartsWhole(w, fields)
    <3>1. n \in DOMAIN fields
      BY <1>2
    <3> QED BY <1>3, <2>5, <3>1 DEF StartsWhole, n
  <2>7. \A k \in DOMAIN w : \E l \in DOMAIN fields : SameEnd(w[k], fields[l])
    BY <1>2, <1>3, <2>2, <2>3, <2>4
  <2>8. ASSUME NEW l \in DOMAIN fields, l > 1
        PROVE  \E k \in DOMAIN w : SameEnd(w[k], fields[l])
    <3>1. l - 1 \in 1 .. n - 1 /\ (l - 1) + 1 = l
      BY <1>2, <2>8
    <3>2. w[l - 1] = fields[l]
      BY <2>2, <3>1
    <3> QED BY <1>3, <2>3, <3>1, <3>2
  <2> QED BY <1>6, <2>2, <2>6, <2>7, <2>8 DEF fields, w
<1> QED BY <1>4, <1>5, <1>6

\* What is kept open, and what goes up.
Closed(w, pdu) == pdu.lastByte \/ w = << >>
Goes(w, pdu) == IF Closed(w, pdu) THEN w ELSE Front(w)

LEMMA GoesFacts ==
  ASSUME NEW pdu, Framed(pdu), NEW w \in Seq(Seq(Byte)), StartsWhole(w, pdu.fields)
  PROVE  /\ WholeSdus(Goes(w, pdu))
         /\ \A k \in DOMAIN Goes(w, pdu) : k \in DOMAIN w /\ Goes(w, pdu)[k] = w[k]
         /\ ~ Closed(w, pdu) =>
              /\ Len(w) \in DOMAIN w
              /\ IsPart(w[Len(w)])
              /\ From(w[Len(w)]) = 1
              /\ Upto(w[Len(w)]) < Size(w[Len(w)])
              /\ \A k \in DOMAIN Goes(w, pdu) : Idx(w[k]) < Idx(w[Len(w)])
              /\ DOMAIN w = DOMAIN Goes(w, pdu) \union {Len(w)}
<1> DEFINE g == Goes(w, pdu)
           n == Len(w)
           last == pdu.fields[Len(pdu.fields)]
<1>1. n \in Nat /\ DOMAIN w = 1 .. n /\ (w = << >> <=> n = 0)
  OBVIOUS
<1>2. ASSUME NEW k \in DOMAIN w
      PROVE  /\ IsPart(w[k])
             /\ From(w[k]) = 1
             /\ k < n => Upto(w[k]) = Size(w[k])
  <2>1. Chain(w) /\ From(w[1]) = 1
    BY <1>1 DEF StartsWhole
  <2>2. k = 1 \/ k > 1
    BY <1>1
  <2> QED BY <2>1, <2>2 DEF Chain
<1>3. w # << >> => (Upto(w[n]) = Size(w[n]) <=> pdu.lastByte)
  BY DEF StartsWhole, SameEnd, Framed, LastOf
<1>4. \A k, l \in DOMAIN w : k < l => Idx(w[k]) < Idx(w[l])
  BY <1>1 DEF StartsWhole, Chain
<1> HIDE DEF n
<1>5. CASE Closed(w, pdu)
  <2>1. g = w
    BY <1>5 DEF Goes
  <2>2. \A k \in DOMAIN w : Upto(w[k]) = Size(w[k])
    <3>1. \A k \in DOMAIN w : (k < n \/ k = n) /\ w # << >>
      BY <1>1
    <3> QED BY <1>2, <1>3, <1>5, <3>1 DEF Closed
  <2>3. WholeSdus(w)
    BY <1>2, <1>4, <2>2 DEF WholeSdus
  <2> QED BY <1>5, <2>1, <2>3 DEF g
<1>6. CASE ~ Closed(w, pdu)
  <2>1. 1 <= n /\ n \in DOMAIN w /\ w # << >>
    BY <1>1, <1>6 DEF Closed
  <2>2. g = SubSeq(w, 1, n - 1)
    BY <1>6 DEF Goes, Front, n
  <2>3. g \in Seq(Seq(Byte)) /\ DOMAIN g = 1 .. n - 1 /\ \A k \in 1 .. n - 1 : g[k] = w[k]
    <3> DEFINE j == n - 1
    <3>1. j \in Nat /\ 1 <= j + 1 /\ j <= Len(w) /\ (j - 1) + 1 = j
      BY <1>1, <2>1 DEF n
    <3> HIDE DEF j
    <3> DEFINE t == SubSeq(w, 1, j)
    <3>2. /\ t \in Seq(Seq(Byte)) /\ DOMAIN t = 1 .. (j - 1) + 1
          /\ \A k \in 1 .. (j - 1) + 1 : t[k] = w[(1 + k) - 1]
      BY <3>1, SubSeqFacts
    <3> HIDE DEF t
    <3>3. \A k \in 1 .. j : (1 + k) - 1 = k
      BY <3>1
    <3>4. t \in Seq(Seq(Byte)) /\ DOMAIN t = 1 .. j /\ \A k \in 1 .. j : t[k] = w[k]
      BY <3>1, <3>2, <3>3
    <3>5. g = t
      BY <2>2 DEF t, j
    <3> QED BY <3>4, <3>5 DEF j
  <2> HIDE DEF g
  <2>4. \A k \in 1 .. n - 1 : k \in DOMAIN w /\ k < n
    BY <1>1
  <2>5. WholeSdus(g)
    <3>1. \A k \in DOMAIN g : /\ IsPart(g[k])
                              /\ From(g[k]) = 1
                              /\ Upto(g[k]) = Size(g[k])
      BY <1>2, <2>3, <2>4
    <3>2. \A k, l \in DOMAIN g : k < l => Idx(g[k]) < Idx(g[l])
      BY <1>4, <2>3, <2>4
    <3> QED BY <2>3, <3>1, <3>2 DEF WholeSdus
  <2>6. DOMAIN w = DOMAIN g \union {n}
    BY <1>1, <2>1, <2>3
  <2>7. IsPart(w[n]) /\ From(w[n]) = 1 /\ Upto(w[n]) < Size(w[n])
    <3>1. IsPart(w[n]) /\ From(w[n]) = 1
      BY <1>2, <2>1
    <3>2. Upto(w[n]) # Size(w[n])
      BY <1>3, <1>6, <2>1 DEF Closed
    <3>3. Upto(w[n]) \in Nat /\ Size(w[n]) \in Nat /\ Upto(w[n]) <= Size(w[n])
      BY <3>1, PartFacts
    <3> QED BY <3>1, <3>2, <3>3
  <2>8. \A k \in DOMAIN g : Idx(w[k]) < Idx(w[n])
    BY <1>4, <2>1, <2>3, <2>4
  <2> QED BY <1>6, <2>1, <2>3, <2>4, <2>5, <2>6, <2>7, <2>8 DEF g, n
<1> QED BY <1>5, <1>6

\* What reassembling the PDU does: it is no internal error.
Delivered(r, pdu) ==
  LET w == WholeFields(r, pdu.fields, pdu)
      R == ReassembleAndDeliver(r, pdu)
  IN  /\ DOMAIN R = Parts
      /\ R.upTo = pdu.nr + 1
      /\ R.sdus = << >>
      /\ R.keep = IF Closed(w, pdu) THEN << >> ELSE w[Len(w)]
      /\ R.up = r.up \o Goes(w, pdu)

LEMMA ReassembledParts ==
  ASSUME NEW pieces, NEW end, NEW next, PiecesFit(pieces, end, next),
         NEW r, Fits(r, pieces, end, next),
         NEW pdu, Due(r, pdu), PieceOf(pdu) \in pieces
  PROVE  Delivered(r, pdu)
<1> DEFINE w == WholeFields(r, pdu.fields, pdu)
           next1 == [r EXCEPT !.expected = (pdu.sn + 1) % SnSpace, !.upTo = pdu.nr + 1]
<1>1. r.sdus \o pdu.fields = pdu.fields
  <2>1. PieceOf(pdu).fields = pdu.fields
    BY DEF PieceOf
  <2>2. pdu.fields \in Seq(Seq(Byte)) /\ r.sdus = << >>
    BY <2>1 DEF PiecesFit, Chain, Fits
  <2> QED BY <2>2
<1>2. Joins(r, pdu) => ~ pdu.firstByte
  BY KeptIsContinued
<1>3. ReassembleAndDeliver(r, pdu) = DeliverAndKeep(next1, w, pdu)
  BY <1>1, <1>2 DEF ReassembleAndDeliver, Joins
<1>4. /\ DOMAIN next1 = Parts /\ next1.upTo = pdu.nr + 1 /\ next1.up = r.up
  BY DEF Fits, Parts
<1> HIDE DEF w, next1
<1>5. /\ DOMAIN DeliverAndKeep(next1, w, pdu) = Parts
      /\ DeliverAndKeep(next1, w, pdu).upTo = pdu.nr + 1
      /\ DeliverAndKeep(next1, w, pdu).sdus = << >>
      /\ DeliverAndKeep(next1, w, pdu).keep = IF Closed(w, pdu) THEN << >> ELSE w[Len(w)]
      /\ DeliverAndKeep(next1, w, pdu).up = next1.up \o Goes(w, pdu)
  BY <1>4 DEF DeliverAndKeep, Closed, Goes, Parts, Last
<1> QED BY <1>3, <1>4, <1>5 DEF w, Delivered

LEMMA ReassembledFits ==
  ASSUME NEW pieces, NEW end, NEW next, PiecesFit(pieces, end, next),
         NEW r, Fits(r, pieces, end, next),
         NEW pdu, Due(r, pdu), PieceOf(pdu) \in pieces
  PROVE  /\ Fits(ReassembleAndDeliver(r, pdu), pieces, end, next)
         /\ \E batch \in Seq(Seq(Byte)) : ReassembleAndDeliver(r, pdu).up = r.up \o batch
<1> DEFINE fields == pdu.fields
           n == Len(fields)
           w == WholeFields(r, fields, pdu)
           g == Goes(w, pdu)
           p == PieceOf(pdu)
           R == ReassembleAndDeliver(r, pdu)
           up == r.up
           up2 == up \o g
           m == Len(up)
<1>1. p.nr = pdu.nr /\ p.fields = fields /\ FirstOf(p) = fields[1] /\ LastOf(p) = fields[n]
  BY DEF PieceOf, FirstOf, LastOf
<1>2. /\ w \in Seq(Seq(Byte))
      /\ StartsWhole(w, fields)
      /\ \A k \in DOMAIN w : \E l \in DOMAIN fields : SameEnd(w[k], fields[l])
  BY WholeFieldsOf
<1>3. /\ DOMAIN R = Parts /\ R.upTo = pdu.nr + 1 /\ R.sdus = << >>
      /\ R.keep = IF Closed(w, pdu) THEN << >> ELSE w[Len(w)]
      /\ R.up = up \o g
  <2>1. Delivered(r, pdu)
    BY ReassembledParts
  <2> QED BY <2>1 DEF Delivered
<1>4. Framed(pdu) /\ r.upTo <= pdu.nr /\ r.upTo \in Nat /\ pdu.nr \in Nat
  BY <1>1 DEF Due, Fits, PiecesFit
<1>5. /\ Chain(fields) /\ next \in Nat /\ Idx(fields[n]) < next
      /\ Continues(fields[n], pdu.nr + 1, pieces, end)
      /\ \A l \in DOMAIN fields : Before(fields[l], pdu.nr + 1, pieces)
  BY <1>1, FieldsComeBefore DEF PiecesFit
<1> HIDE DEF fields, w, R, p
<1>6. /\ WholeSdus(g)
      /\ \A k \in DOMAIN g : k \in DOMAIN w /\ g[k] = w[k]
      /\ ~ Closed(w, pdu) =>
              /\ Len(w) \in DOMAIN w
              /\ IsPart(w[Len(w)])
              /\ From(w[Len(w)]) = 1
              /\ Upto(w[Len(w)]) < Size(w[Len(w)])
              /\ \A k \in DOMAIN g : Idx(w[k]) < Idx(w[Len(w)])
  BY <1>2, <1>4, GoesFacts DEF fields
<1> HIDE DEF g
<1>7. /\ n \in Nat /\ 1 <= n /\ DOMAIN fields = 1 .. n /\ IsPart(fields[1]) /\ IsPart(fields[n])
      /\ \A l \in DOMAIN fields : IsPart(fields[l]) /\ Idx(fields[l]) \in Nat
                                  /\ Idx(fields[1]) <= Idx(fields[l])
                                  /\ Idx(fields[l]) <= Idx(fields[n])
  <2>1. \A l \in DOMAIN fields : IsPart(fields[l])
    BY <1>5 DEF Chain
  <2> QED BY <1>5, <2>1, ChainFacts, PartFacts
<1>8. ASSUME NEW k \in DOMAIN w
      PROVE  Idx(w[k]) < next /\ Before(w[k], pdu.nr + 1, pieces)
             /\ Idx(w[k]) \in Nat /\ Idx(fields[1]) <= Idx(w[k])
  <2>1. PICK l \in DOMAIN fields : SameEnd(w[k], fields[l])
    BY <1>2
  <2>2. Idx(w[k]) = Idx(fields[l])
    BY <2>1 DEF SameEnd
  <2>3. Before(w[k], pdu.nr + 1, pieces)
    BY <1>5, <2>1, SameEndSameNext
  <2>4. Idx(fields[l]) \in Nat /\ Idx(fields[n]) \in Nat
        /\ Idx(fields[1]) <= Idx(fields[l]) /\ Idx(fields[l]) <= Idx(fields[n])
    <3>1. n \in DOMAIN fields
      BY <1>7
    <3> QED BY <1>7, <3>1
  <2> QED BY <1>5, <2>2, <2>3, <2>4
<1>9. /\ WholeSdus(up)
      /\ \A k \in DOMAIN up : Idx(up[k]) < next /\ Before(up[k], r.upTo, pieces)
  BY DEF Fits, UpFits
<1> HIDE DEF up
<1>10. ASSUME NEW k \in DOMAIN up
       PROVE  Idx(up[k]) \in Nat /\ Idx(up[k]) < Idx(fields[1])
  <2> DEFINE f == up[k]
             h == fields[1]
  <2>1. Later(f, h)
    <3>1. r.upTo <= p.nr /\ p \in pieces
      BY <1>1, <1>4 DEF p
    <3> QED BY <1>1, <1>9, <3>1 DEF Before
  <2>2. IsPart(f) /\ Upto(f) = Size(f) /\ IsPart(h)
    BY <1>7, <1>9 DEF WholeSdus
  <2> HIDE DEF f, h
  <2>3. /\ Idx(f) \in Nat /\ Idx(h) \in Nat /\ Upto(f) \in Nat /\ From(h) \in Nat /\ Upto(h) \in Nat
        /\ From(h) <= Upto(h) /\ Upto(h) <= Size(h) /\ Size(h) \in Nat
    BY <2>2, PartFacts
  <2>4. Idx(f) \in Nat /\ Idx(f) < Idx(h)
    BY <2>1, <2>2, <2>3 DEF Later
  <2> QED BY <2>4 DEF f, h
<1>11. ASSUME NEW k \in DOMAIN up, NEW l \in DOMAIN w
       PROVE  Idx(up[k]) < Idx(w[l])
  <2>1. Idx(fields[1]) \in Nat
    BY <1>7, PartFacts
  <2>2. Idx(up[k]) \in Nat /\ Idx(up[k]) < Idx(fields[1])
    BY <1>10
  <2>3. Idx(w[l]) \in Nat /\ Idx(fields[1]) <= Idx(w[l])
    BY <1>8
  <2> QED BY <2>1, <2>2, <2>3
<1>12. /\ up \in Seq(Seq(Byte)) /\ g \in Seq(Seq(Byte)) /\ m \in Nat /\ DOMAIN up = 1 .. m
       /\ DOMAIN g = 1 .. Len(g) /\ Len(g) \in Nat
  BY <1>6, <1>9 DEF WholeSdus
<1>13. /\ up2 \in Seq(Seq(Byte)) /\ DOMAIN up2 = 1 .. m + Len(g)
       /\ \A k \in DOMAIN up2 :
            \/ k \in DOMAIN up /\ up2[k] = up[k]
            \/ k > m /\ k - m \in DOMAIN g /\ up2[k] = g[k - m]
  <2>1. up2 \in Seq(Seq(Byte)) /\ Len(up2) = m + Len(g)
    BY <1>12
  <2>2. \A k \in 1 .. m + Len(g) : up2[k] = IF k <= m THEN up[k] ELSE g[k - m]
    BY <1>12
  <2>3. \A k \in 1 .. m + Len(g) : k \in 1 .. m \/ (~ (k <= m) /\ k > m /\ k - m \in 1 .. Len(g))
    BY <1>12
  <2> HIDE DEF up2, m
  <2>4. DOMAIN up2 = 1 .. m + Len(g)
    BY <2>1
  <2>5. \A k \in 1 .. m : k <= m
    OBVIOUS
  <2> QED BY <1>12, <2>1, <2>2, <2>3, <2>4, <2>5
<1> HIDE DEF up2, m
<1>14. WholeSdus(up2)
  <2>1. ASSUME NEW k \in DOMAIN up2
        PROVE  /\ IsPart(up2[k])
               /\ From(up2[k]) = 1
               /\ Upto(up2[k]) = Size(up2[k])
    BY <1>6, <1>9, <1>13 DEF WholeSdus
  <2>2. ASSUME NEW k \in DOMAIN up2, NEW l \in DOMAIN up2, k < l
        PROVE  Idx(up2[k]) < Idx(up2[l])
    <3>1. CASE k \in DOMAIN up /\ l \in DOMAIN up /\ up2[k] = up[k] /\ up2[l] = up[l]
      BY <1>9, <2>2, <3>1 DEF WholeSdus
    <3>2. CASE k \in DOMAIN up /\ up2[k] = up[k] /\ l - m \in DOMAIN g /\ up2[l] = g[l - m]
      BY <1>6, <1>11, <3>2
    <3>3. CASE k > m /\ l \in DOMAIN up
      BY <1>12, <1>13, <2>2, <3>3
    <3>4. CASE k - m \in DOMAIN g /\ up2[k] = g[k - m] /\ l - m \in DOMAIN g /\ up2[l] = g[l - m]
      <4>1. k - m < l - m
        BY <1>12, <1>13, <2>2
      <4>2. Idx(g[k - m]) < Idx(g[l - m])
        BY <1>6, <3>4, <4>1 DEF WholeSdus
      <4> QED BY <3>4, <4>2
    <3> QED BY <1>13, <3>1, <3>2, <3>3, <3>4
  <2> QED BY <1>13, <2>1, <2>2 DEF WholeSdus
<1>15. ASSUME NEW k \in DOMAIN up2
       PROVE  Idx(up2[k]) < next /\ Before(up2[k], pdu.nr + 1, pieces)
  <2>1. CASE k \in DOMAIN up /\ up2[k] = up[k]
    <3>1. Before(up[k], r.upTo, pieces) /\ Idx(up[k]) < next
      BY <1>9, <2>1
    <3>2. \A q \in pieces : q.nr \in Nat /\ (pdu.nr + 1 <= q.nr => r.upTo <= q.nr)
      BY <1>4 DEF PiecesFit
    <3>3. Before(up[k], pdu.nr + 1, pieces)
      BY <3>1, <3>2 DEF Before
    <3> QED BY <2>1, <3>1, <3>3
  <2>2. CASE k - m \in DOMAIN g /\ up2[k] = g[k - m]
    BY <1>6, <1>8, <2>2
  <2> QED BY <1>13, <2>1, <2>2
<1>16. UpFits(R, pieces, next)
  BY <1>3, <1>14, <1>15 DEF UpFits, up2
<1>17. KeptFits(R, pieces, end, next)
  <2> SUFFICES ASSUME ~ Closed(w, pdu), R.keep = w[Len(w)]
               PROVE  /\ IsPart(R.keep)
                      /\ From(R.keep) = 1
                      /\ Upto(R.keep) < Size(R.keep)
                      /\ Idx(R.keep) < next
                      /\ Continues(R.keep, R.upTo, pieces, end)
                      /\ \A k \in DOMAIN R.up : Idx(R.up[k]) < Idx(R.keep)
    BY <1>3 DEF KeptFits
  <2>1. w # << >>
    BY DEF Closed
  <2>2. SameEnd(w[Len(w)], fields[n])
    BY <1>2, <2>1 DEF StartsWhole
  <2>3. Continues(w[Len(w)], pdu.nr + 1, pieces, end)
    BY <1>5, <2>2, SameEndSameNext
  <2>4. \A k \in DOMAIN up2 : Idx(up2[k]) < Idx(w[Len(w)])
    BY <1>6, <1>11, <1>13
  <2> QED BY <1>3, <1>6, <1>8, <2>3, <2>4 DEF up2
<1>18. Fits(R, pieces, end, next)
  <2>1. pdu.nr + 1 \in Nat
    BY <1>4
  <2> QED BY <1>3, <1>16, <1>17, <2>1 DEF Fits
<1> QED BY <1>3, <1>12, <1>18 DEF R, up
-----------------------------------------------------------------------------
(* Reassembly of a run of PDUs.                                            *)

\* The PDUs of a run come in the order of their numbers: each of them is the
\* next one or comes later.
InOrder(state, buffer, order, n) ==
  \A i \in 1 .. n : LET r   == state[i - 1]
                        pdu == buffer[order[i]]
                    IN  /\ r.upTo \in Nat
                        /\ pdu.nr \in Nat
                        /\ r.upTo <= pdu.nr
                        /\ NoLoss(r, pdu) <=> pdu.nr = r.upTo

\* The run of the buffer from lo up to hi, when the edge is u.
IsRun(run, order, n, buffer, lo, hi, u) ==
  /\ run = TakenFrom(buffer, lo, hi)
  /\ order = Sorted(run, LowerEdge(Sn(u)))
  /\ n = Cardinality(run)

LEMMA RunIsInOrder ==
  ASSUME NEW buffer, NEW stored, NEW u \in Int, NEW lo \in Nat, NEW hi \in Int, NEW v \in Int,
         u - Window <= lo, Numbered(buffer, lo, v),
         \A sn \in DOMAIN buffer : buffer[sn].nr < u + Window,
         reassembled = lo, expectedSn = Sn(lo),
         NEW run, NEW order, NEW n, IsRun(run, order, n, buffer, lo, hi, u),
         ReassembleAll(buffer, order, stored)
  PROVE  /\ n \in Nat
         /\ order \in [1 .. n -> run]
         /\ \A sn \in run : \E i \in 1 .. n : order[i] = sn
         /\ rxBuffer' = [sn \in stored |-> buffer[sn]]
         /\ \E state : /\ Steps(state, buffer, order, n)
                       /\ ReassembledTo(state[n])
                       /\ InOrder(state, buffer, order, n)
<1> DEFINE base == LowerEdge(Sn(u))
<1>1. u - Window \in Int /\ base = Sn(u - Window)
  BY LowerEdgeOf, SnConstants
<1>2. run \in SUBSET (0 .. SnSpace - 1)
  BY SnType DEF IsRun, TakenFrom, Numbered
<1> HIDE DEF base
<1>3. /\ n \in Nat
      /\ order \in [1 .. n -> run]
      /\ Ascending(order, base)
      /\ \A sn \in run : \E i \in 1 .. n : order[i] = sn
  BY <1>1, <1>2, SortedIsAscending DEF base, IsRun
<1>4. DOMAIN order = 1 .. n
  BY <1>3
<1>10. /\ rxBuffer' = [sn \in stored |-> buffer[sn]]
       /\ \E state : Steps(state, buffer, order, n) /\ ReassembledTo(state[n])
  BY <1>3, <1>4, ReassembleAllSteps
<1>5. PICK state : Steps(state, buffer, order, n) /\ ReassembledTo(state[n])
  BY <1>10
<1>6. \A i \in 0 .. n : DOMAIN state[i] = Parts
  BY <1>3, <1>5, StepsHaveParts
<1> DEFINE N(i) == buffer[order[i]].nr
<1>7. ASSUME NEW i \in 1 .. n
      PROVE  /\ N(i) \in Nat /\ lo <= N(i) /\ N(i) < u + Window
             /\ order[i] = Sn(N(i)) /\ buffer[order[i]].sn = Sn(N(i))
             /\ Distance(order[i], base) = (N(i) - u) + Window
  <2>1. order[i] \in DOMAIN buffer
    BY <1>3 DEF IsRun, TakenFrom
  <2>2. /\ N(i) \in Nat /\ lo <= N(i) /\ N(i) < u + Window
        /\ order[i] = Sn(N(i)) /\ buffer[order[i]].sn = Sn(N(i))
    BY <2>1 DEF Numbered
  <2> DEFINE k == N(i)
  <2> HIDE DEF k
  <2>3. k \in Int /\ u - Window <= k /\ k < u + Window
    BY <2>2, SnConstants DEF k
  <2>4. Distance(Sn(k), base) = (k - u) + Window
    BY <2>3, DistanceInWindow DEF base
  <2> QED BY <2>2, <2>4 DEF k
<1>8. ASSUME NEW i \in 1 .. n
      PROVE  state[i].expected = Sn(N(i) + 1) /\ state[i].upTo = N(i) + 1
  <2> DEFINE x == state[i - 1]
             pdu == buffer[order[i]]
             k == N(i)
  <2>1. i - 1 \in 0 .. n
    BY <1>3
  <2>2. DOMAIN x = Parts /\ state[i] = ReassembleAndDeliver(x, pdu)
    BY <1>5, <1>6, <2>1 DEF Steps
  <2>3. k \in Int /\ pdu.sn = Sn(k) /\ pdu.nr = k
    BY <1>7
  <2>4. (Sn(k) + 1) % SnSpace = Sn(k + 1)
    <3> HIDE DEF k
    <3> QED BY <2>3, SnPlus
  <2> HIDE DEF x, pdu, k, N
  <2>5. /\ ReassembleAndDeliver(x, pdu).expected = (pdu.sn + 1) % SnSpace
        /\ ReassembleAndDeliver(x, pdu).upTo = pdu.nr + 1
    BY <2>2, ReassembleOne
  <2> QED BY <2>2, <2>3, <2>4, <2>5 DEF k
<1>9. InOrder(state, buffer, order, n)
  <2> SUFFICES ASSUME NEW i \in 1 .. n
               PROVE  LET r   == state[i - 1]
                          pdu == buffer[order[i]]
                      IN  /\ r.upTo \in Nat
                          /\ pdu.nr \in Nat
                          /\ r.upTo <= pdu.nr
                          /\ NoLoss(r, pdu) <=> pdu.nr = r.upTo
    BY DEF InOrder
  <2> DEFINE e == state[i - 1].upTo
             x == state[i - 1].expected
             k == N(i)
  <2>1. /\ k \in Nat /\ lo <= k /\ k < u + Window
        /\ buffer[order[i]].sn = Sn(k)
    BY <1>7
  <2>2. e \in Nat /\ lo <= e /\ e <= k /\ x = Sn(e)
    <3>1. CASE i = 1
      <4>1. state[0] = Reassembly
        BY <1>5 DEF Steps
      <4>2. e = lo /\ x = Sn(lo)
        BY <3>1, <4>1 DEF Reassembly
      <4> HIDE DEF e, x, k
      <4> QED BY <2>1, <4>2
    <3>2. CASE i # 1
      <4>1. i - 1 \in 1 .. n /\ i - 1 < i
        BY <1>3, <3>2
      <4> DEFINE h == i - 1
                 j == N(h)
      <4>2. /\ j \in Nat /\ lo <= j
            /\ Distance(order[h], base) = (j - u) + Window
            /\ x = Sn(j + 1) /\ e = j + 1
        BY <1>7, <1>8, <4>1
      <4>3. Distance(order[i], base) = (k - u) + Window
        BY <1>7
      <4>4. Distance(order[h], base) < Distance(order[i], base)
        <5>1. h \in DOMAIN order /\ i \in DOMAIN order /\ h < i
          BY <1>4, <4>1
        <5> HIDE DEF h
        <5> QED BY <1>3, <5>1 DEF Ascending
      <4> HIDE DEF e, x, k, j, h
      <4>5. j < k
        BY <2>1, <4>2, <4>3, <4>4, SnConstants
      <4> QED BY <2>1, <4>2, <4>5
    <3> QED BY <3>1, <3>2
  <2>3. Sn(k) = Sn(e) <=> k = e
    <3> HIDE DEF e, k
    <3>1. k - e < SnSpace /\ e - k < SnSpace
      BY <2>1, <2>2, SnConstants
    <3> QED BY <2>1, <2>2, <3>1, SnIsInjective
  <2>4. NoLoss(state[i - 1], buffer[order[i]]) <=> Sn(k) = Sn(e)
    BY <2>1, <2>2 DEF NoLoss
  <2> QED BY <2>1, <2>2, <2>3, <2>4
<1> QED BY <1>3, <1>5, <1>9, <1>10

\* The steps reassemble a run of PDUs that are pieces of the stream.
RunsOver(state, buffer, order, n, pieces) ==
  /\ n \in Nat
  /\ Steps(state, buffer, order, n)
  /\ InOrder(state, buffer, order, n)
  /\ \A i \in 1 .. n : Framed(buffer[order[i]]) /\ PieceOf(buffer[order[i]]) \in pieces

LEMMA AddedTwice ==
  ASSUME NEW S, NEW s \in Seq(S), NEW t \in Seq(S), NEW u \in Seq(S)
  PROVE  (s \o t) \o u = s \o (t \o u) /\ t \o u \in Seq(S)
OBVIOUS

\* A run hands up whole SDUs, after those that are handed up.
LEMMA RunFits ==
  ASSUME NEW state, NEW buffer, NEW order, NEW n,
         NEW pieces, RunsOver(state, buffer, order, n, pieces),
         NEW end, NEW next, PiecesFit(pieces, end, next),
         Fits(Reassembly, pieces, end, next)
  PROVE  \A i \in 0 .. n : /\ Fits(state[i], pieces, end, next)
                           /\ \E batch \in Seq(Seq(Byte)) : state[i].up = handedUp \o batch
<1> DEFINE P(i) == /\ Fits(state[i], pieces, end, next)
                   /\ \E batch \in Seq(Seq(Byte)) : state[i].up = handedUp \o batch
           S == {i \in Nat : i <= n => P(i)}
<1>1. /\ Steps(state, buffer, order, n) /\ InOrder(state, buffer, order, n)
      /\ \A i \in 1 .. n : Framed(buffer[order[i]]) /\ PieceOf(buffer[order[i]]) \in pieces
  BY DEF RunsOver
<1>2. n \in Nat
  BY DEF RunsOver
<1>3. handedUp \in Seq(Seq(Byte))
  BY DEF Fits, UpFits, WholeSdus, Reassembly
<1>4. 0 \in S
  <2>1. state[0] = Reassembly /\ Reassembly.up = handedUp
    BY <1>1 DEF Steps, Reassembly
  <2>2. handedUp = handedUp \o << >> /\ << >> \in Seq(Seq(Byte))
    BY <1>3
  <2> QED BY <2>1, <2>2
<1>5. ASSUME NEW i \in Nat, i \in S
      PROVE  i + 1 \in S
  <2> HIDE DEF P
  <2> SUFFICES ASSUME i + 1 <= n
               PROVE  P(i + 1)
    BY DEF S
  <2>1. i + 1 \in 1 .. n /\ (i + 1) - 1 = i /\ P(i)
    <3>1. i + 1 \in 1 .. n /\ (i + 1) - 1 = i /\ i <= n
      BY <1>2
    <3> QED BY <1>5, <3>1 DEF S
  <2> USE DEF P
  <2> DEFINE r == state[i]
             pdu == buffer[order[i + 1]]
  <2>2. state[i + 1] = ReassembleAndDeliver(r, pdu)
    BY <1>1, <2>1 DEF Steps
  <2>3. Fits(r, pieces, end, next) /\ Due(r, pdu) /\ PieceOf(pdu) \in pieces
    <3> HIDE DEF r, pdu
    <3>1. Framed(pdu) /\ PieceOf(pdu) \in pieces
      BY <1>1, <2>1 DEF pdu
    <3>2. Fits(r, pieces, end, next)
      BY <2>1 DEF r
    <3>3. r.upTo <= pdu.nr /\ (NoLoss(r, pdu) <=> pdu.nr = r.upTo)
      BY <1>1, <2>1 DEF InOrder, r, pdu
    <3> QED BY <3>1, <3>2, <3>3 DEF Due
  <2>4. PICK b \in Seq(Seq(Byte)) : r.up = handedUp \o b
    BY <2>1
  <2> HIDE DEF r, pdu
  <2>5. /\ Fits(ReassembleAndDeliver(r, pdu), pieces, end, next)
        /\ \E batch \in Seq(Seq(Byte)) : ReassembleAndDeliver(r, pdu).up = r.up \o batch
    BY <2>3, ReassembledFits
  <2>6. PICK c \in Seq(Seq(Byte)) : ReassembleAndDeliver(r, pdu).up = r.up \o c
    BY <2>5
  <2>7. r.up \o c = handedUp \o (b \o c) /\ b \o c \in Seq(Seq(Byte))
    <3> HIDE DEF P, S
    <3>1. (handedUp \o b) \o c = handedUp \o (b \o c) /\ b \o c \in Seq(Seq(Byte))
      BY <1>3, AddedTwice
    <3> QED BY <2>4, <3>1
  <2> QED BY <2>2, <2>5, <2>6, <2>7
<1>6. Nat \subseteq S
  <2> HIDE DEF S
  <2> QED BY <1>4, <1>5, InductionOnSet
<1> HIDE DEF P
<1>7. ASSUME NEW i \in 0 .. n
      PROVE  P(i)
  <2>1. i \in Nat /\ i <= n
    OBVIOUS
  <2> QED BY <1>6, <2>1 DEF S
<1> QED BY <1>7 DEF P
-----------------------------------------------------------------------------
(* The data: the stream that the PDUs carry.                               *)

\* What was sent and is not reassembled, lost or discarded.
Stored == {rxBuffer[sn] : sn \in DOMAIN rxBuffer}
UnderWay == channel \union Stored

Entry == [data : Seq(Byte),
          tag : {"FULL_SDU", "FIRST_SEGMENT", "MIDDLE_SEGMENT", "LAST_SEGMENT"}]

\* A whole SDU, or the rest of one.
EntryFits(entry) ==
  /\ Upto(entry.data) = Size(entry.data)
  /\ entry.tag = IF From(entry.data) = 1 THEN "FULL_SDU" ELSE "LAST_SEGMENT"

FieldsOf(entries) == [k \in DOMAIN entries |-> entries[k].data]
TxFields == FieldsOf(txBuffer)

\* The stream from the PDUs under way to what waits to be sent.
Pieces == {PieceOf(pdu) : pdu \in UnderWay} \union TxOf(sentPdus, TxFields)
End == EndOf(sentPdus, TxFields)

\* The transmission buffer has whole SDUs and, first, the rest of one.
TxBufferInStep ==
  /\ txBuffer \in Seq(Entry)
  /\ \A k \in DOMAIN txBuffer : EntryFits(txBuffer[k])

StreamInStep ==
  /\ TxBufferInStep
  /\ \A pdu \in UnderWay : Framed(pdu)
  /\ PiecesFit(Pieces, End, nextSdu)
  /\ Fits(Reassembly, Pieces, End, nextSdu)

LEMMA FitsCarriesOver ==
  ASSUME NEW r, NEW pieces, NEW end, NEW next \in Int, Fits(r, pieces, end, next),
         NEW pieces2, NEW end2, NEW next2 \in Int, next <= next2,
         NEW nr \in Int, r.upTo <= nr, CarriesOver(pieces, end, pieces2, end2, next, nr)
  PROVE  Fits(r, pieces2, end2, next2)
<1> DEFINE k == r.upTo
<1>1. k \in Nat
  BY DEF Fits
<1>2. ASSUME NEW f, IsPart(f), Idx(f) < next
      PROVE  /\ Idx(f) < next2
             /\ Before(f, k, pieces) => Before(f, k, pieces2)
             /\ Continues(f, k, pieces, end) => Continues(f, k, pieces2, end2)
  <2>1. Idx(f) \in Nat
    BY <1>2, PartFacts
  <2>2. Idx(f) < next2
    BY <1>2, <2>1
  <2> HIDE DEF k
  <2> QED BY <1>1, <1>2, <2>2 DEF CarriesOver, k
<1>3. KeptFits(r, pieces2, end2, next2)
  BY <1>2 DEF Fits, KeptFits
<1>4. UpFits(r, pieces2, next2)
  <2>1. WholeSdus(r.up) /\ \A j \in DOMAIN r.up : Idx(r.up[j]) < next /\ Before(r.up[j], k, pieces)
    BY DEF Fits, UpFits
  <2>2. \A j \in DOMAIN r.up : IsPart(r.up[j])
    BY <2>1 DEF WholeSdus
  <2> HIDE DEF k
  <2>3. \A j \in DOMAIN r.up : Idx(r.up[j]) < next2 /\ Before(r.up[j], k, pieces2)
    BY <1>2, <2>1, <2>2
  <2> QED BY <2>1, <2>3 DEF UpFits, k
<1> QED BY <1>3, <1>4 DEF Fits

\* What the state has reassembled is a state of the reassembly.
LEMMA FitsAfter ==
  ASSUME NEW r, NEW pieces, NEW end, NEW next, Fits(r, pieces, end, next), ReassembledTo(r)
  PROVE  Fits(Reassembly', pieces, end, next)
<1>1. /\ DOMAIN Reassembly' = Parts /\ Reassembly'.upTo = r.upTo /\ Reassembly'.sdus = r.sdus
      /\ Reassembly'.keep = r.keep /\ Reassembly'.up = r.up
  BY DEF ReassembledTo, Reassembly, Parts
<1>2. KeptFits(Reassembly', pieces, end, next) /\ UpFits(Reassembly', pieces, next)
  BY <1>1 DEF Fits, KeptFits, UpFits
<1> QED BY <1>1, <1>2 DEF Fits

LEMMA StreamInitially == UmInit => StreamInStep
<1> SUFFICES ASSUME UmInit
             PROVE  StreamInStep
  OBVIOUS
<1>1. DOMAIN txBuffer = {} /\ DOMAIN rxBuffer = {} /\ txBuffer = << >> /\ channel = {}
  BY DEF UmInit
<1>2. UnderWay = {}
  BY <1>1 DEF UnderWay, Stored
<1>3. TxFields = << >>
  BY <1>1 DEF TxFields, FieldsOf
<1>4. Pieces = {}
  BY <1>2, <1>3 DEF Pieces, TxOf
<1>5. TxBufferInStep
  BY <1>1 DEF TxBufferInStep
<1>6. PiecesFit(Pieces, End, nextSdu)
  BY <1>4 DEF UmInit, PiecesFit
<1>7. Fits(Reassembly, Pieces, End, nextSdu)
  <2>1. /\ DOMAIN Reassembly = Parts /\ Reassembly.upTo = 0 /\ Reassembly.sdus = << >>
        /\ Reassembly.keep = << >> /\ Reassembly.up = << >>
    BY DEF UmInit, Reassembly, Parts
  <2>2. KeptFits(Reassembly, Pieces, End, nextSdu)
    BY <2>1 DEF KeptFits
  <2>3. UpFits(Reassembly, Pieces, nextSdu)
    BY <2>1 DEF UpFits, WholeSdus
  <2> QED BY <2>1, <2>2, <2>3 DEF Fits
<1> QED BY <1>2, <1>5, <1>6, <1>7 DEF StreamInStep

\* Fewer PDUs under way, and nothing new at the transmitter.
LEMMA FewerUnderWay ==
  ASSUME StreamInStep, UNCHANGED <<txBuffer, sentPdus, nextSdu>>,
         UnderWay' \subseteq UnderWay, NEW nr
  PROVE  /\ TxBufferInStep'
         /\ \A pdu \in UnderWay' : Framed(pdu)
         /\ PiecesFit(Pieces', End', nextSdu')
         /\ CarriesOver(Pieces, End, Pieces', End', nextSdu, nr)
<1>1. TxFields' = TxFields /\ End' = End /\ TxBufferInStep'
  BY DEF StreamInStep, TxFields, End, TxBufferInStep
<1>2. Pieces' \in SUBSET Pieces
  BY <1>1 DEF Pieces
<1> DEFINE P == Pieces
           Q == Pieces'
           e == End
<1>3. PiecesFit(P, e, nextSdu) /\ Q \in SUBSET P
  BY <1>2 DEF StreamInStep
<1> HIDE DEF P, Q, e
<1>4. PiecesFit(Q, e, nextSdu) /\ CarriesOver(P, e, Q, e, nextSdu, nr)
  BY <1>3, FewerPieces
<1> QED BY <1>1, <1>4 DEF P, Q, e, StreamInStep

\* The state that reassembles a run of what is under way, and what is left.
IsReassembled(buffer, run, state, order, n) ==
  /\ order \in [1 .. n -> run]
  /\ \A sn \in run : \E i \in 1 .. n : order[i] = sn
  /\ rxBuffer' = [sn \in DOMAIN buffer \ run |-> buffer[sn]]
  /\ ReassembledTo(state[n])
  /\ RunsOver(state, buffer, order, n, Pieces)

LEMMA RunOfPieces ==
  ASSUME WindowInStep, StreamInStep, NEW buffer, NEW m \in Int, RunTo(buffer, m),
         \A sn \in DOMAIN buffer : buffer[sn] \in UnderWay,
         received' \in Int, received - Window <= reassembled
  PROVE  \E state, order, n :
           IsReassembled(buffer, TakenFrom(buffer, reassembled, m), state, order, n)
<1> DEFINE run == TakenFrom(buffer, reassembled, m)
           order == Sorted(run, LowerEdge(Sn(received)))
           n == Cardinality(run)
           stored == DOMAIN buffer \ run
<1>1. /\ received \in Int /\ reassembled \in Nat /\ expectedSn = Sn(reassembled)
  BY DEF WindowInStep, EdgesInStep
<1>2. /\ Numbered(buffer, reassembled, received')
      /\ \A sn \in DOMAIN buffer : buffer[sn].nr < received + Window
      /\ ReassembleAll(buffer, order, stored)
  BY DEF RunTo
<1> HIDE DEF order, n, stored
<1>3. /\ n \in Nat
      /\ order \in [1 .. n -> run]
      /\ \A sn \in run : \E i \in 1 .. n : order[i] = sn
      /\ rxBuffer' = [sn \in stored |-> buffer[sn]]
      /\ \E state : /\ Steps(state, buffer, order, n)
                    /\ ReassembledTo(state[n])
                    /\ InOrder(state, buffer, order, n)
  <2> HIDE DEF run
  <2>1. IsRun(run, order, n, buffer, reassembled, m, received)
    BY DEF run, order, n, IsRun
  <2> QED BY <1>1, <1>2, <2>1, RunIsInOrder
<1>4. PICK state : /\ Steps(state, buffer, order, n)
                   /\ ReassembledTo(state[n])
                   /\ InOrder(state, buffer, order, n)
  BY <1>3
<1>5. \A i \in 1 .. n : Framed(buffer[order[i]]) /\ PieceOf(buffer[order[i]]) \in Pieces
  <2> SUFFICES ASSUME NEW i \in 1 .. n
               PROVE  Framed(buffer[order[i]]) /\ PieceOf(buffer[order[i]]) \in Pieces
    OBVIOUS
  <2>1. order[i] \in DOMAIN buffer
    BY <1>3 DEF TakenFrom
  <2> QED BY <2>1 DEF StreamInStep, Pieces
<1>6. IsReassembled(buffer, run, state, order, n)
  <2> HIDE DEF run
  <2> QED BY <1>3, <1>4, <1>5 DEF IsReassembled, RunsOver, stored
<1> QED BY <1>6

LEMMA RunKeepsStream ==
  ASSUME WindowInStep, StreamInStep, NEW buffer, NEW m \in Int, RunTo(buffer, m),
         \A sn \in DOMAIN buffer : buffer[sn] \in UnderWay,
         received' \in Int, received - Window <= reassembled,
         channel' \subseteq channel, UNCHANGED <<txBuffer, sentPdus, nextSdu>>
  PROVE  StreamInStep' /\ \E batch \in Seq(Seq(Byte)) : handedUp' = handedUp \o batch
<1> DEFINE run == TakenFrom(buffer, reassembled, m)
<1>1. \E state, order, n : IsReassembled(buffer, run, state, order, n)
  BY RunOfPieces
<1> HIDE DEF run
<1>2. PICK state, order, n : IsReassembled(buffer, run, state, order, n)
  BY <1>1
<1>3. /\ rxBuffer' = [sn \in DOMAIN buffer \ run |-> buffer[sn]]
      /\ ReassembledTo(state[n])
      /\ RunsOver(state, buffer, order, n, Pieces)
      /\ n \in Nat
  BY <1>2 DEF IsReassembled, RunsOver
<1>4. PiecesFit(Pieces, End, nextSdu) /\ Fits(Reassembly, Pieces, End, nextSdu)
  BY DEF StreamInStep
<1>5. /\ Fits(state[n], Pieces, End, nextSdu)
      /\ \E batch \in Seq(Seq(Byte)) : state[n].up = handedUp \o batch
  <2> DEFINE P == Pieces
             e == End
  <2> HIDE DEF P, e
  <2>1. PiecesFit(P, e, nextSdu) /\ Fits(Reassembly, P, e, nextSdu)
        /\ RunsOver(state, buffer, order, n, P)
    BY <1>3, <1>4 DEF P, e
  <2>2. n \in 0 .. n
    BY <1>3
  <2>3. \A i \in 0 .. n : /\ Fits(state[i], P, e, nextSdu)
                           /\ \E batch \in Seq(Seq(Byte)) : state[i].up = handedUp \o batch
    BY <2>1, RunFits
  <2> QED BY <2>2, <2>3 DEF P, e
<1>6. Fits(Reassembly', Pieces, End, nextSdu)
  <2> DEFINE P == Pieces
             e == End
  <2> HIDE DEF P, e
  <2>1. Fits(state[n], P, e, nextSdu)
    BY <1>5 DEF P, e
  <2>2. Fits(Reassembly', P, e, nextSdu)
    BY <1>3, <2>1, FitsAfter
  <2> QED BY <2>2 DEF P, e
<1>7. UnderWay' \subseteq UnderWay
  <2>1. Stored' \subseteq {buffer[sn] : sn \in DOMAIN buffer}
    BY <1>3 DEF Stored
  <2> QED BY <2>1 DEF UnderWay
<1>8. \A nr : /\ TxBufferInStep'
              /\ \A pdu \in UnderWay' : Framed(pdu)
              /\ PiecesFit(Pieces', End', nextSdu')
              /\ CarriesOver(Pieces, End, Pieces', End', nextSdu, nr)
  BY <1>7, FewerUnderWay
<1>9. Fits(Reassembly', Pieces', End', nextSdu')
  <2> DEFINE P == Pieces
             e == End
             Q == Pieces'
             d == End'
             r == Reassembly'
             k == r.upTo
  <2>1. k \in Nat /\ nextSdu \in Int /\ nextSdu' = nextSdu
    BY <1>4, <1>6 DEF Fits, PiecesFit
  <2>2. Fits(r, P, e, nextSdu) /\ CarriesOver(P, e, Q, d, nextSdu, k)
    BY <1>6, <1>8
  <2> HIDE DEF P, e, Q, d, r
  <2>3. k <= k /\ nextSdu <= nextSdu /\ k \in Int
    BY <2>1
  <2>4. Fits(r, Q, d, nextSdu)
    BY <2>1, <2>2, <2>3, FitsCarriesOver
  <2> QED BY <2>1, <2>4 DEF Q, d, r
<1>10. StreamInStep'
  BY <1>8, <1>9 DEF StreamInStep
<1>11. handedUp' = state[n].up
  BY <1>3 DEF ReassembledTo
<1> QED BY <1>5, <1>10, <1>11

LEMMA SameSequence ==
  ASSUME NEW S, NEW s \in Seq(S), NEW t \in Seq(S), Len(s) = Len(t),
         \A k \in 1 .. Len(s) : s[k] = t[k]
  PROVE  s = t
<1>1. s \in [1 .. Len(s) -> S] /\ t \in [1 .. Len(s) -> S]
  OBVIOUS
<1> QED BY <1>1

LEMMA FieldsOfFacts ==
  ASSUME NEW s \in Seq(Entry)
  PROVE  /\ FieldsOf(s) \in Seq(Seq(Byte))
         /\ Len(FieldsOf(s)) = Len(s)
         /\ DOMAIN FieldsOf(s) = DOMAIN s
         /\ \A k \in DOMAIN s : FieldsOf(s)[k] = s[k].data
<1>1. DOMAIN s = 1 .. Len(s) /\ Len(s) \in Nat
  OBVIOUS
<1>2. \A x \in Entry : x.data \in Seq(Byte)
  BY DEF Entry
<1>3. \A k \in 1 .. Len(s) : s[k] \in Entry
  OBVIOUS
<1>4. FieldsOf(s) \in [1 .. Len(s) -> Seq(Byte)]
  BY <1>1, <1>2, <1>3 DEF FieldsOf
<1>5. \A k \in DOMAIN s : FieldsOf(s)[k] = s[k].data
  BY DEF FieldsOf
<1> QED BY <1>1, <1>4, <1>5

LEMMA FieldsOfOne ==
  ASSUME NEW x \in Entry
  PROVE  <<x>> \in Seq(Entry) /\ FieldsOf(<<x>>) = <<x.data>>
<1> DEFINE s == <<x>>
           t == <<x.data>>
<1>1. s \in Seq(Entry) /\ Len(s) = 1 /\ s[1] = x
  OBVIOUS
<1>2. x.data \in Seq(Byte)
  BY DEF Entry
<1>3. t \in Seq(Seq(Byte)) /\ Len(t) = 1 /\ t[1] = x.data
  BY <1>2
<1> HIDE DEF s, t
<1>4. /\ FieldsOf(s) \in Seq(Seq(Byte)) /\ Len(FieldsOf(s)) = 1
      /\ \A k \in DOMAIN s : FieldsOf(s)[k] = s[k].data
  BY <1>1, FieldsOfFacts
<1>5. FieldsOf(s)[1] = x.data
  BY <1>1, <1>4
<1>6. \A k \in 1 .. Len(t) : FieldsOf(s)[k] = t[k]
  BY <1>3, <1>5
<1>7. FieldsOf(s) = t
  BY <1>3, <1>4, <1>6, SameSequence
<1> QED BY <1>1, <1>7 DEF s, t

LEMMA FieldsJoined ==
  ASSUME NEW s \in Seq(Entry), NEW t \in Seq(Entry)
  PROVE  s \o t \in Seq(Entry) /\ FieldsOf(s \o t) = FieldsOf(s) \o FieldsOf(t)
<1> DEFINE c == s \o t
           m == Len(s)
           n == Len(t)
<1>1. /\ m \in Nat /\ n \in Nat /\ c \in Seq(Entry) /\ Len(c) = m + n
      /\ \A k \in 1 .. m + n : c[k] = IF k <= m THEN s[k] ELSE t[k - m]
  OBVIOUS
<1> DEFINE f == FieldsOf(s)
           g == FieldsOf(t)
           h == FieldsOf(c)
<1>2. f \in Seq(Seq(Byte)) /\ Len(f) = m /\ \A k \in 1 .. m : f[k] = s[k].data
  BY FieldsOfFacts
<1>3. g \in Seq(Seq(Byte)) /\ Len(g) = n /\ \A k \in 1 .. n : g[k] = t[k].data
  BY FieldsOfFacts
<1>4. h \in Seq(Seq(Byte)) /\ Len(h) = m + n /\ \A k \in 1 .. m + n : h[k] = c[k].data
  <2> HIDE DEF c, m, n
  <2> QED BY <1>1, FieldsOfFacts
<1> HIDE DEF c, f, g, h, m, n
<1>5. /\ f \o g \in Seq(Seq(Byte)) /\ Len(f \o g) = m + n
      /\ \A k \in 1 .. m + n : (f \o g)[k] = IF k <= m THEN f[k] ELSE g[k - m]
  <2>1. /\ f \o g \in Seq(Seq(Byte)) /\ Len(f \o g) = Len(f) + Len(g)
        /\ \A k \in 1 .. Len(f) + Len(g) : (f \o g)[k] = IF k <= Len(f) THEN f[k] ELSE g[k - Len(f)]
    BY <1>2, <1>3, JoinedFacts
  <2> QED BY <1>2, <1>3, <2>1
<1>6. \A k \in 1 .. m + n : (f \o g)[k] = h[k]
  <2>1. \A k \in 1 .. m + n : k \in 1 .. m \/ (~ (k <= m) /\ k - m \in 1 .. n)
    BY <1>1
  <2>2. \A k \in 1 .. m : k <= m
    BY <1>1
  <2>3. ASSUME NEW k \in 1 .. m
        PROVE  (f \o g)[k] = h[k]
    <3>1. k \in 1 .. m + n /\ k <= m
      BY <1>1
    <3> QED BY <1>1, <1>2, <1>4, <1>5, <3>1
  <2>4. ASSUME NEW k \in 1 .. m + n, ~ (k <= m), k - m \in 1 .. n
        PROVE  (f \o g)[k] = h[k]
    BY <1>1, <1>3, <1>4, <1>5, <2>4
  <2> QED BY <2>1, <2>3, <2>4
<1>7. f \o g = h
  BY <1>4, <1>5, <1>6, SameSequence
<1> QED BY <1>1, <1>7 DEF c, f, g, h

LEMMA FieldsOfSome ==
  ASSUME NEW s \in Seq(Entry), NEW i \in Nat, NEW j \in Nat, 1 <= i, i <= j + 1, j <= Len(s)
  PROVE  SubSeq(s, i, j) \in Seq(Entry) /\ FieldsOf(SubSeq(s, i, j)) = SubSeq(FieldsOf(s), i, j)
<1> DEFINE c == SubSeq(s, i, j)
           f == FieldsOf(s)
           g == SubSeq(f, i, j)
           h == FieldsOf(c)
           n == (j - i) + 1
<1>1. c \in Seq(Entry) /\ Len(c) = n /\ \A k \in 1 .. n : c[k] = s[(i + k) - 1]
  BY SubSeqFacts
<1>2. f \in Seq(Seq(Byte)) /\ Len(f) = Len(s) /\ \A k \in 1 .. Len(s) : f[k] = s[k].data
  BY FieldsOfFacts
<1> HIDE DEF c, f
<1>3. g \in Seq(Seq(Byte)) /\ Len(g) = n /\ \A k \in 1 .. n : g[k] = f[(i + k) - 1]
  BY <1>2, SubSeqFacts
<1>4. h \in Seq(Seq(Byte)) /\ Len(h) = n /\ \A k \in 1 .. n : h[k] = c[k].data
  <2>1. DOMAIN c = 1 .. n
    BY <1>1
  <2> HIDE DEF n
  <2> QED BY <1>1, <2>1, FieldsOfFacts
<1> HIDE DEF g, h
<1>5. \A k \in 1 .. n : (i + k) - 1 \in 1 .. Len(s)
  <2>1. Len(s) \in Nat
    OBVIOUS
  <2> QED BY <2>1
<1> HIDE DEF n
<1>6. \A k \in 1 .. Len(g) : g[k] = h[k]
  BY <1>1, <1>2, <1>3, <1>4, <1>5
<1>7. g = h
  BY <1>3, <1>4, <1>6, SameSequence
<1> QED BY <1>1, <1>7 DEF c, f, g, h

\* Facts about entries of the transmission buffer.
LEMMA TxFieldsFacts ==
  ASSUME WindowInStep, StreamInStep
  PROVE  /\ TxFields \in Seq(Seq(Byte)) /\ Len(TxFields) = Len(txBuffer)
         /\ DOMAIN TxFields = DOMAIN txBuffer /\ DOMAIN txBuffer = 1 .. Len(txBuffer)
         /\ (TxFields = << >> <=> txBuffer = << >>)
         /\ \A k \in DOMAIN TxFields : /\ TxFields[k] = txBuffer[k].data
                                       /\ Upto(TxFields[k]) = Size(TxFields[k])
         /\ txBuffer # << >> => Chain(TxFields)
         /\ sentPdus \in Nat
         /\ \A pdu \in UnderWay : pdu.nr \in Nat /\ pdu.nr < sentPdus
         /\ reassembled \in Nat /\ reassembled <= sentPdus
<1>1. txBuffer \in Seq(Entry)
  BY DEF StreamInStep, TxBufferInStep
<1>2. DOMAIN txBuffer = 1 .. Len(txBuffer) /\ Len(txBuffer) \in Nat
  BY <1>1
<1>5. /\ TxFields \in Seq(Seq(Byte)) /\ Len(TxFields) = Len(txBuffer)
      /\ DOMAIN TxFields = DOMAIN txBuffer
      /\ \A k \in DOMAIN txBuffer : TxFields[k] = txBuffer[k].data
  BY <1>1, FieldsOfFacts DEF TxFields
<1>6. TxFields = << >> <=> txBuffer = << >>
  BY <1>1, <1>5
<1>7. \A k \in DOMAIN TxFields : TxFields[k] = txBuffer[k].data /\ Upto(TxFields[k]) = Size(TxFields[k])
  BY <1>5 DEF StreamInStep, TxBufferInStep, EntryFits
<1>8. txBuffer # << >> => Chain(TxFields)
  <2> SUFFICES ASSUME txBuffer # << >>
               PROVE  Chain(TxFields)
    OBVIOUS
  <2> DEFINE q == [nr |-> sentPdus, fields |-> TxFields]
  <2>1. q \in Pieces
    BY <1>6 DEF Pieces, TxOf
  <2>2. Chain(q.fields)
    <3> HIDE DEF q
    <3> QED BY <2>1 DEF StreamInStep, PiecesFit
  <2> QED BY <2>2
<1>9. /\ sentPdus \in Nat /\ reassembled \in Nat /\ received \in Nat
      /\ reassembled <= received /\ received <= sentPdus
  BY DEF WindowInStep, EdgesInStep
<1>10. \A pdu \in channel : pdu.nr \in Nat /\ pdu.nr < sentPdus
  BY DEF WindowInStep, ChannelInStep
<1>11. \A sn \in DOMAIN rxBuffer : rxBuffer[sn].nr \in Nat /\ rxBuffer[sn].nr < sentPdus
  <2>1. \A sn \in DOMAIN rxBuffer : rxBuffer[sn].nr \in Nat /\ rxBuffer[sn].nr < received
    BY DEF WindowInStep, BufferInStep
  <2> QED BY <1>9, <2>1
<1>12. \A pdu \in UnderWay : pdu.nr \in Nat /\ pdu.nr < sentPdus
  BY <1>10, <1>11 DEF UnderWay, Stored
<1> QED BY <1>2, <1>5, <1>6, <1>7, <1>8, <1>9, <1>12

\* More SDUs that are not queued.
LEMMA MoreSdus ==
  ASSUME NEW pieces, NEW end, NEW next, PiecesFit(pieces, end, next)
  PROVE  /\ PiecesFit(pieces, end, next + 1)
         /\ \A nr : CarriesOver(pieces, end, pieces, end, next, nr)
<1>1. next \in Nat /\ \A p \in pieces : Chain(p.fields) /\ Idx(LastOf(p)) < next
  BY DEF PiecesFit
<1>2. ASSUME NEW p \in pieces
      PROVE  Idx(LastOf(p)) < next + 1
  <2>1. IsPart(LastOf(p))
    BY <1>1, ChainFacts DEF LastOf
  <2>2. Idx(LastOf(p)) \in Nat
    BY <2>1, PartFacts
  <2> QED BY <1>1, <2>2
<1> QED BY <1>1, <1>2 DEF PiecesFit, CarriesOver

\* The transmission buffer takes an SDU.
LEMMA SduIsQueued ==
  ASSUME WindowInStep, StreamInStep, NEW n \in SduSizes,
         txBuffer' = Append(txBuffer, [data |-> Sdu(nextSdu, n), tag |-> "FULL_SDU"])
  PROVE  /\ TxBufferInStep'
         /\ TxFields' = Append(TxFields, Sdu(nextSdu, n))
         /\ IsPart(Sdu(nextSdu, n)) /\ Idx(Sdu(nextSdu, n)) = nextSdu
         /\ From(Sdu(nextSdu, n)) = 1 /\ Upto(Sdu(nextSdu, n)) = Size(Sdu(nextSdu, n))
<1> DEFINE fields == TxFields
           fields2 == TxFields'
           s == Sdu(nextSdu, n)
           x == [data |-> s, tag |-> "FULL_SDU"]
<1>0. /\ IsPart(s) /\ Idx(s) = nextSdu /\ From(s) = 1 /\ Upto(s) = Size(s)
  <2>1. nextSdu \in Nat
    BY DEF StreamInStep, PiecesFit
  <2> QED BY <2>1, SduIsPart
<1>1. IsPart(s) /\ From(s) = 1 /\ Upto(s) = Size(s) /\ s \in Seq(Byte)
  <2> HIDE DEF s, x
  <2> QED BY <1>0, PartFacts
<1>2. x \in Entry /\ x.data = s /\ x.tag = "FULL_SDU"
  <2> HIDE DEF s
  <2>1. s \in Seq(Byte)
    BY <1>1
  <2> QED BY <2>1 DEF Entry
<1>3. txBuffer \in Seq(Entry)
  BY DEF StreamInStep, TxBufferInStep
<1> HIDE DEF s, x
<1>4. /\ txBuffer' \in Seq(Entry)
      /\ Len(txBuffer') = Len(txBuffer) + 1
      /\ Len(txBuffer) \in Nat
      /\ \A k \in 1 .. Len(txBuffer) : txBuffer'[k] = txBuffer[k]
      /\ txBuffer'[Len(txBuffer) + 1] = x
  BY <1>2, <1>3 DEF x, s
<1>5. \A k \in DOMAIN txBuffer' : \/ k \in DOMAIN txBuffer /\ txBuffer'[k] = txBuffer[k]
                                  \/ txBuffer'[k] = x
  BY <1>3, <1>4
<1>6. TxBufferInStep'
  <2>1. \A k \in DOMAIN txBuffer : EntryFits(txBuffer[k])
    BY DEF StreamInStep, TxBufferInStep
  <2>2. EntryFits(x)
    BY <1>1, <1>2 DEF EntryFits
  <2> QED BY <1>4, <1>5, <2>1, <2>2 DEF TxBufferInStep
<1>7. fields2 = Append(fields, s)
  <2>1. FieldsOf(<<x>>) = <<s>> /\ <<x>> \in Seq(Entry)
    BY <1>2, FieldsOfOne
  <2>2. txBuffer' = txBuffer \o <<x>>
    BY <1>2, <1>3 DEF x, s
  <2>3. FieldsOf(txBuffer \o <<x>>) = FieldsOf(txBuffer) \o FieldsOf(<<x>>)
    BY <1>3, <2>1, FieldsJoined
  <2>4. fields2 = fields \o <<s>>
    BY <2>1, <2>2, <2>3 DEF TxFields
  <2>5. fields \in Seq(Seq(Byte))
    BY TxFieldsFacts
  <2> HIDE DEF fields, fields2
  <2> QED BY <1>1, <2>4, <2>5
<1> QED BY <1>0, <1>6, <1>7 DEF s

LEMMA TransmitKeepsStream ==
  ASSUME WindowInStep, StreamInStep, TransmitPdcpPdu
  PROVE  StreamInStep'
<1>1. PICK n \in SduSizes :
        /\ nextSdu' = nextSdu + 1
        /\ \/ txBuffer' = Append(txBuffer, [data |-> Sdu(nextSdu, n), tag |-> "FULL_SDU"])
           \/ txBuffer' = txBuffer
        /\ UNCHANGED <<sentPdus, umRxVars, channel>>
  BY DEF TransmitPdcpPdu
<1>2. UNCHANGED <<rxBuffer, expectedSn, keepS0, sdusBuffer, reassembled, handedUp>>
  BY <1>1 DEF umRxVars
<1>3. UnderWay' = UnderWay /\ Reassembly' = Reassembly /\ sentPdus' = sentPdus
  BY <1>1, <1>2 DEF UnderWay, Stored, Reassembly
<1> DEFINE sent == {PieceOf(pdu) : pdu \in UnderWay}
           fields == TxFields
           fields2 == TxFields'
           P == Pieces
           e == End
           Q == Pieces'
           d == End'
           r == Reassembly
<1>4. nextSdu \in Nat /\ PiecesFit(P, e, nextSdu) /\ Fits(r, P, e, nextSdu) /\ r.upTo = reassembled
  BY DEF StreamInStep, PiecesFit, Reassembly
<1>5. /\ TxBufferInStep'
      /\ PiecesFit(Q, d, nextSdu + 1)
      /\ CarriesOver(P, e, Q, d, nextSdu, sentPdus)
  <2>1. CASE txBuffer' = txBuffer
    <3>1. TxBufferInStep' /\ Q = P /\ d = e
      BY <1>3, <2>1 DEF StreamInStep, TxBufferInStep, Pieces, End, TxFields
    <3> HIDE DEF P, Q, d, e
    <3> QED BY <1>4, <3>1, MoreSdus
  <2>2. CASE txBuffer' = Append(txBuffer, [data |-> Sdu(nextSdu, n), tag |-> "FULL_SDU"])
    <3> DEFINE s == Sdu(nextSdu, n)
    <3>1. TxBufferInStep' /\ fields2 = Append(fields, s)
      BY <2>2, SduIsQueued
    <3>2. /\ \A p \in sent : p.nr < sentPdus
          /\ \A k \in DOMAIN fields : Upto(fields[k]) = Size(fields[k])
          /\ fields = << >> => DOMAIN fields = {}
          /\ sentPdus \in Nat
      <4>1. \A pdu \in UnderWay : PieceOf(pdu).nr = pdu.nr
        BY DEF PieceOf
      <4> QED BY <4>1, TxFieldsFacts
    <3>3. /\ P = sent \union TxOf(sentPdus, fields) /\ e = EndOf(sentPdus, fields)
          /\ Q = sent \union TxOf(sentPdus, fields2) /\ d = EndOf(sentPdus, fields2)
      BY <1>3 DEF Pieces, End
    <3> HIDE DEF fields, fields2, P, Q, d, e, sent
    <3>4. LET f2 == Append(fields, Sdu(nextSdu, n))
           IN  /\ PiecesFit(sent \union TxOf(sentPdus, f2), EndOf(sentPdus, f2), nextSdu + 1)
               /\ CarriesOver(sent \union TxOf(sentPdus, fields), EndOf(sentPdus, fields),
                              sent \union TxOf(sentPdus, f2), EndOf(sentPdus, f2), nextSdu, sentPdus)
      BY <1>4, <3>2, <3>3, SduAppended
    <3> QED BY <3>1, <3>3, <3>4 DEF s
  <2> QED BY <1>1, <2>1, <2>2
<1>6. reassembled <= sentPdus /\ sentPdus \in Int
  BY TxFieldsFacts
<1>7. Fits(r, Q, d, nextSdu + 1)
  <2> HIDE DEF P, Q, d, e, r
  <2>1. nextSdu \in Int /\ nextSdu + 1 \in Int /\ nextSdu <= nextSdu + 1
    BY <1>4
  <2> QED BY <1>4, <1>5, <1>6, <2>1, FitsCarriesOver
<1> QED BY <1>1, <1>3, <1>5, <1>7 DEF StreamInStep

\* The PDU made of entries of the transmission buffer.
LEMMA PduOfEntries ==
  ASSUME NEW s \in Seq(Entry), s # << >>,
         s[1].tag \in {"FULL_SDU", "FIRST_SEGMENT"} <=> From(s[1].data) = 1,
         s[Len(s)].tag \in {"FULL_SDU", "LAST_SEGMENT"} <=> Upto(s[Len(s)].data) = Size(s[Len(s)].data)
  PROVE  /\ Framed(NewRlcPdu(s))
         /\ PieceOf(NewRlcPdu(s)) = [nr |-> sentPdus, fields |-> FieldsOf(s)]
<1> DEFINE pdu == NewRlcPdu(s)
           f == FieldsOf(s)
           n == Len(s)
<1>1. 1 \in DOMAIN s /\ n \in DOMAIN s
  OBVIOUS
<1>2. Len(f) = n /\ f[1] = s[1].data /\ f[n] = s[n].data
  BY <1>1, FieldsOfFacts
<1> HIDE DEF n
<1>3. /\ pdu.nr = sentPdus /\ pdu.fields = f
      /\ pdu.firstByte = (s[1].tag \in {"FULL_SDU", "FIRST_SEGMENT"})
      /\ pdu.lastByte = (s[n].tag \in {"FULL_SDU", "LAST_SEGMENT"})
  BY DEF NewRlcPdu, FieldsOf, n
<1> HIDE DEF pdu, f
<1>4. FirstOf(pdu) = s[1].data /\ LastOf(pdu) = s[n].data
  BY <1>2, <1>3 DEF FirstOf, LastOf
<1>5. pdu.firstByte = (From(FirstOf(pdu)) = 1)
  BY <1>3, <1>4
<1>6. pdu.lastByte = (Upto(LastOf(pdu)) = Size(LastOf(pdu)))
  BY <1>3, <1>4 DEF n
<1> QED BY <1>3, <1>5, <1>6 DEF pdu, f, Framed, PieceOf

\* What goes into a PDU and what is given back are a split of what waits.
GrantSplits(taken, back) ==
  /\ taken \in Seq(Entry) /\ taken # << >>
  /\ taken[1].tag \in {"FULL_SDU", "FIRST_SEGMENT"} <=> From(taken[1].data) = 1
  /\ taken[Len(taken)].tag \in {"FULL_SDU", "LAST_SEGMENT"}
       <=> Upto(taken[Len(taken)].data) = Size(taken[Len(taken)].data)
  /\ back \in Seq(Entry)
  /\ \A k \in DOMAIN back : EntryFits(back[k])
  /\ IsSplit(TxFields, FieldsOf(taken), FieldsOf(back))

LEMMA WholeGrant ==
  ASSUME WindowInStep, StreamInStep, NEW w \in Nat, 1 <= w, w <= Len(txBuffer)
  PROVE  GrantSplits(Taken(w, 0), GivenBack(w, 0))
<1> DEFINE n == Len(txBuffer)
           taken == SubSeq(txBuffer, 1, w)
           v == w + 1
           back == SubSeq(txBuffer, v, n)
<1>1. /\ txBuffer \in Seq(Entry) /\ n \in Nat /\ DOMAIN txBuffer = 1 .. n
      /\ \A k \in 1 .. n : EntryFits(txBuffer[k])
      /\ Len(TxFields) = n
  BY TxFieldsFacts DEF StreamInStep, TxBufferInStep
<1>2. Taken(w, 0) = taken
  <2>1. taken \in Seq(Entry)
    <3> HIDE DEF n
    <3> QED BY <1>1, SubSeqFacts DEF n
  <2>2. taken \o << >> = taken
    <3> HIDE DEF taken
    <3> QED BY <2>1
  <2> QED BY <2>2 DEF Taken
<1>3. GivenBack(w, 0) = back
  BY DEF GivenBack
<1>4. /\ taken \in Seq(Entry) /\ Len(taken) = w /\ \A k \in 1 .. w : taken[k] = txBuffer[k]
      /\ FieldsOf(taken) = SubSeq(TxFields, 1, w)
  <2>1. (w - 1) + 1 = w /\ 1 <= w + 1 /\ w <= Len(txBuffer) /\ 1 \in Nat
    OBVIOUS
  <2>2. /\ taken \in Seq(Entry) /\ Len(taken) = (w - 1) + 1
        /\ \A k \in 1 .. (w - 1) + 1 : taken[k] = txBuffer[(1 + k) - 1]
    BY <1>1, <2>1, SubSeqFacts
  <2>3. FieldsOf(taken) = SubSeq(TxFields, 1, w)
    BY <1>1, <2>1, FieldsOfSome DEF TxFields
  <2>4. \A k \in 1 .. w : (1 + k) - 1 = k
    OBVIOUS
  <2> HIDE DEF taken
  <2> QED BY <2>1, <2>2, <2>3, <2>4
<1>5. /\ back \in Seq(Entry)
      /\ \A k \in DOMAIN back : \E l \in 1 .. n : back[k] = txBuffer[l]
      /\ FieldsOf(back) = SubSeq(TxFields, v, n)
  <2>1. v \in Nat /\ 1 <= v /\ v <= n + 1 /\ n <= Len(txBuffer)
    BY <1>1
  <2> HIDE DEF v
  <2>2. /\ back \in Seq(Entry) /\ DOMAIN back = 1 .. (n - v) + 1
        /\ \A k \in 1 .. (n - v) + 1 : back[k] = txBuffer[(v + k) - 1]
    <3> HIDE DEF n
    <3> QED BY <1>1, <2>1, SubSeqFacts
  <2>3. FieldsOf(back) = SubSeq(TxFields, v, n)
    <3> HIDE DEF n
    <3> QED BY <1>1, <2>1, FieldsOfSome DEF TxFields
  <2>4. \A k \in 1 .. (n - v) + 1 : (v + k) - 1 \in 1 .. n
    <3> HIDE DEF n
    <3> QED BY <1>1, <2>1
  <2> QED BY <2>2, <2>3, <2>4
<1>6. 1 \in 1 .. n /\ w \in 1 .. n /\ 1 \in 1 .. w /\ w \in 1 .. w
  BY <1>1
<1>7. txBuffer # << >>
  BY <1>1, <1>6
<1>8. Chain(TxFields) /\ \A k \in DOMAIN TxFields : Upto(TxFields[k]) = Size(TxFields[k])
  BY <1>7, TxFieldsFacts
<1> HIDE DEF taken, back, n
<1>9. IsSplit(TxFields, FieldsOf(taken), FieldsOf(back))
  <2>1. IsSplit(TxFields, SubSeq(TxFields, 1, w), SubSeq(TxFields, w + 1, Len(TxFields)))
    BY <1>1, <1>8, SplitWhole DEF n
  <2> QED BY <1>1, <1>4, <1>5, <2>1 DEF v
<1>10. /\ taken # << >> /\ EntryFits(taken[1]) /\ EntryFits(taken[w])
  BY <1>1, <1>4, <1>6
<1>11. /\ taken[1].tag \in {"FULL_SDU", "FIRST_SEGMENT"} <=> From(taken[1].data) = 1
       /\ taken[w].tag \in {"FULL_SDU", "LAST_SEGMENT"} /\ Upto(taken[w].data) = Size(taken[w].data)
  BY <1>10 DEF EntryFits
<1>12. \A k \in DOMAIN back : EntryFits(back[k])
  BY <1>1, <1>5
<1> QED BY <1>2, <1>3, <1>4, <1>5, <1>9, <1>10, <1>11, <1>12 DEF GrantSplits

LEMMA CutGrant ==
  ASSUME WindowInStep, StreamInStep, NEW w \in Nat, w < Len(txBuffer),
         NEW cut \in Nat, 1 <= cut, cut < Len(txBuffer[w + 1].data)
  PROVE  GrantSplits(Taken(w, cut), GivenBack(w, cut))
<1> DEFINE n == Len(txBuffer)
           entry == txBuffer[w + 1]
           f == entry.data
           x == SubSeq(f, 1, cut)
           z == SubSeq(f, cut + 1, Len(f))
           cutEntry == [data |-> x, tag |-> CutTag(entry.tag)]
           restEntry == [data |-> z, tag |-> RestTag(entry.tag)]
           v == w + 2
           front == SubSeq(txBuffer, 1, w)
           rest == SubSeq(txBuffer, v, n)
           taken == front \o <<cutEntry>>
           back == <<restEntry>> \o rest
<1>1. /\ txBuffer \in Seq(Entry) /\ n \in Nat /\ DOMAIN txBuffer = 1 .. n
      /\ \A k \in 1 .. n : EntryFits(txBuffer[k])
      /\ Len(TxFields) = n /\ TxFields[w + 1] = f
  <2>1. w + 1 \in 1 .. Len(txBuffer)
    <3>1. Len(txBuffer) \in Nat
      BY DEF StreamInStep, TxBufferInStep
    <3> QED BY <3>1
  <2> QED BY <2>1, TxFieldsFacts DEF StreamInStep, TxBufferInStep
<1>2. w + 1 \in 1 .. n /\ 1 \in 1 .. n /\ 1 <= n
  BY <1>1
<1>3. Chain(TxFields) /\ \A k \in DOMAIN TxFields : Upto(TxFields[k]) = Size(TxFields[k])
  <2>1. txBuffer # << >>
    BY <1>1, <1>2
  <2> QED BY <2>1, TxFieldsFacts
<1>4. Taken(w, cut) = taken /\ GivenBack(w, cut) = back
  BY DEF Taken, GivenBack
<1>5. IsPart(f) /\ EntryFits(entry) /\ entry \in Entry
  <2>1. IsPart(TxFields[w + 1])
    <3>1. w + 1 \in DOMAIN TxFields
      BY <1>1, <1>2, <1>3, ChainFacts
    <3> QED BY <1>3, <3>1 DEF Chain
  <2> QED BY <1>1, <1>2, <2>1
<1> HIDE DEF entry
<1>6. /\ IsPart(x) /\ SameStart(x, f) /\ IsPart(z) /\ SameEnd(z, f)
      /\ From(z) = Upto(x) + 1
  <2>1. cut < Len(f)
    BY DEF entry
  <2> HIDE DEF f
  <2> QED BY <1>5, <2>1, PartCut
<1> HIDE DEF f, x, z
<1>7. /\ x \in Seq(Byte) /\ z \in Seq(Byte)
      /\ Upto(x) < Size(x) /\ From(x) = From(f) /\ From(z) # 1 /\ Upto(z) = Size(z)
  <2>1. /\ x \in Seq(Byte) /\ z \in Seq(Byte)
        /\ Upto(x) \in Nat /\ From(z) \in Nat /\ Upto(z) \in Nat /\ Size(z) \in Nat
        /\ 1 <= From(x) /\ From(x) <= Upto(x) /\ From(x) \in Nat
        /\ From(z) <= Upto(z) /\ Upto(z) <= Size(z)
    BY <1>6, PartFacts
  <2>2. Size(x) = Size(f) /\ Size(z) = Size(f) /\ From(x) = From(f) /\ Upto(z) = Upto(f)
    BY <1>6 DEF SameStart, SameEnd
  <2>3. Upto(f) = Size(f)
    BY <1>5 DEF EntryFits, f
  <2> QED BY <1>6, <2>1, <2>2, <2>3
<1>8. /\ cutEntry \in Entry /\ cutEntry.data = x
      /\ cutEntry.tag = CutTag(entry.tag)
      /\ cutEntry.tag = "FIRST_SEGMENT" <=> From(x) = 1
      /\ cutEntry.tag \notin {"FULL_SDU", "LAST_SEGMENT"}
  <2>1. /\ CutTag(entry.tag) \in {"FULL_SDU", "FIRST_SEGMENT", "MIDDLE_SEGMENT", "LAST_SEGMENT"}
        /\ CutTag(entry.tag) = "FIRST_SEGMENT" <=> entry.tag = "FULL_SDU"
        /\ CutTag(entry.tag) \notin {"FULL_SDU", "LAST_SEGMENT"}
    BY DEF CutTag
  <2>2. entry.tag = "FULL_SDU" <=> From(f) = 1
    BY <1>5 DEF EntryFits, f
  <2>3. cutEntry \in Entry
    BY <1>7, <2>1 DEF Entry
  <2> QED BY <1>7, <2>1, <2>2, <2>3
<1>9. restEntry \in Entry /\ restEntry.data = z /\ EntryFits(restEntry)
  <2>1. restEntry \in Entry /\ restEntry.data = z /\ restEntry.tag = "LAST_SEGMENT"
    BY <1>7 DEF Entry, RestTag
  <2> QED BY <1>7, <2>1 DEF EntryFits
<1> HIDE DEF cutEntry, restEntry
<1>10. /\ front \in Seq(Entry) /\ Len(front) = w /\ \A k \in 1 .. w : front[k] = txBuffer[k]
       /\ FieldsOf(front) = SubSeq(TxFields, 1, w)
  <2>1. (w - 1) + 1 = w /\ 1 <= w + 1 /\ w <= Len(txBuffer) /\ 1 \in Nat
    BY <1>1
  <2>2. /\ front \in Seq(Entry) /\ Len(front) = (w - 1) + 1
        /\ \A k \in 1 .. (w - 1) + 1 : front[k] = txBuffer[(1 + k) - 1]
    BY <1>1, <2>1, SubSeqFacts
  <2>3. FieldsOf(front) = SubSeq(TxFields, 1, w)
    BY <1>1, <2>1, FieldsOfSome DEF TxFields
  <2>4. \A k \in 1 .. w : (1 + k) - 1 = k
    OBVIOUS
  <2> HIDE DEF front
  <2> QED BY <2>1, <2>2, <2>3, <2>4
<1>11. /\ rest \in Seq(Entry)
       /\ \A k \in DOMAIN rest : EntryFits(rest[k])
       /\ FieldsOf(rest) = SubSeq(TxFields, v, n)
  <2>1. v \in Nat /\ 1 <= v /\ v <= n + 1 /\ n <= Len(txBuffer)
    BY <1>1
  <2> HIDE DEF v
  <2>2. /\ rest \in Seq(Entry) /\ DOMAIN rest = 1 .. (n - v) + 1
        /\ \A k \in 1 .. (n - v) + 1 : rest[k] = txBuffer[(v + k) - 1]
    <3> HIDE DEF n
    <3> QED BY <1>1, <2>1, SubSeqFacts
  <2>3. FieldsOf(rest) = SubSeq(TxFields, v, n)
    <3> HIDE DEF n
    <3> QED BY <1>1, <2>1, FieldsOfSome DEF TxFields
  <2>4. \A k \in 1 .. (n - v) + 1 : (v + k) - 1 \in 1 .. n
    <3> HIDE DEF n
    <3> QED BY <1>1, <2>1
  <2> HIDE DEF rest, n
  <2> QED BY <1>1, <2>2, <2>3, <2>4
<1> HIDE DEF front, rest
<1>12. /\ <<cutEntry>> \in Seq(Entry) /\ FieldsOf(<<cutEntry>>) = <<x>>
       /\ <<restEntry>> \in Seq(Entry) /\ FieldsOf(<<restEntry>>) = <<z>>
  BY <1>8, <1>9, FieldsOfOne
<1>13. /\ taken \in Seq(Entry) /\ FieldsOf(taken) = SubSeq(TxFields, 1, w) \o <<x>>
       /\ back \in Seq(Entry) /\ FieldsOf(back) = <<z>> \o SubSeq(TxFields, v, n)
  <2>1. /\ front \o <<cutEntry>> \in Seq(Entry)
        /\ FieldsOf(front \o <<cutEntry>>) = FieldsOf(front) \o FieldsOf(<<cutEntry>>)
    BY <1>10, <1>12, FieldsJoined
  <2>2. /\ <<restEntry>> \o rest \in Seq(Entry)
        /\ FieldsOf(<<restEntry>> \o rest) = FieldsOf(<<restEntry>>) \o FieldsOf(rest)
    BY <1>11, <1>12, FieldsJoined
  <2> QED BY <1>10, <1>11, <1>12, <2>1, <2>2
<1>14. IsSplit(TxFields, FieldsOf(taken), FieldsOf(back))
  <2>1. w < Len(TxFields) /\ cut < Len(TxFields[w + 1])
    BY <1>1 DEF n, entry, f
  <2>2. IsSplit(TxFields, DataTaken(TxFields, w, cut), DataGivenBack(TxFields, w, cut))
    BY <1>3, <2>1, SplitCut
  <2>3. cut # 0
    OBVIOUS
  <2>4. DataTaken(TxFields, w, cut) = SubSeq(TxFields, 1, w) \o <<x>>
    BY <1>1, <2>3 DEF DataTaken, x
  <2>5. DataGivenBack(TxFields, w, cut) = <<z>> \o SubSeq(TxFields, v, n)
    BY <1>1, <2>3 DEF DataGivenBack, z, v, n
  <2> HIDE DEF taken, back, v, n
  <2> QED BY <1>13, <2>2, <2>4, <2>5
<1>15. /\ taken # << >> /\ Len(taken) = w + 1 /\ taken[Len(taken)] = cutEntry
       /\ taken[1] = IF w = 0 THEN cutEntry ELSE txBuffer[1]
  <2>1. Len(<<cutEntry>>) = 1 /\ <<cutEntry>>[1] = cutEntry
    OBVIOUS
  <2>2. /\ Len(taken) = w + 1
        /\ \A k \in 1 .. w + 1 : taken[k] = IF k <= w THEN front[k] ELSE <<cutEntry>>[k - w]
    BY <1>10, <1>12, <2>1, JoinedFacts
  <2> HIDE DEF taken
  <2>3. taken[w + 1] = cutEntry
    <3>1. w + 1 \in 1 .. w + 1 /\ ~ (w + 1 <= w) /\ (w + 1) - w = 1
      OBVIOUS
    <3> QED BY <2>1, <2>2, <3>1
  <2>4. w # 0 => taken[1] = txBuffer[1]
    <3> SUFFICES ASSUME w # 0
                 PROVE  taken[1] = txBuffer[1]
      OBVIOUS
    <3>1. 1 \in 1 .. w /\ 1 \in 1 .. w + 1 /\ 1 <= w
      OBVIOUS
    <3> QED BY <1>10, <2>2, <3>1
  <2>5. w = 0 => taken[1] = cutEntry
    BY <2>3
  <2>6. taken # << >>
    BY <1>13, <2>2 DEF taken
  <2> QED BY <2>2, <2>3, <2>4, <2>5, <2>6
<1>16. taken[1].tag \in {"FULL_SDU", "FIRST_SEGMENT"} <=> From(taken[1].data) = 1
  <2>1. CASE w = 0
    BY <1>8, <1>15, <2>1
  <2>2. CASE w # 0
    BY <1>1, <1>2, <1>15, <2>2 DEF EntryFits
  <2> QED BY <2>1, <2>2
<1>17. taken[Len(taken)].tag \in {"FULL_SDU", "LAST_SEGMENT"}
         <=> Upto(taken[Len(taken)].data) = Size(taken[Len(taken)].data)
  <2>1. Upto(x) # Size(x)
    <3>1. Upto(x) \in Nat /\ Size(x) \in Nat
      BY <1>6, PartFacts
    <3> QED BY <1>7, <3>1
  <2> QED BY <1>8, <1>15, <2>1
<1>18. \A k \in DOMAIN back : EntryFits(back[k])
  <2>1. Len(<<restEntry>>) = 1 /\ <<restEntry>>[1] = restEntry /\ Len(rest) \in Nat
    BY <1>11
  <2>2. /\ Len(back) = 1 + Len(rest)
        /\ \A k \in 1 .. 1 + Len(rest) : back[k] = IF k <= 1 THEN <<restEntry>>[k] ELSE rest[k - 1]
    BY <1>11, <1>12, <2>1, JoinedFacts
  <2>3. DOMAIN back = 1 .. 1 + Len(rest)
    <3> HIDE DEF back
    <3> QED BY <1>13, <2>2
  <2> HIDE DEF back
  <2>4. \A k \in 1 .. 1 + Len(rest) : k = 1 \/ (~ (k <= 1) /\ k - 1 \in DOMAIN rest)
    BY <1>11, <2>1
  <2>5. \A k \in 1 .. 1 + Len(rest) : back[k] = restEntry \/ \E l \in DOMAIN rest : back[k] = rest[l]
    BY <2>1, <2>2, <2>4
  <2> QED BY <1>9, <1>11, <2>3, <2>5
<1> HIDE DEF taken, back
<1> QED BY <1>4, <1>13, <1>14, <1>15, <1>16, <1>17, <1>18 DEF GrantSplits

\* A grant splits what waits to be sent: the first part is in a new PDU.
SentAs(a, b) ==
  /\ IsSplit(TxFields, a, b)
  /\ Pieces' = ({PieceOf(q) : q \in UnderWay} \union {[nr |-> sentPdus, fields |-> a]})
                 \union TxOf(sentPdus + 1, b)
  /\ End' = EndOf(sentPdus + 1, b)

LEMMA GrantIsSent ==
  ASSUME WindowInStep, StreamInStep, NotifyTxOpportunity
  PROVE  /\ UNCHANGED nextSdu /\ Reassembly' = Reassembly
         /\ TxBufferInStep' /\ \A q \in UnderWay' : Framed(q)
         /\ TxFields # << >>
         /\ \E a, b : SentAs(a, b)
<1>1. PICK w \in 0 .. Len(txBuffer), cut \in 0 .. MaxGrant :
        /\ cut > 0 => w < Len(txBuffer) /\ cut < Len(txBuffer[w + 1].data)
        /\ Taken(w, cut) # << >>
        /\ txBuffer' = GivenBack(w, cut)
        /\ channel' = channel \union {NewRlcPdu(Taken(w, cut))}
        /\ sentPdus' = sentPdus + 1
        /\ UNCHANGED <<nextSdu, umRxVars>>
  BY DEF NotifyTxOpportunity
<1> DEFINE taken == Taken(w, cut)
           back == GivenBack(w, cut)
           pdu == NewRlcPdu(taken)
           a == FieldsOf(taken)
           b == FieldsOf(back)
           sent == {PieceOf(q) : q \in UnderWay}
<1>2. txBuffer \in Seq(Entry) /\ Len(txBuffer) \in Nat /\ w \in Nat /\ cut \in Nat
  <2>1. txBuffer \in Seq(Entry) /\ Len(txBuffer) \in Nat
    BY DEF StreamInStep, TxBufferInStep
  <2> QED BY <2>1, UmBoundAssumption
<1>3. GrantSplits(taken, back)
  <2>1. CASE cut = 0
    <3>1. w # 0
      <4> SUFFICES ASSUME w = 0
                   PROVE  Taken(0, 0) = << >>
        BY <1>1, <2>1
      <4>1. SubSeq(txBuffer, 1, 0) = << >>
        BY <1>2
      <4>2. << >> \o << >> = << >>
        OBVIOUS
      <4> QED BY <4>1, <4>2 DEF Taken
    <3>2. 1 <= w /\ w <= Len(txBuffer)
      BY <1>2, <3>1
    <3> QED BY <1>2, <2>1, <3>2, WholeGrant
  <2>2. CASE cut # 0
    <3>1. 1 <= cut /\ w < Len(txBuffer) /\ cut < Len(txBuffer[w + 1].data)
      BY <1>1, <1>2, <2>2
    <3> QED BY <1>2, <3>1, CutGrant
  <2> QED BY <2>1, <2>2
<1>4. UNCHANGED <<rxBuffer, expectedSn, keepS0, sdusBuffer, reassembled, handedUp>>
  BY <1>1 DEF umRxVars
<1> HIDE DEF taken, back
<1>5. Framed(pdu) /\ PieceOf(pdu) = [nr |-> sentPdus, fields |-> a]
  BY <1>3, PduOfEntries DEF GrantSplits
<1>6. UnderWay' = UnderWay \union {pdu} /\ Reassembly' = Reassembly
  BY <1>1, <1>4 DEF UnderWay, Stored, Reassembly, taken
<1>7. TxFields' = b /\ TxBufferInStep'
  BY <1>1, <1>3 DEF TxFields, TxBufferInStep, GrantSplits, back
<1> HIDE DEF pdu, a, b
<1>8. {PieceOf(q) : q \in UnderWay'} = sent \union {[nr |-> sentPdus, fields |-> a]}
  BY <1>5, <1>6
<1>9. /\ Pieces' = (sent \union {[nr |-> sentPdus, fields |-> a]}) \union TxOf(sentPdus + 1, b)
      /\ End' = EndOf(sentPdus + 1, b)
  BY <1>1, <1>7, <1>8 DEF Pieces, End
<1>10. TxFields # << >>
  <2>1. Len(txBuffer) # 0
    BY <1>1, <1>2, <1>3 DEF taken, Taken
  <2> QED BY <1>2, <2>1, TxFieldsFacts
<1>11. IsSplit(TxFields, a, b)
  BY <1>3 DEF GrantSplits, a, b
<1>12. SentAs(a, b)
  BY <1>9, <1>11 DEF SentAs
<1>13. \A q \in UnderWay' : Framed(q)
  BY <1>5, <1>6 DEF StreamInStep
<1> QED BY <1>1, <1>6, <1>7, <1>10, <1>12, <1>13

LEMMA NotifyKeepsStream ==
  ASSUME WindowInStep, StreamInStep, NotifyTxOpportunity
  PROVE  StreamInStep'
<1> DEFINE sent == {PieceOf(q) : q \in UnderWay}
<1>1. /\ nextSdu' = nextSdu /\ Reassembly' = Reassembly
      /\ TxBufferInStep' /\ \A q \in UnderWay' : Framed(q)
      /\ TxFields # << >>
      /\ \E a, b : SentAs(a, b)
  BY GrantIsSent
<1>2. PICK a, b : SentAs(a, b)
  BY <1>1
<1>3. /\ IsSplit(TxFields, a, b)
      /\ Pieces' = (sent \union {[nr |-> sentPdus, fields |-> a]}) \union TxOf(sentPdus + 1, b)
      /\ End' = EndOf(sentPdus + 1, b)
  BY <1>2 DEF SentAs
<1>4. /\ Pieces = sent \union {[nr |-> sentPdus, fields |-> TxFields]}
      /\ End = -1
  BY <1>1 DEF Pieces, End, TxOf, EndOf
<1>5. /\ \A p \in sent : p.nr < sentPdus
      /\ Upto(TxFields[Len(TxFields)]) = Size(TxFields[Len(TxFields)])
      /\ sentPdus \in Nat /\ reassembled \in Nat /\ reassembled <= sentPdus
  <2>1. \A q \in UnderWay : PieceOf(q).nr = q.nr
    BY DEF PieceOf
  <2>2. Len(TxFields) \in DOMAIN TxFields
    BY <1>1, TxFieldsFacts
  <2> QED BY <2>1, <2>2, TxFieldsFacts
<1>6. /\ PiecesFit(Pieces, End, nextSdu) /\ nextSdu \in Nat
      /\ Fits(Reassembly, Pieces, End, nextSdu) /\ Reassembly.upTo = reassembled
  BY DEF StreamInStep, PiecesFit, Reassembly
<1> DEFINE P == Pieces
           e == End
           Q == Pieces'
           d == End'
           r == Reassembly
           f == TxFields
<1>7. PiecesFit(Q, d, nextSdu) /\ CarriesOver(P, e, Q, d, nextSdu, sentPdus)
  <2>1. IsSplit(f, a, b) /\ Upto(f[Len(f)]) = Size(f[Len(f)])
        /\ PiecesFit(sent \union {[nr |-> sentPdus, fields |-> f]}, -1, nextSdu)
    BY <1>3, <1>4, <1>5, <1>6
  <2> HIDE DEF f, sent
  <2>2. LET pieces2 == (sent \union {[nr |-> sentPdus, fields |-> a]}) \union TxOf(sentPdus + 1, b)
        IN  /\ PiecesFit(pieces2, EndOf(sentPdus + 1, b), nextSdu)
            /\ CarriesOver(sent \union {[nr |-> sentPdus, fields |-> f]}, -1,
                           pieces2, EndOf(sentPdus + 1, b), nextSdu, sentPdus)
    BY <1>5, <2>1, SplitFits
  <2> QED BY <1>3, <1>4, <2>2 DEF f
<1>8. Fits(r, Q, d, nextSdu)
  <2> HIDE DEF P, Q, d, e, r
  <2>1. r.upTo <= sentPdus /\ sentPdus \in Int /\ nextSdu \in Int /\ nextSdu <= nextSdu
        /\ Fits(r, P, e, nextSdu)
    BY <1>5, <1>6 DEF r, P, e
  <2> QED BY <1>7, <2>1, FitsCarriesOver
<1> QED BY <1>1, <1>7, <1>8 DEF StreamInStep

\* The steps that leave the receiver and the transmitter as they are.
LEMMA FewerKeepsStream ==
  ASSUME WindowInStep, StreamInStep, UNCHANGED <<txBuffer, sentPdus, nextSdu, umRxVars>>,
         channel' \subseteq channel
  PROVE  StreamInStep'
<1>1. UNCHANGED <<txBuffer, sentPdus, nextSdu>>
  OBVIOUS
<1>2. UNCHANGED <<rxBuffer, expectedSn, keepS0, sdusBuffer, reassembled, handedUp>>
  BY DEF umRxVars
<1>3. Reassembly' = Reassembly /\ UnderWay' \subseteq UnderWay
  BY <1>2 DEF Reassembly, UnderWay, Stored
<1> DEFINE r == Reassembly
           P == Pieces
           e == End
           Q == Pieces'
           d == End'
<1>4. /\ TxBufferInStep'
      /\ \A pdu \in UnderWay' : Framed(pdu)
      /\ PiecesFit(Q, d, nextSdu)
      /\ CarriesOver(P, e, Q, d, nextSdu, reassembled)
  BY <1>1, <1>3, FewerUnderWay
<1>5. Fits(r, P, e, nextSdu) /\ r.upTo = reassembled /\ nextSdu \in Nat /\ reassembled \in Nat
  BY DEF StreamInStep, PiecesFit, Reassembly, WindowInStep, EdgesInStep
<1>6. Fits(r, Q, d, nextSdu)
  <2> HIDE DEF P, Q, d, e, r
  <2>1. r.upTo <= reassembled /\ reassembled \in Int /\ nextSdu \in Int /\ nextSdu <= nextSdu
    BY <1>5
  <2> QED BY <1>4, <1>5, <2>1, FitsCarriesOver
<1> QED BY <1>1, <1>3, <1>4, <1>6 DEF StreamInStep

LEMMA ReceiveKeepsStream ==
  ASSUME GapFits, WindowInStep, StreamInStep, ReceivePdu
  PROVE  /\ StreamInStep'
         /\ \E batch \in Seq(Seq(Byte)) : handedUp' = handedUp \o batch
<1>1. PICK pdu \in channel :
        /\ channel' = channel \ {pdu}
        /\ received' = Max({received, pdu.nr + 1})
        /\ IF Discarded(pdu.sn) THEN UNCHANGED umRxVars ELSE PlacePdu(pdu)
        /\ UNCHANGED umTxVars
  BY DEF ReceivePdu
<1>2. UNCHANGED <<txBuffer, sentPdus, nextSdu>> /\ channel' \subseteq channel
  BY <1>1 DEF umTxVars
<1>3. received \in Nat /\ pdu.nr \in Nat
  BY ChannelNumbers
<1>4. received' = IF pdu.nr < received THEN received ELSE pdu.nr + 1
  <2> DEFINE p == pdu.nr
  <2>1. Max({received, p + 1}) = IF received < p + 1 THEN p + 1 ELSE received
    BY <1>3, MaxOfTwo
  <2> HIDE DEF p
  <2> QED BY <1>1, <1>3, <2>1 DEF p
<1>5. CASE Discarded(pdu.sn)
  <2>1. UNCHANGED umRxVars
    BY <1>1, <1>5
  <2>2. StreamInStep'
    BY <1>2, <2>1, FewerKeepsStream
  <2>3. handedUp' = handedUp \o << >>
    <3>1. handedUp' = handedUp
      BY <2>1 DEF umRxVars
    <3>2. handedUp \in Seq(Seq(Byte))
      BY DEF StreamInStep, Fits, UpFits, WholeSdus, Reassembly
    <3> QED BY <3>1, <3>2
  <2>4. << >> \in Seq(Seq(Byte))
    OBVIOUS
  <2> QED BY <2>2, <2>3, <2>4
<1>6. CASE ~ Discarded(pdu.sn)
  <2> DEFINE buffer == Placed(pdu)
  <2>1. PlacePdu(pdu)
    BY <1>1, <1>6
  <2>2. /\ received' \in Nat /\ received \in Nat /\ reassembled \in Nat
        /\ received <= reassembled + Window
        /\ \E m \in reassembled .. received' : RunTo(buffer, m)
    <3>1. sentPdus \in Nat /\ reassembled \in Nat /\ received <= sentPdus /\ sentPdus <= reassembled + Window
      BY ChannelNumbers
    <3>2. received <= reassembled + Window
      BY <1>3, <3>1, SnConstants
    <3> QED BY <1>3, <1>4, <1>6, <2>1, <3>1, <3>2, PlacedRun
  <2>3. \A sn \in DOMAIN buffer : buffer[sn] \in UnderWay
    BY DEF Placed, UnderWay, Stored
  <2> HIDE DEF buffer
  <2>4. PICK m \in reassembled .. received' : RunTo(buffer, m)
    BY <2>2
  <2>5. m \in Int /\ received' \in Int /\ received - Window <= reassembled
    BY <2>2, SnConstants
  <2> QED BY <1>2, <2>3, <2>4, <2>5, RunKeepsStream
<1> QED BY <1>5, <1>6

LEMMA ExpireKeepsStream ==
  ASSUME GapFits, WindowInStep, StreamInStep, ExpireReorderingTimer
  PROVE  /\ StreamInStep'
         /\ \E batch \in Seq(Seq(Byte)) : handedUp' = handedUp \o batch
<1>1. UNCHANGED <<txBuffer, sentPdus, nextSdu>> /\ channel' \subseteq channel /\ received' = received
  BY DEF ExpireReorderingTimer, umTxVars
<1>2. PICK m \in reassembled + 1 .. received : RunTo(rxBuffer, m)
  BY ExpiredRun
<1>3. \A sn \in DOMAIN rxBuffer : rxBuffer[sn] \in UnderWay
  BY DEF UnderWay, Stored
<1>4. m \in Int /\ received' \in Int /\ received - Window <= reassembled
  <2>1. /\ sentPdus \in Nat /\ reassembled \in Nat /\ received \in Nat
        /\ received <= sentPdus /\ sentPdus <= reassembled + Window
    BY ChannelNumbers
  <2> QED BY <1>1, <1>2, <2>1, SnConstants
<1> QED BY <1>1, <1>2, <1>3, <1>4, RunKeepsStream

LEMMA StreamStep ==
  ASSUME GapFits, WindowInStep, StreamInStep, [UmNext]_umVars
  PROVE  StreamInStep'
<1>1. CASE TransmitPdcpPdu
  BY <1>1, TransmitKeepsStream
<1>2. CASE NotifyTxOpportunity
  BY <1>2, NotifyKeepsStream
<1>3. CASE ExpireRbsTimer \/ WastedOpportunity
  <2>1. UNCHANGED <<txBuffer, sentPdus, nextSdu, umRxVars>> /\ channel' \subseteq channel
    BY <1>3 DEF ExpireRbsTimer, WastedOpportunity
  <2> QED BY <2>1, FewerKeepsStream
<1>4. CASE ReceivePdu
  BY <1>4, ReceiveKeepsStream
<1>5. CASE LosePdu
  <2>1. UNCHANGED <<txBuffer, sentPdus, nextSdu, umRxVars>> /\ channel' \subseteq channel
    BY <1>5 DEF LosePdu, umTxVars
  <2> QED BY <2>1, FewerKeepsStream
<1>6. CASE ExpireReorderingTimer
  BY <1>6, ExpireKeepsStream
<1>7. CASE UNCHANGED umVars
  <2>1. UNCHANGED <<txBuffer, sentPdus, nextSdu, umRxVars>> /\ channel' \subseteq channel
    BY <1>7 DEF umVars, umTxVars
  <2> QED BY <2>1, FewerKeepsStream
<1> QED BY <1>1, <1>2, <1>3, <1>4, <1>5, <1>6, <1>7 DEF UmNext

LEMMA StreamAlways == ASSUME GapFits PROVE UmSpec => []StreamInStep
<1>1. UmSpec => []WindowInStep
  BY WindowAlways
<1>2. UmInit => StreamInStep
  BY StreamInitially
<1>3. WindowInStep /\ StreamInStep /\ [UmNext]_umVars => StreamInStep'
  BY StreamStep
<1> QED BY <1>1, <1>2, <1>3, PTL DEF UmSpec

\* Every packet that goes up to the PDCP is one of the SDUs that came down,
\* whole: what DoNotifyTxOpportunity cuts and ReassembleAndDeliver joins, over
\* any losses, is the SDU.
THEOREM SdusGoUpWholeAlways == ASSUME GapFits PROVE UmSpec => []SdusGoUpWhole
<1>1. StreamInStep => SdusGoUpWhole
  <2> SUFFICES ASSUME StreamInStep, NEW k \in DOMAIN handedUp
               PROVE  \E i \in 0 .. nextSdu - 1, n \in SduSizes : handedUp[k] = Sdu(i, n)
    BY DEF SdusGoUpWhole
  <2> DEFINE f == handedUp[k]
  <2>1. WholeSdus(handedUp) /\ Idx(f) < nextSdu /\ nextSdu \in Nat
    BY DEF StreamInStep, Fits, UpFits, Reassembly, PiecesFit
  <2>2. IsPart(f) /\ From(f) = 1 /\ Upto(f) = Size(f)
    BY <2>1 DEF WholeSdus
  <2> HIDE DEF f
  <2>3. f = Sdu(Idx(f), Size(f)) /\ Idx(f) \in Nat /\ Size(f) \in SduSizes
    BY <2>2, PartFacts, WholePart
  <2>4. Idx(f) \in 0 .. nextSdu - 1
    BY <2>1, <2>3
  <2> QED BY <2>3, <2>4 DEF f
<1> QED BY <1>1, StreamAlways, PTL

\* ReassembleAndDeliver meets none of its internal errors: a PDU that starts an
\* SDU never follows, without a gap, the part of another that awaits its rest.
THEOREM NoReassemblyErrorAlways == ASSUME GapFits PROVE UmSpec => []NoReassemblyError
<1>1. StreamInStep => NoReassemblyError
  BY DEF StreamInStep, Fits, Reassembly, NoReassemblyError
<1> QED BY <1>1, StreamAlways, PTL
-----------------------------------------------------------------------------
(* The service: the SDUs that go up, seen as their numbers.                *)

\* More SDUs go up, whole and in order: a step of the service, or none.
LEMMA BatchGoesUp ==
  ASSUME StreamInStep, StreamInStep', UNCHANGED nextSdu,
         NEW batch \in Seq(Seq(Byte)), handedUp' = handedUp \o batch
  PROVE  Service!Deliver \/ UNCHANGED <<nextSdu, HandedUpSdus>>
<1> DEFINE up == handedUp
           up2 == handedUp'
           n == Len(up)
           m == Len(up2)
           d == HandedUpSdus
           d2 == HandedUpSdus'
<1>1. /\ up \in Seq(Seq(Byte)) /\ up2 = up \o batch /\ up2 \in Seq(Seq(Byte))
      /\ \A k, l \in DOMAIN up2 : k < l => Idx(up2[k]) < Idx(up2[l])
      /\ \A k \in DOMAIN up2 : Idx(up2[k]) < nextSdu /\ IsPart(up2[k])
  <2>1. UpFits(Reassembly, Pieces, nextSdu) /\ UpFits(Reassembly', Pieces', nextSdu')
    BY DEF StreamInStep, Fits
  <2>2. Reassembly.up = up /\ Reassembly'.up = up2 /\ nextSdu' = nextSdu
    BY DEF Reassembly
  <2> QED BY <2>1, <2>2 DEF UpFits, WholeSdus
<1>2. d = [k \in DOMAIN up |-> Idx(up[k])] /\ d2 = [k \in DOMAIN up2 |-> Idx(up2[k])]
  BY DEF HandedUpSdus, Idx
<1>3. CASE batch = << >>
  <2>1. up2 = up
    BY <1>1, <1>3
  <2> QED BY <1>2, <2>1
<1>4. CASE batch # << >>
  <2>1. /\ n \in Nat /\ m \in Nat /\ DOMAIN up = 1 .. n /\ DOMAIN up2 = 1 .. m /\ n < m
        /\ \A i \in 1 .. n : up2[i] = up[i]
    BY <1>1, <1>4
  <2>2. \A i \in 1 .. m : Idx(up2[i]) \in Nat
    BY <1>1, <2>1, PartFacts
  <2> HIDE DEF up, up2, n, m
  <2>3. /\ DOMAIN d = 1 .. n /\ DOMAIN d2 = 1 .. m
        /\ \A i \in 1 .. n : d[i] = Idx(up[i])
        /\ \A i \in 1 .. m : d2[i] = Idx(up2[i])
    BY <1>2, <2>1
  <2> HIDE DEF d, d2
  <2>4. Len(d) = n /\ Len(d2) = m
    <3>1. d \in Seq(Nat) /\ d2 \in Seq(Nat)
      <4>1. \A i \in 1 .. n : Idx(up[i]) \in Nat
        BY <2>1, <2>2
      <4> QED BY <1>2, <2>1, <2>2, <4>1
    <3> QED BY <2>1, <2>3, <3>1
  <2>5. \A i \in 1 .. n : d2[i] = d[i]
    BY <2>1, <2>3
  <2>6. ASSUME NEW i \in n + 1 .. m
        PROVE  /\ Service!NextIndex(d) <= d2[i]
               /\ d2[i] < nextSdu
               /\ i > n + 1 => d2[i - 1] < d2[i]
    <3>1. i \in 1 .. m /\ i \in Nat
      BY <2>1
    <3>2. d2[i] < nextSdu /\ d2[i] \in Nat
      BY <1>1, <2>1, <2>2, <2>3, <3>1
    <3>3. i > n + 1 => d2[i - 1] < d2[i]
      <4> SUFFICES ASSUME i > n + 1
                   PROVE  d2[i - 1] < d2[i]
        OBVIOUS
      <4> DEFINE j == i - 1
      <4>1. j \in 1 .. m /\ j < i
        BY <2>1, <3>1
      <4> HIDE DEF j
      <4>2. d2[j] < d2[i]
        BY <1>1, <2>1, <2>3, <3>1, <4>1
      <4> QED BY <4>2 DEF j
    <3>4. Service!NextIndex(d) <= d2[i]
      <4>1. CASE n = 0
        <5>1. d = << >>
          BY <2>1, <2>3, <4>1, <1>2
        <5> QED BY <3>2, <5>1 DEF Service!NextIndex
      <4>2. CASE n > 0
        <5>1. n \in 1 .. m /\ n < i /\ n \in 1 .. n
          BY <2>1, <3>1, <4>2
        <5>2. d2[n] < d2[i] /\ d2[n] \in Nat /\ d2[n] = d[n]
          BY <1>1, <2>1, <2>2, <2>3, <3>1, <5>1
        <5>3. d # << >>
          BY <2>3, <5>1
        <5>4. Service!NextIndex(d) = d[n] + 1
          BY <2>4, <5>3 DEF Service!NextIndex
        <5> QED BY <3>2, <5>2, <5>4
      <4> QED BY <2>1, <4>1, <4>2
    <3> QED BY <3>2, <3>3, <3>4
  <2>7. Service!Deliver
    <3>1. Len(d2) > Len(d)
      BY <2>1, <2>4
    <3> QED BY <2>4, <2>5, <2>6, <3>1 DEF Service!Deliver, d, d2
  <2> QED BY <2>7
<1> QED BY <1>3, <1>4

LEMMA StepIsOfService ==
  ASSUME GapFits, WindowInStep, StreamInStep, StreamInStep', [UmNext]_umVars
  PROVE  [Service!Next]_<<nextSdu, HandedUpSdus>>
<1>1. CASE TransmitPdcpPdu
  <2>1. nextSdu' = nextSdu + 1 /\ handedUp' = handedUp
    BY <1>1 DEF TransmitPdcpPdu, umRxVars
  <2> QED BY <2>1 DEF Service!Next, Service!Send, HandedUpSdus
<1>2. ASSUME UNCHANGED <<nextSdu, handedUp>>
      PROVE  UNCHANGED <<nextSdu, HandedUpSdus>>
  BY <1>2 DEF HandedUpSdus
<1>3. CASE ReceivePdu
  <2>1. UNCHANGED nextSdu
    BY <1>3 DEF ReceivePdu, umTxVars
  <2>2. PICK batch \in Seq(Seq(Byte)) : handedUp' = handedUp \o batch
    BY <1>3, ReceiveKeepsStream
  <2> QED BY <2>1, <2>2, BatchGoesUp DEF Service!Next
<1>4. CASE ExpireReorderingTimer
  <2>1. UNCHANGED nextSdu
    BY <1>4 DEF ExpireReorderingTimer, umTxVars
  <2>2. PICK batch \in Seq(Seq(Byte)) : handedUp' = handedUp \o batch
    BY <1>4, ExpireKeepsStream
  <2> QED BY <2>1, <2>2, BatchGoesUp DEF Service!Next
<1>5. CASE NotifyTxOpportunity
  BY <1>2, <1>5 DEF NotifyTxOpportunity, umRxVars
<1>6. CASE ExpireRbsTimer \/ WastedOpportunity
  BY <1>2, <1>6 DEF ExpireRbsTimer, WastedOpportunity, umRxVars
<1>7. CASE LosePdu
  BY <1>2, <1>7 DEF LosePdu, umTxVars, umRxVars
<1>8. CASE UNCHANGED umVars
  BY <1>2, <1>8 DEF umVars, umTxVars, umRxVars
<1> QED BY <1>1, <1>3, <1>4, <1>5, <1>6, <1>7, <1>8 DEF UmNext

\* To the PDCP above it the RLC in unacknowledged mode is a bearer that
\* delivers some of the SDUs, each once and in their order: every step is one
\* of OrderedDelivery, or is not seen from above.
THEOREM UmImplementsOrderedDelivery ==
  ASSUME GapFits PROVE UmSpec => ImplementsOrderedDelivery
<1>1. UmInit => Service!Init
  BY DEF UmInit, Service!Init, HandedUpSdus
<1>2. /\ WindowInStep /\ StreamInStep /\ StreamInStep' /\ [UmNext]_umVars
      => [Service!Next]_<<nextSdu, HandedUpSdus>>
  BY StepIsOfService
<1>3. UmSpec => []WindowInStep
  BY WindowAlways
<1>4. UmSpec => []StreamInStep
  BY StreamAlways
<1> QED BY <1>1, <1>2, <1>3, <1>4, PTL
        DEF UmSpec, ImplementsOrderedDelivery, Service!Spec
-----------------------------------------------------------------------------
(* Where an SDU is that is not missed.                                     *)

\* An SDU whose first bytes a piece does not have was missed, or they are kept
\* or in an older piece.
BeginsAccounted(r, lost, pieces) ==
  \A p \in pieces :
    r.upTo <= p.nr /\ From(FirstOf(p)) # 1 =>
      \/ Idx(FirstOf(p)) \in lost
      \/ r.keep # << >> /\ Idx(r.keep) = Idx(FirstOf(p))
      \/ \E q \in pieces : q.nr < p.nr /\ Idx(FirstOf(p)) \in SdusOf(q.fields)

\* An SDU whose last bytes are not kept, or not in a piece, was missed, or
\* they are in the piece that comes next.
KeptAccounted(r, lost, pieces) ==
  r.keep # << >> => Idx(r.keep) \in lost \/ \E q \in pieces : q.nr = r.upTo

EndsAccounted(r, lost, pieces) ==
  \A p \in pieces :
    r.upTo <= p.nr /\ Upto(LastOf(p)) # Size(LastOf(p)) =>
      Idx(LastOf(p)) \in lost \/ \E q \in pieces : q.nr = p.nr + 1

\* The state has handed up, or keeps, a part of the SDU.
Has(r, i) ==
  \/ \E k \in DOMAIN r.up : Idx(r.up[k]) = i
  \/ r.keep # << >> /\ Idx(r.keep) = i

SdusAccounted(r, lost, pieces, next) ==
  \A i \in 0 .. next - 1 :
    i \in lost \/ Has(r, i) \/ \E q \in pieces : i \in SdusOf(q.fields)

Accounted(r, lost, pieces, next) ==
  /\ BeginsAccounted(r, lost, pieces)
  /\ KeptAccounted(r, lost, pieces)
  /\ EndsAccounted(r, lost, pieces)
  /\ SdusAccounted(r, lost, pieces, next)

LEMMA SdusOfFields ==
  ASSUME NEW fields
  PROVE  \A i : i \in SdusOf(fields) <=> \E k \in DOMAIN fields : Idx(fields[k]) = i
BY DEF SdusOf, Idx

\* What a field leaves open is in the piece that comes next.
LEMMA FollowedInPiece ==
  ASSUME NEW pieces, NEW end, NEW next, PiecesFit(pieces, end, next), NEW q \in pieces,
         NEW f, Continues(f, q.nr, pieces, end), Upto(f) # Size(f)
  PROVE  Idx(f) \in SdusOf(q.fields)
<1>1. Follows(f, FirstOf(q))
  BY DEF Continues
<1>2. Idx(f) = Idx(q.fields[1])
  BY <1>1 DEF Follows, FirstOf
<1>3. Chain(q.fields)
  BY DEF PiecesFit
<1>4. 1 \in DOMAIN q.fields
  BY <1>3, ChainFacts
<1> QED BY <1>2, <1>4, SdusOfFields

\* Pieces go, and the SDUs in them are missed.
LEMMA MissedIsAccounted ==
  ASSUME NEW pieces, NEW end, NEW next, PiecesFit(pieces, end, next),
         NEW r, Fits(r, pieces, end, next), NEW lost, Accounted(r, lost, pieces, next),
         NEW pieces2 \in SUBSET pieces, NEW lost2, lost \subseteq lost2,
         \A q \in pieces \ pieces2 : SdusOf(q.fields) \subseteq lost2
  PROVE  Accounted(r, lost2, pieces2, next)
<1>1. BeginsAccounted(r, lost2, pieces2)
  BY DEF Accounted, BeginsAccounted
<1>2. KeptAccounted(r, lost2, pieces2)
  <2> SUFFICES ASSUME r.keep # << >>, NEW q \in pieces, q.nr = r.upTo
               PROVE  Idx(r.keep) \in lost2 \/ \E s \in pieces2 : s.nr = r.upTo
    BY DEF KeptAccounted, Accounted
  <2>1. Continues(r.keep, q.nr, pieces, end) /\ Upto(r.keep) < Size(r.keep) /\ IsPart(r.keep)
    BY DEF Fits, KeptFits
  <2>2. Upto(r.keep) # Size(r.keep)
    BY <2>1, PartFacts
  <2>3. Idx(r.keep) \in SdusOf(q.fields)
    BY <2>1, <2>2, FollowedInPiece
  <2> QED BY <2>3
<1>3. EndsAccounted(r, lost2, pieces2)
  <2> SUFFICES ASSUME NEW p \in pieces2, r.upTo <= p.nr, Upto(LastOf(p)) # Size(LastOf(p)),
                      NEW q \in pieces, q.nr = p.nr + 1
               PROVE  Idx(LastOf(p)) \in lost2 \/ \E s \in pieces2 : s.nr = p.nr + 1
    BY DEF EndsAccounted, Accounted
  <2>1. Continues(LastOf(p), q.nr, pieces, end)
    BY DEF PiecesFit
  <2>2. Idx(LastOf(p)) \in SdusOf(q.fields)
    BY <2>1, FollowedInPiece
  <2> QED BY <2>2
<1>4. SdusAccounted(r, lost2, pieces2, next)
  BY DEF Accounted, SdusAccounted
<1> QED BY <1>1, <1>2, <1>3, <1>4 DEF Accounted

\* Pieces that are reassembled already add nothing.
LEMMA OldAreAccounted ==
  ASSUME NEW r, NEW lost, NEW pieces, NEW next, Accounted(r, lost, pieces, next),
         NEW pieces2, pieces \subseteq pieces2,
         \A q \in pieces2 \ pieces : ~ (r.upTo <= q.nr)
  PROVE  Accounted(r, lost, pieces2, next)
<1>1. BeginsAccounted(r, lost, pieces2)
  BY DEF Accounted, BeginsAccounted
<1>2. KeptAccounted(r, lost, pieces2)
  BY DEF Accounted, KeptAccounted
<1>3. EndsAccounted(r, lost, pieces2)
  BY DEF Accounted, EndsAccounted
<1>4. SdusAccounted(r, lost, pieces2, next)
  BY DEF Accounted, SdusAccounted
<1> QED BY <1>1, <1>2, <1>3, <1>4 DEF Accounted

\* What was kept and is not joined: its rest was missed, or is in an older
\* piece.
LEMMA KeptIsDropped ==
  ASSUME NEW pieces, NEW end, NEW next, PiecesFit(pieces, end, next),
         NEW r, Fits(r, pieces, end, next), NEW lost, NEW left \in SUBSET pieces,
         KeptAccounted(r, lost, left),
         NEW pdu, Due(r, pdu), PieceOf(pdu) \in left, r.keep # << >>, ~ Joins(r, pdu)
  PROVE  \/ Idx(r.keep) \in lost
         \/ \E q \in left : q.nr < pdu.nr /\ Idx(r.keep) \in SdusOf(q.fields)
<1> SUFFICES ASSUME NEW q \in left, q.nr = r.upTo
             PROVE  q.nr < pdu.nr /\ Idx(r.keep) \in SdusOf(q.fields)
  BY DEF KeptAccounted
<1>1. /\ Continues(r.keep, q.nr, pieces, end) /\ Upto(r.keep) < Size(r.keep) /\ IsPart(r.keep)
      /\ r.upTo \in Nat
  BY DEF Fits, KeptFits
<1>2. Upto(r.keep) # Size(r.keep)
  BY <1>1, PartFacts
<1>3. Idx(r.keep) \in SdusOf(q.fields)
  BY <1>1, <1>2, FollowedInPiece
<1>4. PieceOf(pdu).nr = pdu.nr /\ PieceOf(pdu).nr \in Nat
  BY DEF PieceOf, PiecesFit
<1>5. r.upTo <= pdu.nr /\ pdu.nr # r.upTo
  BY DEF Due, Joins
<1>6. q.nr < pdu.nr
  BY <1>1, <1>4, <1>5
<1> QED BY <1>3, <1>6

\* The fields that are whole at their begin go up, or the last one is kept.
LEMMA WholeFieldsAreHad ==
  ASSUME NEW pieces, NEW end, NEW next, PiecesFit(pieces, end, next),
         NEW r, Fits(r, pieces, end, next),
         NEW pdu, Due(r, pdu), PieceOf(pdu) \in pieces
  PROVE  LET w == WholeFields(r, pdu.fields, pdu)
             R == ReassembleAndDeliver(r, pdu)
         IN  /\ \A k \in DOMAIN w : Has(R, Idx(w[k]))
             /\ \A i : (\E k \in DOMAIN r.up : Idx(r.up[k]) = i) => Has(R, i)
<1> DEFINE w == WholeFields(r, pdu.fields, pdu)
           R == ReassembleAndDeliver(r, pdu)
           g == Goes(w, pdu)
           n == Len(r.up)
<1>1. /\ w \in Seq(Seq(Byte))
      /\ StartsWhole(w, pdu.fields)
  BY WholeFieldsOf
<1>2. /\ R.keep = IF Closed(w, pdu) THEN << >> ELSE w[Len(w)]
      /\ R.up = r.up \o g
  <2>1. Delivered(r, pdu)
    BY ReassembledParts
  <2> QED BY <2>1 DEF Delivered
<1>3. Framed(pdu) /\ r.up \in Seq(Seq(Byte))
  BY DEF Due, Fits, UpFits, WholeSdus
<1> HIDE DEF w, R
<1>4. /\ WholeSdus(g)
      /\ \A k \in DOMAIN g : k \in DOMAIN w /\ g[k] = w[k]
      /\ ~ Closed(w, pdu) =>
              /\ Len(w) \in DOMAIN w
              /\ IsPart(w[Len(w)])
              /\ DOMAIN w = DOMAIN g \union {Len(w)}
  BY <1>1, <1>3, GoesFacts
<1>5. Closed(w, pdu) => g = w
  BY DEF Goes
<1> HIDE DEF g
<1>6. /\ g \in Seq(Seq(Byte))
      /\ \A k \in DOMAIN g : \E l \in DOMAIN (r.up \o g) : (r.up \o g)[l] = g[k]
      /\ \A k \in DOMAIN r.up : k \in DOMAIN (r.up \o g) /\ (r.up \o g)[k] = r.up[k]
  <2> DEFINE up == r.up
  <2>1. g \in Seq(Seq(Byte)) /\ up \in Seq(Seq(Byte))
    BY <1>3, <1>4 DEF WholeSdus
  <2> HIDE DEF up
  <2>2. /\ Len(up) \in Nat /\ Len(g) \in Nat /\ DOMAIN g = 1 .. Len(g) /\ DOMAIN up = 1 .. Len(up)
        /\ DOMAIN (up \o g) = 1 .. Len(up) + Len(g)
        /\ \A k \in 1 .. Len(up) + Len(g) :
             (up \o g)[k] = IF k <= Len(up) THEN up[k] ELSE g[k - Len(up)]
    <3>1. up \o g \in Seq(Seq(Byte)) /\ Len(up \o g) = Len(up) + Len(g)
          /\ \A k \in 1 .. Len(up) + Len(g) :
             (up \o g)[k] = IF k <= Len(up) THEN up[k] ELSE g[k - Len(up)]
      BY <2>1, JoinedFacts
    <3> DEFINE s == up \o g
    <3> HIDE DEF s
    <3>2. DOMAIN s = 1 .. Len(up) + Len(g)
      BY <3>1 DEF s
    <3> QED BY <2>1, <3>1, <3>2 DEF s
  <2>3. ASSUME NEW k \in 1 .. Len(g)
        PROVE  \E l \in 1 .. Len(up) + Len(g) : (up \o g)[l] = g[k]
    <3> DEFINE l == Len(up) + k
    <3>1. l \in 1 .. Len(up) + Len(g) /\ ~ (l <= Len(up)) /\ l - Len(up) = k
      BY <2>2
    <3> HIDE DEF l
    <3> QED BY <2>2, <3>1
  <2>4. ASSUME NEW k \in 1 .. Len(up)
        PROVE  k \in 1 .. Len(up) + Len(g) /\ (up \o g)[k] = up[k]
    <3>1. k \in 1 .. Len(up) + Len(g) /\ k <= Len(up)
      BY <2>2
    <3> QED BY <2>2, <3>1
  <2> QED BY <2>1, <2>2, <2>3, <2>4 DEF up
<1>7. ASSUME NEW k \in DOMAIN w
      PROVE  Has(R, Idx(w[k]))
  <2>1. CASE k \in DOMAIN g
    BY <1>2, <1>4, <1>6, <2>1 DEF Has
  <2>2. CASE k \notin DOMAIN g
    <3>1. ~ Closed(w, pdu) /\ k = Len(w)
      BY <1>4, <1>5, <2>2
    <3>2. R.keep = w[k] /\ w[k] # << >>
      BY <1>2, <1>4, <3>1, PartFacts DEF IsPart
    <3> QED BY <3>2 DEF Has
  <2> QED BY <2>1, <2>2
<1>8. ASSUME NEW i, NEW k \in DOMAIN r.up, Idx(r.up[k]) = i
      PROVE  Has(R, i)
  BY <1>2, <1>6, <1>8 DEF Has
<1> QED BY <1>7, <1>8 DEF w, R

\* Where an SDU of the PDU, or of what was kept, is when the PDU has been
\* reassembled.
Found(i, R, lost, left, nr) ==
  i \in lost \/ Has(R, i) \/ \E q \in left : q.nr < nr /\ i \in SdusOf(q.fields)

LEMMA PieceIsFound ==
  ASSUME NEW pieces, NEW end, NEW next, PiecesFit(pieces, end, next),
         NEW r, Fits(r, pieces, end, next), NEW lost, NEW left \in SUBSET pieces,
         BeginsAccounted(r, lost, left), KeptAccounted(r, lost, left),
         NEW pdu, Due(r, pdu), PieceOf(pdu) \in left,
         NEW i, i \in SdusOf(pdu.fields) \/ (r.keep # << >> /\ Idx(r.keep) = i)
  PROVE  Found(i, ReassembleAndDeliver(r, pdu), lost, left, pdu.nr)
<1> DEFINE w == WholeFields(r, pdu.fields, pdu)
           R == ReassembleAndDeliver(r, pdu)
           p == PieceOf(pdu)
<1>1. /\ \A l \in DOMAIN pdu.fields :
           l > 1 \/ pdu.firstByte \/ Joins(r, pdu) =>
             \E k \in DOMAIN w : SameEnd(w[k], pdu.fields[l])
      /\ Joins(r, pdu) => w # << >> /\ Idx(w[1]) = Idx(r.keep)
      /\ w \in Seq(Seq(Byte))
  BY WholeFieldsOf
<1>2. \A k \in DOMAIN w : Has(R, Idx(w[k]))
  BY WholeFieldsAreHad
<1>3. p.nr = pdu.nr /\ p.fields = pdu.fields /\ FirstOf(p) = pdu.fields[1] /\ p \in left
      /\ r.upTo <= pdu.nr
  BY DEF PieceOf, FirstOf, Due
<1> HIDE DEF w, R, p
<1>4. CASE r.keep # << >> /\ Idx(r.keep) = i /\ Joins(r, pdu)
  <2>1. 1 \in DOMAIN w
    BY <1>1, <1>4
  <2> QED BY <1>1, <1>2, <1>4, <2>1 DEF Found, R
<1>5. CASE r.keep # << >> /\ Idx(r.keep) = i /\ ~ Joins(r, pdu)
  BY <1>5, KeptIsDropped DEF Found
<1>6. CASE i \in SdusOf(pdu.fields)
  <2>1. PICK l \in DOMAIN pdu.fields : Idx(pdu.fields[l]) = i
    BY <1>6, SdusOfFields
  <2>2. CASE l > 1 \/ pdu.firstByte \/ Joins(r, pdu)
    <3>1. PICK k \in DOMAIN w : Idx(w[k]) = i
      BY <1>1, <2>1, <2>2 DEF SameEnd
    <3> QED BY <1>2, <3>1 DEF Found, R
  <2>3. CASE ~ (l > 1 \/ pdu.firstByte \/ Joins(r, pdu))
    <3>1. l = 1 /\ Idx(FirstOf(p)) = i
      <4>1. Chain(pdu.fields)
        BY <1>3 DEF PiecesFit
      <4>2. l \in 1 .. Len(pdu.fields) /\ Len(pdu.fields) \in Nat
        BY <2>1, <4>1, ChainFacts
      <4>3. l = 1
        BY <2>3, <4>2
      <4> QED BY <1>3, <2>1, <4>3
    <3>2. From(FirstOf(p)) # 1
      BY <2>3 DEF Due, Framed, FirstOf, p, PieceOf
    <3>3. \/ i \in lost
          \/ r.keep # << >> /\ Idx(r.keep) = i
          \/ \E q \in left : q.nr < pdu.nr /\ i \in SdusOf(q.fields)
      BY <1>3, <3>1, <3>2 DEF BeginsAccounted
    <3> QED BY <1>5, <2>3, <3>3 DEF Found
  <2> QED BY <2>2, <2>3
<1> QED BY <1>4, <1>5, <1>6

\* No SDU that went up begins in the pieces that are not reassembled.
LEMMA UpIsPast ==
  ASSUME NEW pieces, NEW end, NEW next, PiecesFit(pieces, end, next),
         NEW r, Fits(r, pieces, end, next), NEW p \in pieces, r.upTo <= p.nr
  PROVE  \A k \in DOMAIN r.up : Idx(r.up[k]) # Idx(FirstOf(p))
<1> SUFFICES ASSUME NEW k \in DOMAIN r.up, Idx(r.up[k]) = Idx(FirstOf(p))
             PROVE  FALSE
  OBVIOUS
<1> DEFINE f == r.up[k]
           g == FirstOf(p)
<1>1. Later(f, g) /\ IsPart(f) /\ Upto(f) = Size(f) /\ Idx(f) = Idx(g)
  BY DEF Fits, UpFits, WholeSdus, Before
<1>2. IsPart(g)
  BY ChainFacts DEF PiecesFit, FirstOf
<1> HIDE DEF f, g
<1>3. /\ Upto(f) \in Nat /\ From(g) \in Nat /\ Upto(g) \in Nat /\ Size(g) \in Nat
      /\ From(g) <= Upto(g) /\ Upto(g) <= Size(g)
  BY <1>1, <1>2, PartFacts
<1>4. Upto(f) < From(g) /\ Size(f) = Size(g)
  BY <1>1 DEF Later
<1> QED BY <1>1, <1>3, <1>4

\* Reassembling a PDU accounts for its SDUs.
LEMMA ReassembledIsAccounted ==
  ASSUME NEW pieces, NEW end, NEW next, PiecesFit(pieces, end, next),
         NEW r, Fits(r, pieces, end, next), NEW lost, NEW left \in SUBSET pieces,
         Accounted(r, lost, left, next),
         NEW pdu, Due(r, pdu), PieceOf(pdu) \in left
  PROVE  Accounted(ReassembleAndDeliver(r, pdu), lost, left \ {PieceOf(pdu)}, next)
<1> DEFINE w == WholeFields(r, pdu.fields, pdu)
           R == ReassembleAndDeliver(r, pdu)
           p == PieceOf(pdu)
           rest == left \ {p}
           n == Len(pdu.fields)
<1>1. /\ p.nr = pdu.nr /\ p.fields = pdu.fields /\ p \in left /\ p \in pieces
      /\ FirstOf(p) = pdu.fields[1] /\ LastOf(p) = pdu.fields[n]
      /\ r.upTo \in Nat /\ pdu.nr \in Nat /\ r.upTo <= pdu.nr
      /\ \A q \in pieces : q.nr \in Nat
  BY DEF PieceOf, FirstOf, LastOf, Due, Fits, PiecesFit
<1>2. /\ R.upTo = pdu.nr + 1
      /\ R.keep = IF Closed(w, pdu) THEN << >> ELSE w[Len(w)]
  <2>1. Delivered(r, pdu)
    BY ReassembledParts
  <2> QED BY <2>1 DEF Delivered
<1>3. Fits(R, pieces, end, next)
  BY <1>1, ReassembledFits
<1>4. \A i : i \in SdusOf(pdu.fields) \/ (r.keep # << >> /\ Idx(r.keep) = i)
             => Found(i, R, lost, left, pdu.nr)
  <2>1. BeginsAccounted(r, lost, left) /\ KeptAccounted(r, lost, left)
    BY DEF Accounted
  <2> QED BY <1>1, <2>1, PieceIsFound
<1>5. \A i : (\E k \in DOMAIN r.up : Idx(r.up[k]) = i) => Has(R, i)
  BY <1>1, WholeFieldsAreHad
<1>6. StartsWhole(w, pdu.fields)
  BY <1>1, WholeFieldsOf
<1> HIDE DEF w, R, p
<1>7. \A q \in left : q.nr < pdu.nr => q \in rest
  BY <1>1
<1>8. ASSUME NEW s \in rest, R.upTo <= s.nr
      PROVE  s \in left /\ s \in pieces /\ r.upTo <= s.nr /\ pdu.nr < s.nr
  BY <1>1, <1>2, <1>8
<1>9. BeginsAccounted(R, lost, rest)
  <2> SUFFICES ASSUME NEW s \in rest, R.upTo <= s.nr, From(FirstOf(s)) # 1
               PROVE  \/ Idx(FirstOf(s)) \in lost
                      \/ R.keep # << >> /\ Idx(R.keep) = Idx(FirstOf(s))
                      \/ \E q \in rest : q.nr < s.nr /\ Idx(FirstOf(s)) \in SdusOf(q.fields)
    BY DEF BeginsAccounted
  <2> DEFINE i == Idx(FirstOf(s))
  <2>1. s \in left /\ s \in pieces /\ r.upTo <= s.nr /\ pdu.nr < s.nr
    BY <1>8
  <2>2. \/ i \in lost
        \/ r.keep # << >> /\ Idx(r.keep) = i
        \/ \E q \in left : q.nr < s.nr /\ i \in SdusOf(q.fields)
    BY <2>1 DEF Accounted, BeginsAccounted
  <2>3. Has(R, i) => R.keep # << >> /\ Idx(R.keep) = i
    <3>1. \A k \in DOMAIN R.up : Idx(R.up[k]) # i
      BY <1>3, <2>1, UpIsPast
    <3> QED BY <3>1 DEF Has
  <2> HIDE DEF i
  <2>4. ASSUME Found(i, R, lost, left, pdu.nr)
        PROVE  \/ i \in lost
               \/ R.keep # << >> /\ Idx(R.keep) = i
               \/ \E q \in rest : q.nr < s.nr /\ i \in SdusOf(q.fields)
    <3>1. CASE i \in lost \/ Has(R, i)
      BY <2>3, <3>1
    <3>2. ASSUME NEW q \in left, q.nr < pdu.nr, i \in SdusOf(q.fields)
          PROVE  \E t \in rest : t.nr < s.nr /\ i \in SdusOf(t.fields)
      <4>1. q \in rest
        BY <1>7, <3>2
      <4>2. q.nr < s.nr
        BY <1>1, <2>1, <3>2
      <4> QED BY <3>2, <4>1, <4>2
    <3> QED BY <2>4, <3>1, <3>2 DEF Found
  <2>5. CASE i \in lost
    BY <2>5 DEF i
  <2>6. CASE r.keep # << >> /\ Idx(r.keep) = i
    BY <1>4, <2>4, <2>6 DEF i
  <2>7. ASSUME NEW q \in left, q.nr < s.nr, i \in SdusOf(q.fields)
        PROVE  \/ i \in lost
               \/ R.keep # << >> /\ Idx(R.keep) = i
               \/ \E t \in rest : t.nr < s.nr /\ i \in SdusOf(t.fields)
    <3>1. CASE q = p
      BY <1>1, <1>4, <2>4, <2>7, <3>1
    <3>2. CASE q # p
      BY <2>7, <3>2
    <3> QED BY <3>1, <3>2
  <2> QED BY <2>2, <2>5, <2>6, <2>7 DEF i
<1>10. KeptAccounted(R, lost, rest)
  <2> SUFFICES ASSUME R.keep # << >>
               PROVE  Idx(R.keep) \in lost \/ \E q \in rest : q.nr = R.upTo
    BY DEF KeptAccounted
  <2>1. ~ Closed(w, pdu) /\ R.keep = w[Len(w)]
    BY <1>2
  <2>2. ~ pdu.lastByte /\ SameEnd(w[Len(w)], pdu.fields[n])
    BY <1>6, <2>1 DEF Closed, StartsWhole
  <2>3. Upto(LastOf(p)) # Size(LastOf(p))
    BY <2>2 DEF Due, Framed, LastOf, p, PieceOf
  <2>4. Idx(R.keep) = Idx(LastOf(p))
    BY <1>1, <2>1, <2>2 DEF SameEnd
  <2>5. Idx(LastOf(p)) \in lost \/ \E q \in left : q.nr = pdu.nr + 1
    BY <1>1, <2>3 DEF Accounted, EndsAccounted
  <2>6. ASSUME NEW q \in left, q.nr = pdu.nr + 1
        PROVE  q \in rest
    BY <1>1, <2>6
  <2> QED BY <1>2, <2>4, <2>5, <2>6
<1>11. EndsAccounted(R, lost, rest)
  <2> SUFFICES ASSUME NEW s \in rest, R.upTo <= s.nr, Upto(LastOf(s)) # Size(LastOf(s))
               PROVE  Idx(LastOf(s)) \in lost \/ \E q \in rest : q.nr = s.nr + 1
    BY DEF EndsAccounted
  <2>1. s \in left /\ s \in pieces /\ r.upTo <= s.nr /\ pdu.nr < s.nr
    BY <1>8
  <2>2. Idx(LastOf(s)) \in lost \/ \E q \in left : q.nr = s.nr + 1
    BY <2>1 DEF Accounted, EndsAccounted
  <2>3. ASSUME NEW q \in left, q.nr = s.nr + 1
        PROVE  q \in rest
    BY <1>1, <2>1, <2>3
  <2> QED BY <2>2, <2>3
<1>12. SdusAccounted(R, lost, rest, next)
  <2> SUFFICES ASSUME NEW i \in 0 .. next - 1
               PROVE  i \in lost \/ Has(R, i) \/ \E q \in rest : i \in SdusOf(q.fields)
    BY DEF SdusAccounted
  <2>1. Found(i, R, lost, left, pdu.nr)
          => i \in lost \/ Has(R, i) \/ \E q \in rest : i \in SdusOf(q.fields)
    BY <1>7 DEF Found
  <2>2. i \in lost \/ Has(r, i) \/ \E q \in left : i \in SdusOf(q.fields)
    BY DEF Accounted, SdusAccounted
  <2>3. CASE Has(r, i)
    BY <1>4, <1>5, <2>1, <2>3 DEF Has
  <2>4. ASSUME NEW q \in left, i \in SdusOf(q.fields)
        PROVE  i \in lost \/ Has(R, i) \/ \E t \in rest : i \in SdusOf(t.fields)
    <3>1. CASE q = p
      BY <1>1, <1>4, <2>1, <2>4, <3>1
    <3>2. CASE q # p
      BY <2>4, <3>2
    <3> QED BY <3>1, <3>2
  <2> QED BY <2>2, <2>3, <2>4
<1> QED BY <1>9, <1>10, <1>11, <1>12 DEF Accounted, R, p

\* The pieces of the first PDUs of an order.
DoneOf(buffer, order, i) == {PieceOf(buffer[order[j]]) : j \in 1 .. i}

\* A run accounts for the SDUs of its PDUs.
LEMMA RunIsAccounted ==
  ASSUME NEW state, NEW buffer, NEW order, NEW n,
         NEW pieces, RunsOver(state, buffer, order, n, pieces),
         NEW end, NEW next, PiecesFit(pieces, end, next),
         Fits(Reassembly, pieces, end, next),
         NEW lost, Accounted(Reassembly, lost, pieces, next)
  PROVE  /\ Accounted(state[n], lost, pieces \ DoneOf(buffer, order, n), next)
         /\ \A j \in 1 .. n : ~ (state[n].upTo <= buffer[order[j]].nr)
<1> DEFINE P(i) == /\ Accounted(state[i], lost, pieces \ DoneOf(buffer, order, i), next)
                   /\ \A j \in 1 .. i : ~ (state[i].upTo <= buffer[order[j]].nr)
           S == {i \in Nat : i <= n => P(i)}
<1>1. /\ n \in Nat /\ Steps(state, buffer, order, n) /\ InOrder(state, buffer, order, n)
      /\ \A i \in 1 .. n : Framed(buffer[order[i]]) /\ PieceOf(buffer[order[i]]) \in pieces
  BY DEF RunsOver
<1>2. \A i \in 0 .. n : Fits(state[i], pieces, end, next)
  BY RunFits
<1>3. 0 \in S
  <2>1. state[0] = Reassembly /\ DoneOf(buffer, order, 0) = {} /\ 1 .. 0 = {}
    BY <1>1 DEF Steps, DoneOf
  <2>2. pieces \ DoneOf(buffer, order, 0) = pieces
    BY <2>1
  <2> QED BY <2>1, <2>2
<1>4. ASSUME NEW i \in Nat, i \in S
      PROVE  i + 1 \in S
  <2> HIDE DEF P
  <2> SUFFICES ASSUME i + 1 <= n
               PROVE  P(i + 1)
    BY DEF S
  <2>1. i + 1 \in 1 .. n /\ (i + 1) - 1 = i /\ i \in 0 .. n /\ P(i)
    <3>1. i + 1 \in 1 .. n /\ (i + 1) - 1 = i /\ i <= n /\ i \in 0 .. n
      BY <1>1
    <3> QED BY <1>4, <3>1 DEF S
  <2> DEFINE r == state[i]
             pdu == buffer[order[i + 1]]
             left == pieces \ DoneOf(buffer, order, i)
  <2>2. state[i + 1] = ReassembleAndDeliver(r, pdu)
    BY <1>1, <2>1 DEF Steps
  <2>3. /\ Fits(r, pieces, end, next) /\ Due(r, pdu) /\ PieceOf(pdu) \in pieces
        /\ r.upTo \in Nat /\ pdu.nr \in Nat /\ r.upTo <= pdu.nr
    <3> HIDE DEF r, pdu
    <3>1. Framed(pdu) /\ PieceOf(pdu) \in pieces
      BY <1>1, <2>1 DEF pdu
    <3>2. Fits(r, pieces, end, next)
      BY <1>2, <2>1 DEF r
    <3>3. /\ r.upTo \in Nat /\ pdu.nr \in Nat /\ r.upTo <= pdu.nr
          /\ NoLoss(r, pdu) <=> pdu.nr = r.upTo
      BY <1>1, <2>1 DEF InOrder, r, pdu
    <3> QED BY <3>1, <3>2, <3>3 DEF Due
  <2>4. /\ Accounted(r, lost, left, next) /\ left \in SUBSET pieces
        /\ \A j \in 1 .. i : ~ (r.upTo <= buffer[order[j]].nr)
    BY <2>1 DEF P
  <2>5. \A j \in 1 .. i : buffer[order[j]].nr \in Nat
    <3>1. \A j \in 1 .. i : j \in 1 .. n
      BY <1>1, <2>1
    <3> QED BY <1>1, <3>1 DEF InOrder
  <2>6. \A j \in 1 .. i + 1 : j \in 1 .. i \/ j = i + 1
    OBVIOUS
  <2>7. DoneOf(buffer, order, i + 1) = DoneOf(buffer, order, i) \union {PieceOf(pdu)}
    <3>1. 1 .. i \in SUBSET (1 .. i + 1) /\ i + 1 \in 1 .. i + 1
      OBVIOUS
    <3> QED BY <2>6, <3>1 DEF DoneOf
  <2> HIDE DEF r, pdu
  <2>8. PieceOf(pdu) \in left
    <3> SUFFICES ASSUME NEW j \in 1 .. i, PieceOf(pdu) = PieceOf(buffer[order[j]])
                 PROVE  FALSE
      BY <2>3 DEF DoneOf
    <3>1. pdu.nr = buffer[order[j]].nr
      BY DEF PieceOf
    <3> QED BY <2>3, <2>4, <3>1
  <2> HIDE DEF left
  <2>9. Accounted(ReassembleAndDeliver(r, pdu), lost, left \ {PieceOf(pdu)}, next)
    BY <2>3, <2>4, <2>8, ReassembledIsAccounted
  <2>10. ReassembleAndDeliver(r, pdu).upTo = pdu.nr + 1
    <3>1. Delivered(r, pdu)
      BY <2>3, ReassembledParts
    <3> QED BY <3>1 DEF Delivered
  <2>11. left \ {PieceOf(pdu)} = pieces \ DoneOf(buffer, order, i + 1)
    BY <2>7 DEF left
  <2>12. ASSUME NEW j \in 1 .. i + 1
         PROVE  ~ (pdu.nr + 1 <= buffer[order[j]].nr)
    <3>1. CASE j = i + 1
      BY <2>3, <3>1 DEF pdu
    <3>2. CASE j \in 1 .. i
      <4>1. buffer[order[j]].nr \in Nat /\ ~ (r.upTo <= buffer[order[j]].nr)
        BY <2>4, <2>5, <3>2
      <4> QED BY <2>3, <4>1
    <3> QED BY <2>6, <3>1, <3>2
  <2> QED BY <2>2, <2>9, <2>10, <2>11, <2>12 DEF P
<1>5. Nat \subseteq S
  <2> HIDE DEF S
  <2> QED BY <1>3, <1>4, InductionOnSet
<1> HIDE DEF P
<1>6. P(n)
  <2>1. n \in Nat /\ n <= n
    BY <1>1
  <2> QED BY <1>5, <2>1 DEF S
<1> QED BY <1>6 DEF P

\* Every SDU that came down was missed, went up, or is still somewhere.
AllAccounted == Accounted(Reassembly, missed, Pieces, nextSdu)

LEMMA AccountedAfter ==
  ASSUME NEW r, NEW lost, NEW pieces, NEW next, Accounted(r, lost, pieces, next), ReassembledTo(r)
  PROVE  Accounted(Reassembly', lost, pieces, next)
<1>1. /\ Reassembly'.upTo = r.upTo
      /\ Reassembly'.keep = r.keep /\ Reassembly'.up = r.up
  BY DEF ReassembledTo, Reassembly
<1> DEFINE s == Reassembly'
<1> HIDE DEF s
<1>2. BeginsAccounted(s, lost, pieces)
  BY <1>1 DEF Accounted, BeginsAccounted, s
<1>3. KeptAccounted(s, lost, pieces) /\ EndsAccounted(s, lost, pieces)
  BY <1>1 DEF Accounted, KeptAccounted, EndsAccounted, s
<1>4. SdusAccounted(s, lost, pieces, next)
  <2>1. \A i : Has(r, i) => Has(s, i)
    BY <1>1 DEF Has, s
  <2> QED BY <2>1 DEF Accounted, SdusAccounted
<1> QED BY <1>2, <1>3, <1>4 DEF Accounted, s

LEMMA RunKeepsAccounts ==
  ASSUME WindowInStep, StreamInStep, AllAccounted,
         NEW buffer, NEW m \in Int, RunTo(buffer, m),
         \A sn \in DOMAIN buffer : buffer[sn] \in UnderWay,
         received' \in Int, received - Window <= reassembled,
         channel' \subseteq channel, UNCHANGED <<txBuffer, sentPdus, nextSdu, missed>>,
         \A pdu \in UnderWay : \/ pdu \in channel'
                               \/ \E sn \in DOMAIN buffer : PieceOf(buffer[sn]) = PieceOf(pdu)
  PROVE  AllAccounted'
<1> DEFINE run == TakenFrom(buffer, reassembled, m)
           P == Pieces
           e == End
           Q == Pieces'
<1>1. \E state, order, n : IsReassembled(buffer, run, state, order, n)
  BY RunOfPieces
<1> HIDE DEF run
<1>2. PICK state, order, n : IsReassembled(buffer, run, state, order, n)
  BY <1>1
<1>3. /\ order \in [1 .. n -> run]
      /\ \A sn \in run : \E i \in 1 .. n : order[i] = sn
      /\ rxBuffer' = [sn \in DOMAIN buffer \ run |-> buffer[sn]]
      /\ ReassembledTo(state[n])
      /\ RunsOver(state, buffer, order, n, P)
  BY <1>2 DEF IsReassembled
<1>4. PiecesFit(P, e, nextSdu) /\ Fits(Reassembly, P, e, nextSdu)
  BY DEF StreamInStep
<1>5. Accounted(Reassembly, missed, P, nextSdu)
  BY DEF AllAccounted
<1> DEFINE rest == P \ DoneOf(buffer, order, n)
<1>6. Q \in SUBSET P
  <2>1. Stored' \subseteq {buffer[sn] : sn \in DOMAIN buffer}
    BY <1>3 DEF Stored
  <2>2. UnderWay' \subseteq UnderWay
    BY <2>1 DEF UnderWay
  <2>3. TxFields' = TxFields
    BY DEF TxFields
  <2> QED BY <2>2, <2>3 DEF Pieces
<1>7. rest \subseteq Q
  <2> SUFFICES ASSUME NEW q \in P, q \notin DoneOf(buffer, order, n)
               PROVE  q \in Q
    OBVIOUS
  <2>1. CASE q \in TxOf(sentPdus, TxFields)
    <3>1. TxFields' = TxFields
      BY DEF TxFields
    <3> QED BY <2>1, <3>1 DEF Pieces
  <2>2. CASE q \notin TxOf(sentPdus, TxFields)
    <3>1. PICK pdu \in UnderWay : q = PieceOf(pdu)
      BY <2>2 DEF Pieces
    <3>2. CASE pdu \in channel'
      BY <3>1, <3>2 DEF Pieces, UnderWay
    <3>3. CASE pdu \notin channel'
      <4>1. PICK sn \in DOMAIN buffer : PieceOf(buffer[sn]) = q
        BY <3>1, <3>3
      <4>2. sn \notin run
        <5> SUFFICES ASSUME sn \in run
                     PROVE  FALSE
          OBVIOUS
        <5>1. PICK i \in 1 .. n : order[i] = sn
          BY <1>3
        <5> QED BY <4>1, <5>1 DEF DoneOf
      <4>3. buffer[sn] \in Stored'
        BY <1>3, <4>1, <4>2 DEF Stored
      <4> QED BY <4>1, <4>3 DEF Pieces, UnderWay
    <3> QED BY <3>2, <3>3
  <2> QED BY <2>1, <2>2
<1> HIDE DEF P, e, Q
<1>8. /\ Accounted(state[n], missed, rest, nextSdu)
      /\ \A j \in 1 .. n : ~ (state[n].upTo <= buffer[order[j]].nr)
  BY <1>3, <1>4, <1>5, RunIsAccounted
<1>9. \A q \in Q \ rest : ~ (state[n].upTo <= q.nr)
  <2> SUFFICES ASSUME NEW j \in 1 .. n
               PROVE  ~ (state[n].upTo <= PieceOf(buffer[order[j]]).nr)
    BY <1>6 DEF DoneOf
  <2> QED BY <1>8 DEF PieceOf
<1> HIDE DEF rest
<1>10. Accounted(state[n], missed, Q, nextSdu)
  BY <1>7, <1>8, <1>9, OldAreAccounted
<1>11. Accounted(Reassembly', missed, Q, nextSdu)
  BY <1>3, <1>10, AccountedAfter
<1> QED BY <1>11 DEF AllAccounted, Q

\* The receiver as it was, fewer PDUs under way, and their SDUs missed.
LEMMA FewerKeepsAccounts ==
  ASSUME StreamInStep, AllAccounted, UNCHANGED <<txBuffer, sentPdus, nextSdu, umRxVars>>,
         channel' \subseteq channel, missed \subseteq missed',
         \A pdu \in channel \ channel' :
           \/ SdusOf(pdu.fields) \subseteq missed'
           \/ \E stored \in Stored : PieceOf(stored) = PieceOf(pdu)
  PROVE  AllAccounted'
<1> DEFINE P == Pieces
           Q == Pieces'
           e == End
<1>1. Reassembly' = Reassembly /\ Stored' = Stored /\ TxFields' = TxFields
  BY DEF Reassembly, Stored, TxFields, umRxVars
<1>2. Q \in SUBSET P
  BY <1>1 DEF Pieces, UnderWay
<1>3. \A q \in P \ Q : SdusOf(q.fields) \subseteq missed'
  <2> SUFFICES ASSUME NEW q \in P, q \notin Q
               PROVE  SdusOf(q.fields) \subseteq missed'
    OBVIOUS
  <2>1. q \notin TxOf(sentPdus, TxFields)
    BY <1>1 DEF Pieces
  <2>2. PICK pdu \in UnderWay : q = PieceOf(pdu)
    BY <2>1 DEF Pieces
  <2>3. \A stored \in Stored : PieceOf(stored) \in Q
    BY <1>1 DEF Pieces, UnderWay
  <2>4. \A other \in channel' : PieceOf(other) \in Q
    BY DEF Pieces, UnderWay
  <2> HIDE DEF P, Q
  <2>5. pdu \in channel \ channel' /\ ~ \E stored \in Stored : PieceOf(stored) = PieceOf(pdu)
    BY <2>2, <2>3, <2>4 DEF UnderWay
  <2>6. q.fields = pdu.fields
    BY <2>2 DEF PieceOf
  <2> QED BY <2>5, <2>6
<1>4. PiecesFit(P, e, nextSdu) /\ Fits(Reassembly, P, e, nextSdu)
  BY DEF StreamInStep
<1>5. Accounted(Reassembly, missed, P, nextSdu)
  BY DEF AllAccounted
<1> HIDE DEF P, e, Q
<1>6. Accounted(Reassembly, missed', Q, nextSdu)
  BY <1>2, <1>3, <1>4, <1>5, MissedIsAccounted
<1> QED BY <1>1, <1>6 DEF AllAccounted, Q

LEMMA ReceiveKeepsAccounts ==
  ASSUME GapFits, WindowInStep, StreamInStep, AllAccounted, ReceivePdu
  PROVE  AllAccounted'
<1>1. PICK pdu \in channel :
        /\ channel' = channel \ {pdu}
        /\ received' = Max({received, pdu.nr + 1})
        /\ missed' = IF pdu.nr < reassembled
                     THEN missed \union SdusOf(pdu.fields) ELSE missed
        /\ IF Discarded(pdu.sn) THEN UNCHANGED umRxVars ELSE PlacePdu(pdu)
        /\ UNCHANGED umTxVars
  BY DEF ReceivePdu
<1>2. UNCHANGED <<txBuffer, sentPdus, nextSdu>> /\ channel' \subseteq channel
  BY <1>1 DEF umTxVars
<1>3. /\ received \in Nat /\ pdu.nr \in Nat /\ reassembled \in Nat /\ sentPdus \in Nat
      /\ received <= sentPdus /\ sentPdus <= reassembled + Window
      /\ pdu.sn = Sn(pdu.nr) /\ pdu.nr < reassembled + Window
  BY ChannelNumbers
<1>4. received' = IF pdu.nr < received THEN received ELSE pdu.nr + 1
  <2> DEFINE p == pdu.nr
  <2>1. Max({received, p + 1}) = IF received < p + 1 THEN p + 1 ELSE received
    BY <1>3, MaxOfTwo
  <2> HIDE DEF p
  <2> QED BY <1>1, <1>3, <2>1 DEF p
<1>5. ASSUME ~ (pdu.nr < reassembled), pdu.sn \in DOMAIN rxBuffer
      PROVE  PieceOf(rxBuffer[pdu.sn]) = PieceOf(pdu)
  <2> DEFINE x == rxBuffer[pdu.sn]
             k == x.nr
             p == pdu.nr
  <2>1. /\ k \in Nat /\ reassembled <= k /\ k < received /\ pdu.sn = Sn(k)
    BY <1>5 DEF WindowInStep, BufferInStep
  <2> HIDE DEF k, p
  <2>2. k \in Int /\ p \in Int /\ Sn(k) = Sn(p) /\ k - p < SnSpace /\ p - k < SnSpace
    <3>1. p \in Nat /\ reassembled <= p /\ p < reassembled + Window
      BY <1>3, <1>5 DEF p
    <3> QED BY <1>3, <2>1, <3>1, SnConstants DEF p
  <2>3. k = p
    BY <2>2, SnIsInjective
  <2>4. PieceOf(x) \in Pieces /\ PieceOf(pdu) \in Pieces
    BY <1>5 DEF Pieces, UnderWay, Stored
  <2>5. PieceOf(x).nr = PieceOf(pdu).nr
    BY <2>3 DEF PieceOf, k, p
  <2> QED BY <2>4, <2>5 DEF StreamInStep, PiecesFit
<1>6. CASE Discarded(pdu.sn)
  <2>1. UNCHANGED umRxVars
    BY <1>1, <1>6
  <2>2. pdu.nr < reassembled \/ pdu.sn \in DOMAIN rxBuffer
    BY <1>6, DiscardedNumbers
  <2>3. \/ SdusOf(pdu.fields) \subseteq missed'
        \/ \E stored \in Stored : PieceOf(stored) = PieceOf(pdu)
    <3>1. CASE pdu.nr < reassembled
      BY <1>1, <3>1
    <3>2. CASE ~ (pdu.nr < reassembled)
      <4>1. pdu.sn \in DOMAIN rxBuffer /\ PieceOf(rxBuffer[pdu.sn]) = PieceOf(pdu)
        BY <1>5, <2>2, <3>2
      <4> QED BY <4>1 DEF Stored
    <3> QED BY <3>1, <3>2
  <2>4. missed \subseteq missed' /\ channel \ channel' \subseteq {pdu}
    BY <1>1
  <2> QED BY <1>2, <2>1, <2>3, <2>4, FewerKeepsAccounts
<1>7. CASE ~ Discarded(pdu.sn)
  <2> DEFINE buffer == Placed(pdu)
  <2>1. PlacePdu(pdu)
    BY <1>1, <1>7
  <2>2. /\ reassembled <= pdu.nr /\ received' \in Nat
        /\ \E m \in reassembled .. received' : RunTo(buffer, m)
    BY <1>4, <1>7, <2>1, PlacedRun
  <2>3. ~ (pdu.nr < reassembled) /\ received <= reassembled + Window
    BY <1>3, <2>2, SnConstants
  <2>4. missed' = missed
    BY <1>1, <2>3
  <2>5. \A sn \in DOMAIN buffer : buffer[sn] \in UnderWay
    BY DEF Placed, UnderWay, Stored
  <2>6. ASSUME NEW other \in UnderWay
        PROVE  \/ other \in channel'
               \/ \E sn \in DOMAIN buffer : PieceOf(buffer[sn]) = PieceOf(other)
    <3>1. pdu.sn \in DOMAIN buffer /\ buffer[pdu.sn] = pdu
      BY DEF Placed
    <3>2. CASE other \in channel
      BY <1>1, <3>1, <3>2
    <3>3. CASE other \in Stored
      <4>1. PICK sn \in DOMAIN rxBuffer : other = rxBuffer[sn]
        BY <3>3 DEF Stored
      <4>2. CASE sn = pdu.sn
        BY <1>5, <2>3, <3>1, <4>1, <4>2
      <4>3. CASE sn # pdu.sn
        BY <4>1, <4>3 DEF Placed
      <4> QED BY <4>2, <4>3
    <3> QED BY <3>2, <3>3 DEF UnderWay
  <2> HIDE DEF buffer
  <2>7. PICK m \in reassembled .. received' : RunTo(buffer, m)
    BY <2>2
  <2>8. m \in Int /\ received' \in Int /\ received - Window <= reassembled
    BY <1>3, <2>2, <2>3, SnConstants
  <2> QED BY <1>2, <2>4, <2>5, <2>6, <2>7, <2>8, RunKeepsAccounts
<1> QED BY <1>6, <1>7

LEMMA ExpireKeepsAccounts ==
  ASSUME GapFits, WindowInStep, StreamInStep, AllAccounted, ExpireReorderingTimer
  PROVE  AllAccounted'
<1>1. /\ UNCHANGED <<txBuffer, sentPdus, nextSdu, missed>> /\ channel' = channel
      /\ received' = received
  BY DEF ExpireReorderingTimer, umTxVars
<1>2. PICK m \in reassembled + 1 .. received : RunTo(rxBuffer, m)
  BY ExpiredRun
<1>3. /\ \A sn \in DOMAIN rxBuffer : rxBuffer[sn] \in UnderWay
      /\ \A pdu \in UnderWay : \/ pdu \in channel'
                               \/ \E sn \in DOMAIN rxBuffer : PieceOf(rxBuffer[sn]) = PieceOf(pdu)
  BY <1>1 DEF UnderWay, Stored
<1>4. m \in Int /\ received' \in Int /\ received - Window <= reassembled
  <2>1. /\ sentPdus \in Nat /\ reassembled \in Nat /\ received \in Nat
        /\ received <= sentPdus /\ sentPdus <= reassembled + Window
    BY ChannelNumbers
  <2> QED BY <1>1, <1>2, <2>1, SnConstants
<1> QED BY <1>1, <1>2, <1>3, <1>4, RunKeepsAccounts

\* The transmitter takes an SDU.
LEMMA QueuedIsAccounted ==
  ASSUME NEW sent, NEW nr \in Nat, \A p \in sent : p.nr < nr,
         NEW fields, fields = << >> \/ Chain(fields), NEW g, IsPart(g), From(g) = 1,
         Upto(g) = Size(g),
         \A k \in DOMAIN fields : Upto(fields[k]) = Size(fields[k]) /\ Idx(fields[k]) < Idx(g),
         NEW r, NEW lost, Accounted(r, lost, sent \union TxOf(nr, fields), Idx(g))
  PROVE  Accounted(r, lost, sent \union TxOf(nr, Append(fields, g)), Idx(g) + 1)
<1> DEFINE f2 == Append(fields, g)
           new == [nr |-> nr, fields |-> f2]
           P == sent \union TxOf(nr, fields)
           Q == sent \union {new}
<1>1. /\ Chain(f2) /\ f2[Len(f2)] = g
      /\ f2[1] = IF fields = << >> THEN g ELSE fields[1]
  BY ChainAppended
<1>2. f2 # << >>
  BY <1>1 DEF Chain
<1>3. sent \union TxOf(nr, f2) = Q
  BY <1>2 DEF TxOf
<1>4. Idx(g) \in SdusOf(f2) /\ SdusOf(fields) \subseteq SdusOf(f2)
  <2>1. fields \in Seq(Seq(Byte)) /\ g \in Seq(Byte)
    <3>1. << >> \in Seq(Seq(Byte))
      OBVIOUS
    <3> QED BY <3>1, PartFacts DEF Chain
  <2>2. /\ Len(f2) = Len(fields) + 1 /\ Len(fields) \in Nat /\ DOMAIN fields = 1 .. Len(fields)
        /\ DOMAIN f2 = 1 .. Len(fields) + 1
        /\ \A k \in 1 .. Len(fields) : f2[k] = fields[k]
    BY <2>1
  <2> HIDE DEF f2
  <2>3. Len(fields) + 1 \in DOMAIN f2 /\ \A k \in DOMAIN fields : k \in DOMAIN f2
    BY <2>2
  <2>4. Idx(f2[Len(fields) + 1]) = Idx(g)
    BY <1>1, <2>2
  <2> QED BY <2>2, <2>3, <2>4, SdusOfFields
<1> HIDE DEF f2
<1>5. new.nr = nr /\ new.fields = f2 /\ FirstOf(new) = f2[1] /\ LastOf(new) = g
  BY <1>1 DEF FirstOf, LastOf
<1> DEFINE old == [nr |-> nr, fields |-> fields]
<1>6. /\ P \subseteq sent \union {old} /\ sent \subseteq P /\ (fields # << >> => old \in P)
      /\ old.nr = nr /\ old.fields = fields /\ FirstOf(old) = fields[1]
  BY DEF TxOf, FirstOf
<1> HIDE DEF P, new, old
<1>7. BeginsAccounted(r, lost, Q)
  <2> SUFFICES ASSUME NEW p \in Q, r.upTo <= p.nr, From(FirstOf(p)) # 1
               PROVE  \/ Idx(FirstOf(p)) \in lost
                      \/ r.keep # << >> /\ Idx(r.keep) = Idx(FirstOf(p))
                      \/ \E q \in Q : q.nr < p.nr /\ Idx(FirstOf(p)) \in SdusOf(q.fields)
    BY DEF BeginsAccounted
  <2>1. PICK o \in P : o.nr = p.nr /\ FirstOf(o) = FirstOf(p)
    <3>1. CASE p \in sent
      BY <1>6, <3>1
    <3>2. CASE p = new
      <4>1. fields # << >> /\ FirstOf(p) = fields[1]
        BY <1>1, <1>5, <3>2
      <4> QED BY <1>5, <1>6, <3>2, <4>1
    <3> QED BY <3>1, <3>2
  <2>2. \/ Idx(FirstOf(p)) \in lost
        \/ r.keep # << >> /\ Idx(r.keep) = Idx(FirstOf(p))
        \/ \E q \in P : q.nr < p.nr /\ Idx(FirstOf(p)) \in SdusOf(q.fields)
    BY <2>1 DEF Accounted, BeginsAccounted, P
  <2>3. ASSUME NEW q \in P, q.nr < p.nr, Idx(FirstOf(p)) \in SdusOf(q.fields)
        PROVE  \E s \in Q : s.nr < p.nr /\ Idx(FirstOf(p)) \in SdusOf(s.fields)
    BY <1>4, <1>5, <1>6, <2>3
  <2> QED BY <2>2, <2>3
<1>8. \A q \in P : \E s \in Q : s.nr = q.nr /\ SdusOf(q.fields) \subseteq SdusOf(s.fields)
  BY <1>4, <1>5, <1>6
<1>9. KeptAccounted(r, lost, Q)
  BY <1>8 DEF Accounted, KeptAccounted, P
<1>10. EndsAccounted(r, lost, Q)
  <2> SUFFICES ASSUME NEW p \in Q, r.upTo <= p.nr, Upto(LastOf(p)) # Size(LastOf(p))
               PROVE  Idx(LastOf(p)) \in lost \/ \E q \in Q : q.nr = p.nr + 1
    BY DEF EndsAccounted
  <2>1. p \in P
    BY <1>5, <1>6
  <2>2. Idx(LastOf(p)) \in lost \/ \E q \in P : q.nr = p.nr + 1
    BY <2>1 DEF Accounted, EndsAccounted, P
  <2> QED BY <1>8, <2>2
<1>11. SdusAccounted(r, lost, Q, Idx(g) + 1)
  <2> SUFFICES ASSUME NEW i \in 0 .. Idx(g)
               PROVE  i \in lost \/ Has(r, i) \/ \E q \in Q : i \in SdusOf(q.fields)
    <3>1. Idx(g) \in Nat
      BY PartFacts
    <3>2. (Idx(g) + 1) - 1 = Idx(g)
      BY <3>1
    <3> QED BY <3>2 DEF SdusAccounted
  <2>1. CASE i = Idx(g)
    BY <1>4, <1>5, <2>1
  <2>2. CASE i # Idx(g)
    <3>1. i \in 0 .. Idx(g) - 1
      <4>1. Idx(g) \in Nat
        BY PartFacts
      <4> QED BY <2>2, <4>1
    <3>2. i \in lost \/ Has(r, i) \/ \E q \in P : i \in SdusOf(q.fields)
      BY <3>1 DEF Accounted, SdusAccounted, P
    <3> QED BY <1>8, <3>2
  <2> QED BY <2>1, <2>2
<1> QED BY <1>3, <1>7, <1>9, <1>10, <1>11 DEF Accounted, f2

\* A grant splits what waits to be sent.
LEMMA SplitIsAccounted ==
  ASSUME NEW sent, NEW nr \in Nat, \A p \in sent : p.nr \in Nat /\ p.nr < nr,
         NEW fields, NEW a, NEW b, IsSplit(fields, a, b),
         NEW r, NEW lost, NEW next,
         Accounted(r, lost, sent \union {[nr |-> nr, fields |-> fields]}, next)
  PROVE  Accounted(r, lost, (sent \union {[nr |-> nr, fields |-> a]}) \union TxOf(nr + 1, b), next)
<1> DEFINE old == [nr |-> nr, fields |-> fields]
           A == [nr |-> nr, fields |-> a]
           B == [nr |-> nr + 1, fields |-> b]
           P == sent \union {old}
           Q == (sent \union {A}) \union TxOf(nr + 1, b)
<1>1. /\ Chain(a) /\ SameStart(a[1], fields[1])
      /\ b # << >> => Chain(b) /\ (From(b[1]) > 1 => Idx(b[1]) = Idx(a[Len(a)]))
      /\ Upto(a[Len(a)]) < Size(a[Len(a)]) => b # << >>
      /\ \A k \in DOMAIN b : Upto(b[k]) = Size(b[k])
      /\ SdusOf(fields) = SdusOf(a) \union SdusOf(b)
  BY DEF IsSplit
<1>2. /\ old.nr = nr /\ old.fields = fields /\ FirstOf(old) = fields[1]
      /\ A.nr = nr /\ A.fields = a /\ FirstOf(A) = a[1] /\ LastOf(A) = a[Len(a)]
      /\ B.nr = nr + 1 /\ B.fields = b /\ FirstOf(B) = b[1] /\ LastOf(B) = b[Len(b)]
  BY DEF FirstOf, LastOf
<1>3. /\ sent \subseteq Q /\ A \in Q /\ (b # << >> => B \in Q)
      /\ \A q \in Q : q \in sent \/ q = A \/ (q = B /\ b # << >>)
      /\ sent \subseteq P /\ old \in P /\ \A p \in P : p \in sent \/ p = old
  BY DEF TxOf
<1>4. Accounted(r, lost, P, next)
  OBVIOUS
<1> HIDE DEF old, A, B, P, Q
<1>5. \A p \in P : \E q \in Q : q.nr = p.nr
  BY <1>2, <1>3
<1>6. BeginsAccounted(r, lost, Q)
  <2> SUFFICES ASSUME NEW p \in Q, r.upTo <= p.nr, From(FirstOf(p)) # 1
               PROVE  \/ Idx(FirstOf(p)) \in lost
                      \/ r.keep # << >> /\ Idx(r.keep) = Idx(FirstOf(p))
                      \/ \E q \in Q : q.nr < p.nr /\ Idx(FirstOf(p)) \in SdusOf(q.fields)
    BY DEF BeginsAccounted
  <2>1. CASE p = B /\ b # << >>
    <3>1. IsPart(b[1])
      BY <1>1, <2>1, ChainFacts
    <3>2. From(b[1]) > 1
      BY <1>2, <2>1, <3>1, PartFacts
    <3>3. Len(a) \in DOMAIN a
      BY <1>1, ChainFacts
    <3>4. Idx(FirstOf(p)) \in SdusOf(a)
      BY <1>1, <1>2, <2>1, <3>2, <3>3, SdusOfFields
    <3>5. A.nr < p.nr
      BY <1>2, <2>1
    <3> QED BY <1>2, <1>3, <3>4, <3>5
  <2>2. CASE p \in sent \/ p = A
    <3>1. PICK o \in P : /\ o.nr = p.nr /\ Idx(FirstOf(o)) = Idx(FirstOf(p))
                         /\ From(FirstOf(o)) = From(FirstOf(p))
      BY <1>1, <1>2, <1>3, <2>2 DEF SameStart
    <3>2. p.nr \in Nat /\ p.nr <= nr
      BY <1>2, <2>2
    <3>3. \/ Idx(FirstOf(p)) \in lost
          \/ r.keep # << >> /\ Idx(r.keep) = Idx(FirstOf(p))
          \/ \E q \in P : q.nr < p.nr /\ Idx(FirstOf(p)) \in SdusOf(q.fields)
      BY <1>4, <3>1 DEF Accounted, BeginsAccounted
    <3>4. ASSUME NEW q \in P, q.nr < p.nr
          PROVE  q \in Q
      <4>1. q # old
        BY <1>2, <3>2, <3>4
      <4> QED BY <1>3, <4>1
    <3> QED BY <3>3, <3>4
  <2> QED BY <1>3, <2>1, <2>2
<1>7. KeptAccounted(r, lost, Q)
  BY <1>4, <1>5 DEF Accounted, KeptAccounted
<1>8. EndsAccounted(r, lost, Q)
  <2> SUFFICES ASSUME NEW p \in Q, r.upTo <= p.nr, Upto(LastOf(p)) # Size(LastOf(p))
               PROVE  Idx(LastOf(p)) \in lost \/ \E q \in Q : q.nr = p.nr + 1
    BY DEF EndsAccounted
  <2>1. CASE p \in sent
    <3>1. Idx(LastOf(p)) \in lost \/ \E q \in P : q.nr = p.nr + 1
      BY <1>3, <1>4, <2>1 DEF Accounted, EndsAccounted
    <3> QED BY <1>5, <3>1
  <2>2. CASE p = A
    <3>1. IsPart(a[Len(a)])
      BY <1>1, ChainFacts
    <3>2. Upto(a[Len(a)]) <= Size(a[Len(a)]) /\ Upto(a[Len(a)]) \in Nat /\ Size(a[Len(a)]) \in Nat
      BY <3>1, PartFacts
    <3>3. Upto(a[Len(a)]) < Size(a[Len(a)])
      BY <1>2, <2>2, <3>2
    <3>4. B \in Q /\ B.nr = p.nr + 1
      <4>1. b # << >>
        BY <1>1, <3>3
      <4> QED BY <1>2, <1>3, <2>2, <4>1
    <3> QED BY <3>4
  <2>3. CASE p = B /\ b # << >>
    <3>1. Len(b) \in DOMAIN b
      BY <1>1, <2>3, ChainFacts
    <3> QED BY <1>1, <1>2, <2>3, <3>1
  <2> QED BY <1>3, <2>1, <2>2, <2>3
<1>9. SdusAccounted(r, lost, Q, next)
  <2> SUFFICES ASSUME NEW i \in 0 .. next - 1
               PROVE  i \in lost \/ Has(r, i) \/ \E q \in Q : i \in SdusOf(q.fields)
    BY DEF SdusAccounted
  <2>1. i \in lost \/ Has(r, i) \/ \E q \in P : i \in SdusOf(q.fields)
    BY <1>4 DEF Accounted, SdusAccounted
  <2>2. ASSUME i \in SdusOf(fields)
        PROVE  \E q \in Q : i \in SdusOf(q.fields)
    <3>1. CASE i \in SdusOf(a)
      BY <1>2, <1>3, <3>1
    <3>2. CASE i \in SdusOf(b)
      <4>1. b # << >>
        <5> SUFFICES ASSUME b = << >>
                     PROVE  DOMAIN b = {}
          BY <3>2, SdusOfFields
        <5> QED OBVIOUS
      <4> QED BY <1>2, <1>3, <3>2, <4>1
    <3> QED BY <1>1, <2>2, <3>1, <3>2
  <2> QED BY <1>2, <1>3, <2>1, <2>2
<1> QED BY <1>6, <1>7, <1>8, <1>9 DEF Accounted, Q, A

LEMMA TransmitKeepsAccounts ==
  ASSUME WindowInStep, StreamInStep, AllAccounted, TransmitPdcpPdu
  PROVE  AllAccounted'
<1>1. PICK n \in SduSizes :
        /\ nextSdu' = nextSdu + 1
        /\ \/ /\ txBuffer' = Append(txBuffer, [data |-> Sdu(nextSdu, n), tag |-> "FULL_SDU"])
              /\ missed' = missed
           \/ /\ txBuffer' = txBuffer
              /\ missed' = missed \union {nextSdu}
        /\ UNCHANGED <<sentPdus, umRxVars, channel>>
  BY DEF TransmitPdcpPdu
<1>2. UNCHANGED <<rxBuffer, expectedSn, keepS0, sdusBuffer, reassembled, handedUp>>
  BY <1>1 DEF umRxVars
<1>3. UnderWay' = UnderWay /\ Reassembly' = Reassembly /\ sentPdus' = sentPdus
  BY <1>1, <1>2 DEF UnderWay, Stored, Reassembly
<1> DEFINE sent == {PieceOf(pdu) : pdu \in UnderWay}
           fields == TxFields
           P == Pieces
           Q == Pieces'
           e == End
           r == Reassembly
           next == nextSdu
           lost2 == missed'
<1>4. /\ PiecesFit(P, e, next) /\ Fits(r, P, e, next) /\ Accounted(r, missed, P, next)
      /\ next \in Nat
  BY DEF StreamInStep, AllAccounted, PiecesFit
<1>5. Accounted(r, lost2, Q, next + 1)
  <2>1. CASE txBuffer' = txBuffer /\ lost2 = missed \union {next}
    <3>1. Q = P
      BY <1>3, <2>1 DEF Pieces, TxFields
    <3> HIDE DEF P, Q, e, r, lost2, next
    <3>2. missed \subseteq lost2 /\ P \in SUBSET P /\ P \ P = {}
      BY <2>1
    <3>3. Accounted(r, lost2, P, next)
      BY <1>4, <3>2, MissedIsAccounted
    <3>4. SdusAccounted(r, lost2, P, next + 1)
      <4> SUFFICES ASSUME NEW i \in 0 .. (next + 1) - 1
                   PROVE  i \in lost2 \/ Has(r, i) \/ \E q \in P : i \in SdusOf(q.fields)
        BY DEF SdusAccounted
      <4>1. i = next \/ i \in 0 .. next - 1
        BY <1>4
      <4> QED BY <2>1, <3>3, <4>1 DEF Accounted, SdusAccounted
    <3> QED BY <3>1, <3>3, <3>4 DEF Accounted
  <2>2. CASE /\ txBuffer' = Append(txBuffer, [data |-> Sdu(next, n), tag |-> "FULL_SDU"])
             /\ lost2 = missed
    <3> DEFINE g == Sdu(next, n)
    <3>1. /\ TxFields' = Append(fields, g) /\ IsPart(g) /\ Idx(g) = next
          /\ From(g) = 1 /\ Upto(g) = Size(g)
      BY <2>2, SduIsQueued
    <3>2. P = sent \union TxOf(sentPdus, fields) /\ Q = sent \union TxOf(sentPdus, TxFields')
      BY <1>3 DEF Pieces
    <3>3. /\ \A p \in sent : p.nr < sentPdus
          /\ \A k \in DOMAIN fields : Upto(fields[k]) = Size(fields[k])
          /\ fields = << >> \/ Chain(fields)
          /\ sentPdus \in Nat
      <4>1. \A pdu \in UnderWay : PieceOf(pdu).nr = pdu.nr
        BY DEF PieceOf
      <4> QED BY <4>1, TxFieldsFacts
    <3>4. \A k \in DOMAIN fields : Idx(fields[k]) < Idx(g)
      <4> SUFFICES ASSUME NEW k \in DOMAIN fields
                   PROVE  Idx(fields[k]) < next
        BY <3>1
      <4>1. Chain(fields) /\ Idx(fields[Len(fields)]) < next
        <5>1. fields # << >>
          BY TxFieldsFacts
        <5>2. [nr |-> sentPdus, fields |-> fields] \in P
          BY <3>2, <5>1 DEF TxOf
        <5>3. LastOf([nr |-> sentPdus, fields |-> fields]) = fields[Len(fields)]
          BY DEF LastOf
        <5> HIDE DEF P, fields, e, next
        <5> QED BY <1>4, <3>3, <5>1, <5>2, <5>3 DEF PiecesFit
      <4> HIDE DEF fields, next
      <4>2. /\ IsPart(fields[k]) /\ IsPart(fields[Len(fields)])
            /\ Idx(fields[k]) <= Idx(fields[Len(fields)])
        BY <4>1, ChainFacts DEF Chain
      <4>3. Idx(fields[k]) \in Nat /\ Idx(fields[Len(fields)]) \in Nat
        BY <4>2, PartFacts
      <4> QED BY <1>4, <4>1, <4>2, <4>3
    <3> HIDE DEF g, fields, P, Q, sent, r, e, lost2, next
    <3>5. Accounted(r, missed, sent \union TxOf(sentPdus, fields), Idx(g))
      BY <1>4, <3>1, <3>2
    <3>6. Accounted(r, missed, sent \union TxOf(sentPdus, Append(fields, g)), Idx(g) + 1)
      BY <3>1, <3>3, <3>4, <3>5, QueuedIsAccounted
    <3> QED BY <2>2, <3>1, <3>2, <3>6
  <2> QED BY <1>1, <2>1, <2>2
<1> QED BY <1>1, <1>3, <1>5 DEF AllAccounted

LEMMA NotifyKeepsAccounts ==
  ASSUME WindowInStep, StreamInStep, AllAccounted, NotifyTxOpportunity
  PROVE  AllAccounted'
<1> DEFINE sent == {PieceOf(q) : q \in UnderWay}
           f == TxFields
           r == Reassembly
           Q == Pieces'
<1>1. nextSdu' = nextSdu /\ Reassembly' = r /\ f # << >> /\ missed' = missed
      /\ \E a, b : SentAs(a, b)
  BY GrantIsSent DEF NotifyTxOpportunity
<1>2. PICK a, b : SentAs(a, b)
  BY <1>1
<1>3. /\ IsSplit(f, a, b)
      /\ Q = (sent \union {[nr |-> sentPdus, fields |-> a]}) \union TxOf(sentPdus + 1, b)
  BY <1>2 DEF SentAs
<1>4. Pieces = sent \union {[nr |-> sentPdus, fields |-> f]}
  BY <1>1 DEF Pieces, TxOf
<1>5. \A p \in sent : p.nr \in Nat /\ p.nr < sentPdus
  <2>1. \A q \in UnderWay : PieceOf(q).nr = q.nr
    BY DEF PieceOf
  <2> QED BY <2>1, TxFieldsFacts
<1>6. sentPdus \in Nat
  BY TxFieldsFacts
<1>7. Accounted(r, missed, sent \union {[nr |-> sentPdus, fields |-> f]}, nextSdu)
  BY <1>4 DEF AllAccounted
<1> HIDE DEF sent, f, r, Q
<1>8. Accounted(r, missed, Q, nextSdu)
  BY <1>3, <1>5, <1>6, <1>7, SplitIsAccounted
<1> QED BY <1>1, <1>8 DEF AllAccounted, Q

LEMMA AccountsStep ==
  ASSUME GapFits, WindowInStep, StreamInStep, AllAccounted, [UmNext]_umVars
  PROVE  AllAccounted'
<1>1. CASE TransmitPdcpPdu
  BY <1>1, TransmitKeepsAccounts
<1>2. CASE NotifyTxOpportunity
  BY <1>2, NotifyKeepsAccounts
<1>3. CASE ReceivePdu
  BY <1>3, ReceiveKeepsAccounts
<1>4. CASE ExpireReorderingTimer
  BY <1>4, ExpireKeepsAccounts
<1>5. CASE LosePdu
  <2>1. PICK pdu \in channel :
          /\ channel' = channel \ {pdu}
          /\ missed' = missed \union SdusOf(pdu.fields)
          /\ UNCHANGED <<umTxVars, umRxVars>>
    BY <1>5 DEF LosePdu
  <2>2. UNCHANGED <<txBuffer, sentPdus, nextSdu, umRxVars>>
    BY <2>1 DEF umTxVars
  <2>3. /\ channel' \subseteq channel /\ missed \subseteq missed'
        /\ \A other \in channel \ channel' : SdusOf(other.fields) \subseteq missed'
    BY <2>1
  <2> QED BY <2>2, <2>3, FewerKeepsAccounts
<1>6. CASE ExpireRbsTimer \/ WastedOpportunity
  <2>1. UNCHANGED <<txBuffer, sentPdus, nextSdu, umRxVars>> /\ channel' = channel /\ missed' = missed
    BY <1>6 DEF ExpireRbsTimer, WastedOpportunity
  <2> QED BY <2>1, FewerKeepsAccounts
<1>7. CASE UNCHANGED umVars
  <2>1. UNCHANGED <<txBuffer, sentPdus, nextSdu, umRxVars>> /\ channel' = channel /\ missed' = missed
    BY <1>7 DEF umVars, umTxVars
  <2> QED BY <2>1, FewerKeepsAccounts
<1> QED BY <1>1, <1>2, <1>3, <1>4, <1>5, <1>6, <1>7 DEF UmNext

LEMMA AccountsInitially == UmInit => AllAccounted
<1> SUFFICES ASSUME UmInit
             PROVE  AllAccounted
  OBVIOUS
<1>1. nextSdu = 0 /\ txBuffer = << >> /\ DOMAIN txBuffer = {} /\ DOMAIN rxBuffer = {} /\ channel = {}
  BY DEF UmInit
<1>2. UnderWay = {} /\ TxFields = << >>
  BY <1>1 DEF UnderWay, Stored, TxFields, FieldsOf
<1>3. Pieces = {} /\ Reassembly.keep = << >>
  BY <1>2 DEF UmInit, Pieces, TxOf, Reassembly
<1> QED BY <1>1, <1>3
        DEF AllAccounted, Accounted, BeginsAccounted, KeptAccounted, EndsAccounted, SdusAccounted

LEMMA AccountsAlways == ASSUME GapFits PROVE UmSpec => []AllAccounted
<1>1. UmSpec => []WindowInStep
  BY WindowAlways
<1>2. UmSpec => []StreamInStep
  BY StreamAlways
<1>3. UmInit => AllAccounted
  BY AccountsInitially
<1>4. WindowInStep /\ StreamInStep /\ AllAccounted /\ [UmNext]_umVars => AllAccounted'
  BY AccountsStep
<1> QED BY <1>1, <1>2, <1>3, <1>4, PTL DEF UmSpec

\* An SDU that came down and did not go up is missing for a reason: a PDU with
\* a part of it was lost or came too late, or the transmission buffer was
\* full; or it is still under way.  DoReceivePdu, ExpireReorderingTimer and
\* ReassembleAndDeliver drop nothing of their own accord.
THEOREM OnlyMissedSdusAreDroppedAlways ==
  ASSUME GapFits PROVE UmSpec => []OnlyMissedSdusAreDropped
<1>1. StreamInStep /\ AllAccounted => OnlyMissedSdusAreDropped
  <2> SUFFICES ASSUME StreamInStep, AllAccounted, NEW i \in 0 .. nextSdu - 1
               PROVE  \/ i \in missed
                      \/ \E k \in DOMAIN handedUp : HandedUpSdus[k] = i
                      \/ \E k \in DOMAIN txBuffer : txBuffer[k].data[1][1] = i
                      \/ \E pdu \in channel : i \in SdusOf(pdu.fields)
                      \/ \E sn \in DOMAIN rxBuffer : i \in SdusOf(rxBuffer[sn].fields)
                      \/ keepS0 # << >> /\ keepS0[1][1] = i
    BY DEF OnlyMissedSdusAreDropped
  <2>1. i \in missed \/ Has(Reassembly, i) \/ \E q \in Pieces : i \in SdusOf(q.fields)
    BY DEF AllAccounted, Accounted, SdusAccounted
  <2>2. CASE Has(Reassembly, i)
    <3>1. Reassembly.up = handedUp /\ Reassembly.keep = keepS0
      BY DEF Reassembly
    <3> QED BY <2>2, <3>1 DEF Has, HandedUpSdus, Idx
  <2>3. ASSUME NEW pdu \in UnderWay, i \in SdusOf(PieceOf(pdu).fields)
        PROVE  \/ \E other \in channel : i \in SdusOf(other.fields)
               \/ \E sn \in DOMAIN rxBuffer : i \in SdusOf(rxBuffer[sn].fields)
    <3>1. PieceOf(pdu).fields = pdu.fields
      BY DEF PieceOf
    <3> QED BY <2>3, <3>1 DEF UnderWay, Stored
  <2>4. ASSUME NEW q \in TxOf(sentPdus, TxFields), i \in SdusOf(q.fields)
        PROVE  \E k \in DOMAIN txBuffer : txBuffer[k].data[1][1] = i
    <3>1. q.fields = TxFields
      BY DEF TxOf
    <3>2. PICK k \in DOMAIN TxFields : Idx(TxFields[k]) = i
      BY <2>4, <3>1, SdusOfFields
    <3> QED BY <3>2 DEF TxFields, FieldsOf, Idx
  <2> QED BY <2>1, <2>2, <2>3, <2>4 DEF Pieces
<1> QED BY <1>1, StreamAlways, AccountsAlways, PTL
=============================================================================
