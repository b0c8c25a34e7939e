--------------------------- MODULE OrderedDelivery ---------------------------
(***************************************************************************)
(* What a PDCP bearer with reordering promises the layer above it: of the  *)
(* SDUs that were sent it delivers some, each at most once and in the      *)
(* order in which they were sent; an SDU that has been overtaken is never  *)
(* delivered any more.  The SDUs are numbered 0, 1, 2, ...                 *)
(***************************************************************************)
EXTENDS Naturals, Sequences

VARIABLES
  sent,      \* number of SDUs sent
  delivered  \* indices of the SDUs delivered, in order of delivery

NextIndex(s) == IF s = << >> THEN 0 ELSE s[Len(s)] + 1

Init == sent = 0 /\ delivered = << >>

Send == sent' = sent + 1 /\ UNCHANGED delivered

\* One or more SDUs go up in one step, all of them later than those before.
Deliver ==
  /\ UNCHANGED sent
  /\ Len(delivered') > Len(delivered)
  /\ \A i \in 1 .. Len(delivered) : delivered'[i] = delivered[i]
  /\ \A i \in Len(delivered) + 1 .. Len(delivered') :
       /\ NextIndex(delivered) <= delivered'[i]
       /\ delivered'[i] < sent
       /\ i > Len(delivered) + 1 => delivered'[i - 1] < delivered'[i]

Next == Send \/ Deliver

Spec == Init /\ [][Next]_<<sent, delivered>>

=============================================================================
