----------------------------- MODULE MCLteRlcUm -----------------------------
(* LteRlcUm for TLC: SDUs that fit into one PDU and SDUs of which only a part
   does.                                                                   *)
EXTENDS LteRlcUm

MCSduSizes == {1, 3}
=============================================================================
