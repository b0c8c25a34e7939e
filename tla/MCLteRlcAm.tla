----------------------------- MODULE MCLteRlcAm -----------------------------
(* LteRlcAm for TLC: all constants are numbers and are set in the .cfg.     *)
EXTENDS LteRlcAm
=============================================================================
