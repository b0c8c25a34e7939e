---------------------------- MODULE MCLbtAccess ----------------------------
(* LbtAccess for TLC: a signal shorter and one longer than the defer time.  *)
EXTENDS LbtAccess

MCBusyDurations == {1, 6}
=============================================================================
