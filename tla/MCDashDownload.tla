--------------------------- MODULE MCDashDownload ---------------------------
(* DashDownload for TLC: an MPD and segments of different sizes, one of     *)
(* them empty and some larger than the send buffer of the server.           *)
EXTENDS DashDownload

MCFileSize == [f \in 0 .. Last |-> CASE f = 0 -> 3
                                     [] f % 4 = 1 -> 9
                                     [] f % 4 = 2 -> 2
                                     [] f % 4 = 3 -> 0
                                     [] OTHER -> 6]
=============================================================================
