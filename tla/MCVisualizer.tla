---------------------------- MODULE MCVisualizer ----------------------------
(* Visualizer for TLC. *)
EXTENDS Visualizer

MCSources == 1 .. 3
MCPeriods == {1}
=============================================================================
