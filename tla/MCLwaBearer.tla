---------------------------- MODULE MCLwaBearer ----------------------------
(* LwaBearer for TLC: the widths of the integer types at the scale of the
   sequence number space, as in the code (2^16 = 16 * 4096).               *)
EXTENDS LwaBearer

MCU16 == 16 * SnSpace
MCU32 == 256 * SnSpace
=============================================================================
