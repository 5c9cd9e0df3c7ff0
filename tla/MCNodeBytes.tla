---------------------------- MODULE MCNodeBytes ----------------------------
(* Bytes of three bits: a byte holds 0..7, two hold 0..63, a rank's word   *)
(* eleven bits and its groups two.  The values sit on both sides of every  *)
(* boundary of the encoders.                                               *)
EXTENDS NodeBytes

MCRanks   == {0, 1, 7, 8, 63, 64, 2047, 2048, 4095, 4096, 8191, 8192, 16777215}
MCOffsets == {0, 7, 8, 63, 64, 16777215}
MCLabels  == {<<>>, <<7>>, <<4, 0, 7>>}
=============================================================================
