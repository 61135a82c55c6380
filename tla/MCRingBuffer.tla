---------------------------- MODULE MCRingBuffer ----------------------------
(***************************************************************************)
(* RingBuffer for TLC.  The configuration takes a capacity the batch size  *)
(* does not divide, so that head and tail wrap at every offset.            *)
(***************************************************************************)
EXTENDS RingBuffer
=============================================================================
