---------------------------- MODULE MCRingbuffer ----------------------------
(* The instances of Ringbuffer the runs check.                             *)
EXTENDS Ringbuffer

RequestUpTo4 == 0..4
=============================================================================
