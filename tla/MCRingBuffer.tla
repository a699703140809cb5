---------------------------- MODULE MCRingBuffer ----------------------------
(* RingBuffer on three bytes of memory, bytes of one bit, and requests one *)
(* byte longer than the memory.                                            *)
EXTENDS RingBuffer

\* The conversion to char keeps the low bits, here one.
MCAsChar == [n \in 0..Size |-> n % 2]
=============================================================================
