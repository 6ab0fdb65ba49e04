-------------------------- MODULE MCUsbRingbuffer --------------------------
(* A two-byte alphabet in a four-slot ring whose counters wrap at eight.   *)
(* The bytes are interchangeable: nothing compares them with a constant.   *)
EXTENDS UsbRingbuffer, TLC

ByteSymmetry == Permutations(Byte)
=============================================================================
