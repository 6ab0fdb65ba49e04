----------------------------- MODULE MCUsbdEp0 -----------------------------
(* Two-byte packets, a four-byte request buffer, requests up to six bytes. *)
EXTENDS UsbdEp0

AnyOffer == 0 .. 6
=============================================================================
