----------------------------- MODULE MCUsbhHub -----------------------------
(* One root port and an external hub of two ports.                          *)
EXTENDS UsbhHub
=============================================================================
