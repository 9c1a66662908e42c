--------------------------- MODULE MCUsbRecovery ---------------------------
(* An instance of UsbRecovery for TLC. *)
EXTENDS UsbRecovery

\* A partition, and one that runs past the end of the flash.
MCExtents == {<<1, 2>>, <<2, 2>>}
=============================================================================
