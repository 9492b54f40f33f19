----------------------------- MODULE MCUsbLink ------------------------------
(* Model checking UsbLink: messages longer than a ring.                    *)
EXTENDS UsbLink

LongShortLong == <<3, 1, 2>>
LongAndLonger == <<2, 3, 2>>
=============================================================================
