--------------------------- MODULE MCUartReceiver ---------------------------
(* UartReceiver for TLC: frames that fill the buffer exactly, and beyond it. *)
EXTENDS UartReceiver

ShortLens == {0, 1, 2}
=============================================================================
