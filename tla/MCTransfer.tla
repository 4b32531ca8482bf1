---------------------------- MODULE MCTransfer -----------------------------
(* Transfer with small widths: a file of 7 bytes cut into single bytes has   *)
(* more packets than a uint8_t or a uint16_t of the model can count.         *)
EXTENDS Transfer

SmallSizes == 0 .. MaxSize
SmallDivs == 0 .. 3
=============================================================================
