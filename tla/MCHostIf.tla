----------------------------- MODULE MCHostIf ------------------------------
(* HostIf for TLC: sets of interfaces, and steady operation. *)
EXTENDS HostIf

UartOnly == {"UART"}
I2cOnly  == {"I2C"}
SpiOnly  == {"SPI"}
UartSpi  == {"UART", "SPI"}
I2cSpi   == {"I2C", "SPI"}
=============================================================================
