--------------------------- MODULE MCUsbMicChime ----------------------------
EXTENDS UsbMicChime

=============================================================================
