--------------------------- MODULE MCUsbMicStream ---------------------------
EXTENDS UsbMicStream

=============================================================================
