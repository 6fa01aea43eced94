--------------------------- MODULE MCBleTransport ---------------------------
EXTENDS BleTransport, TLC

Symmetry == Permutations(Connects) \cup Permutations(Writes) \cup
            Permutations(Reads) \cup Permutations(Disconnects)
=============================================================================
