------------------------- MODULE MCLocalControlLease -------------------------
EXTENDS LocalControlLease

CONSTANT Unit

Speeds == {0, 3 * Unit, -5 * Unit}
Cruise == {0, 3 * Unit}
MaxSpeedUnits == 3 * Unit
=============================================================================
