------------------------------ MODULE MCRmwLink ------------------------------
EXTENDS RmwLink

CONSTANT r1

\* The frame is not admitted, has no limit, or may be repaired once.
MCLimits == {NotAdmitted, 0, 1}
=============================================================================
