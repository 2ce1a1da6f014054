---------------------------- MODULE MCExpiryTimers ----------------------------
EXTENDS ExpiryTimers

CONSTANTS e1, r1, r2
===============================================================================
