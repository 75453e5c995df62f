------------------------------ MODULE MCFleet ------------------------------
EXTENDS Fleet

CONSTANTS d1, w1
=============================================================================
