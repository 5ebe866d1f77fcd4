------------------------------ MODULE MCCycle ------------------------------
EXTENDS Cycle
=============================================================================
