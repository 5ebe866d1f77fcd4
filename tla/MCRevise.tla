------------------------------ MODULE MCRevise ------------------------------
EXTENDS Revise
=============================================================================
