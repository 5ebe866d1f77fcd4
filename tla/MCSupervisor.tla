---------------------------- MODULE MCSupervisor ----------------------------
EXTENDS Supervisor, TLC
=============================================================================
