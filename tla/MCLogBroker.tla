----------------------------- MODULE MCLogBroker -----------------------------
EXTENDS LogBroker, TLC

=============================================================================
