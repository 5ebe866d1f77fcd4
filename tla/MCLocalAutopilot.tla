-------------------------- MODULE MCLocalAutopilot --------------------------
EXTENDS LocalAutopilot
=============================================================================
