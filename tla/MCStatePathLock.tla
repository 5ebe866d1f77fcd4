-------------------------- MODULE MCStatePathLock --------------------------
EXTENDS StatePathLock
=============================================================================
