----------------------------- MODULE MCFileLock -----------------------------
EXTENDS FileLock
=============================================================================
