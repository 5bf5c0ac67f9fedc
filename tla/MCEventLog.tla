----------------------------- MODULE MCEventLog -----------------------------
\* Checking EventLog with TLC; the constants are given in the .cfg files.
EXTENDS EventLog
=============================================================================
