---------------------------- MODULE MCAnsiParser -----------------------------
\* Module for checking AnsiParser with TLC; all its values are in the .cfg.
EXTENDS AnsiParser
==============================================================================
