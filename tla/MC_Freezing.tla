---------------------------- MODULE MC_Freezing ----------------------------
EXTENDS Freezing
============================================================================
