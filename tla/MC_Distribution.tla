-------------------------- MODULE MC_Distribution --------------------------
EXTENDS Distribution
============================================================================
