---------------------------- MODULE MCCPACollector ----------------------------
EXTENDS CPACollector
=============================================================================
