---------------------------- MODULE MC_Broadcaster ----------------------------
EXTENDS Broadcaster, TLC
=============================================================================
