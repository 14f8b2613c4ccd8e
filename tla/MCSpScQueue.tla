---------------------------- MODULE MCSpScQueue ----------------------------
EXTENDS SpScQueue
=============================================================================
