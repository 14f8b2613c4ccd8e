---------------------------- MODULE MCRecording ----------------------------
EXTENDS Recording
=============================================================================
