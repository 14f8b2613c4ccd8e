---------------------------- MODULE MCLiveServer ----------------------------
EXTENDS LiveServer
=============================================================================
