------------------------------ MODULE MCPiCam ------------------------------
EXTENDS PiCam
=============================================================================
