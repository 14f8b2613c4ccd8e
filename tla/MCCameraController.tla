------------------------ MODULE MCCameraController ------------------------
EXTENDS CameraController
=============================================================================
