-------------------------- MODULE MCMotionDetector --------------------------
EXTENDS MotionDetector
=============================================================================
