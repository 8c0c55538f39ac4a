-------------------------- MODULE MCCameraControls --------------------------
EXTENDS CameraControls
=============================================================================
